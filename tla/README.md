# A TLA+ model of Venya

Venya lets people and language models run commands on remote machines with
secrets they never see. A **core** server keeps users, roles, secrets and an audit
log; **executors** on the target machines run commands in a sandbox and mask
secrets in the output; a CLI, a browser UI and an MCP server call the core.

This directory models the parts of that system whose correctness depends on the
order in which things happen, checks them with TLC on small instances, and proves
the most important facts with TLAPS for every size of the system.

## 1. The system

| Part | State | Operations | Talks to |
|---|---|---|---|
| Execution sessions (`routes/executors.py`) | `execution_sessions`, `execution_session_secrets`, audit events; row locks of open transactions; the event loop | create, execute (claim, relay, commit or roll back), sweep, removal of the owner | executor (HTTPS POST), PostgreSQL, CRL store in a worker thread |
| Relay listener (`relay_listener.py`) | permit semaphore, drain flag, one thread per connection | accept, screen, acquire, admit, run, release; stop, restart | core, engine |
| Engine of a relayed command (`executor.py`, `sbx_strategy.py`) | the run's secret directory on tmpfs, its output | prepare, run, filter in two stages, tear down, revoke bindings | core (`/filter`, `/secrets/revoke`), sandbox |
| Reaper (`daemon.py`) | directories and their age | scan, delete, revoke | core |
| Secret store (`engine/core.py`) | `secrets`, scopes, key versions | put, get, delete, key rotation | execution sessions, filter |
| User sessions (`session_manager.py`, `middleware/auth.py`) | `sessions`: creation, idle deadline, bearer deadline | login, validate and extend, refresh, logout, sweep | every user route |
| Elevation (`auth_elevation.py`, `secrets.py`) | `elevation_challenges`, `elevation_tokens` | challenge, assert, unmask | user sessions, WebAuthn |
| Executor fleet (`executors.py`, `admin.py`, `ca.py`, `revocation*.py`, `daemon.py`) | certificates, revoked serials, identities, enrollment tokens, the published revocation snapshot | enroll, register, rotate, revoke, remove, poll, heartbeat | listener (verdicts), execution sessions (standing) |
| Users, roles, enrollment, recovery (`role_manager.py`, `enroll.py`, `init.py`, `recovery.py`, `credentials.py`, `fido2/manager.py`) | users, memberships, role tiers, security keys as rows and in a cache, tokens, challenges, recovery codes | initialise, reset, enroll, add and remove keys, assign, remove, disable, re-enroll, recover | every admission check |
| Core start and key-encryption key (`backend.py`, `secure_memory.py`, `app.py`) | salt and sentinel in the database, the key in memory | salt, derive, verify, serve, stop | secret store |
| Admin CA and its custody (`ca.py`, `commands.py`, `shamir.py`, `at_rest_key.py`) | key and certificate file, backup, share files | initialise, export, split, restore | administrator certificates |
| Administrator certificates (`admin_certs.py`, `core_relay_certs.py`, `admin_registry.py`, `middleware/auth.py`, `api_client.py`) | certificates, registry, revocations, the workstation's pair, the client's transport | elevate, issue, generate, present, admit, register, revoke | CA, audit |
| Sandboxed runs (`executor.py`, `sbx_strategy.py`, `command_validator.py`) | microVMs, registry of live ones, workspaces, policy in force | validate, inject, create, claim, copy, fence, exec, remove, reap, report | sbx, audit spool, core (policy) |
| Audit (`executor/audit.py`, `routes/audit.py`) | spool file, drains in flight, the core's audit events | emit, drop oldest, forward, ingest, remove what was sent | core |
| Rate limiters (`rate_limiter.py`, `middleware/rate_limit.py`) | windows, lockouts | hit, lock, expire | login, unmask, registration |
| MCP, UI, contract, the CLI's other commands | none of consequence | translate calls | core |

What makes it hard:

- **One event loop, synchronous SQL.** Handlers are coroutines, but each SQLAlchemy
  call blocks the loop. Between two awaits a handler is atomic; a statement that
  waits for a row lock stops everyone, including the lock's owner. The end of a request is
  not on the loop: `get_db` is a synchronous generator, whose rollback runs in a worker
  thread after the handler has raised.
- **Transactions across awaits.** The claim of a session is an uncommitted UPDATE
  that stays open while the command runs on another machine.
- **Orphans and retries.** The core stops waiting after 300 s; the run goes on, and
  the retry runs beside it and shares its session.
- **Threads against a stop.** Handler threads read the drain flag without a lock and
  queue on the semaphore that `stop()` drains.
- **Identity established before an await, used after it.**
- **Time arithmetic** with several durations and a tolerance.
- **State kept twice**: security keys as rows and in a cache, a client certificate on
  disk and in a transport, a command policy at the core and in the daemon.
- **Several files or rows that belong together and are written one after the other**:
  key and certificate, shares of a split, secret and sentinel, spool and ledger.

`PROJECT.json` lists each of these as a hazard, at its line, with the properties
that would catch it going wrong.

## 2. The modules

| Module | Models |
|---|---|
| `OneShotSession` | what the execute route promises about a session: claimed, then released or completed once, never reaped while claimed |
| `ExecutionSessions` | the execute protocol as the code runs it |
| `ExecutionSessionsProofs` | its invariants and the refinement of `OneShotSession`, proved |
| `RelaySlots` | the executor's relay listener |
| `ExecRelay` | `RelaySlots`, which it extends, and `ExecutionSessions` joined by the relayed request, with the secret's value travelling through binding, payload, directory, output |
| `ExecRelayProofs` | the invariants of `RelaySlots` and of `ExecRelay`, and that the composition steps as its parts do, proved |
| `UserAccess` | a user's sessions and elevations |
| `UserAccessProofs` | its invariants, proved |
| `ExecutorFleet` | an executor's identity: tokens, certificates, revocation list, daemon |
| `ExecutorFleetProofs` | its invariants, proved |
| `Identity` | users, roles, keys, enrollment, first administrator, recovery |
| `IdentityProofs` | its invariants and action properties, proved |
| `Vault` | core processes over one database: key-encryption key, secrets, key versions |
| `VaultProofs` | its invariants and its action property, proved |
| `CAKeys` | the admin CA's files and their custody |
| `AdminCerts` | extends `CAKeys`: certificates of administrators from minting to revocation, and the workstation that presents them |
| `AdminCertsProofs` | the invariants and the action property of both, proved |
| `AuditSpool` | the executor's spool, its drains and the core's ingest |
| `SandboxRuns` | extends `AuditSpool`: sandboxed runs, their daemon and the command policy |
| `SandboxRunsProofs` | the invariants of both, proved |
| `MC*` | the instances TLC checks |

### ExecutionSessions

`row` is the committed row, `claim` the request whose open transaction has stamped
`completed_at`, `loop` the task whose synchronous statement the loop is stuck in,
`doomed` the rows that a stopped DELETE picked, `pc` where each submission is, `standing`
what the database says of the executor, `trail` the committed audit rows, each with its
event type and its outcome.

An action is a stretch of a handler between two awaits. `ExecuteClaims`,
`ExecuteReplay`, `ExecuteBlocks`, `ExecuteRefused` and `ExecuteUnprocessable` are the
five ways `execute_command_on_executor` gets to its first await: the conditional
UPDATE matches, matches nothing because the marker is committed, or waits for a lock;
a check in front of it refuses; a secret's shape is refused after it. `MintDone` and
`MintFails` are the return of the revocation list from its worker thread, `RelayOk`
and `RelayRaises` the end of the POST. A raise after the claim leaves the transaction
open (`raised`); the loop hands `get_db`'s exit to a worker thread (`RollbackStarts`), which
rolls back whatever the loop is doing (`RolledBack`). In between the loop serves others, who
may stop on the lock: when the thread releases it their statement goes on (`ExecuteResumes`,
`DeleteResumes`), unless `statement_timeout` cancels it first. `Sweep` and `RemoveOwner` are
the two other tasks that delete rows, each with a twin for the case that a row is locked.
Wall-clock time is abstracted: `Lapse` may happen at any time after creation.

A relay that times out leaves a row of type `command_executed` too, with the outcome
`relay_timeout` and no exit code, in a transaction of its own; writing it may fail. A session
that is retried therefore has several `command_executed` rows. `OneResult` speaks of those
that report an exit code: one at most, together with the marker, and never of a submission
that also has a timeout row.

### RelaySlots

`free` is the semaphore, `held` what `_wait_for_idle` has taken, `job` the point a
handler thread has reached, `code` its answer. The drain flag is read in `Screen` and
again in `Admit`, two separate steps, as in `do_POST`. `Restart` is the end of the
process, orderly or not: threads die where they stand.

### ExecRelay

Extends `RelaySlots`, INSTANCEs `ExecutionSessions` on variables of its own, and adds `secret`
(the row's value), `bound` (the session's binding), `payload`, `run`, `out`, `dir`. Core and executor
share only messages: a connection needs a core that is waiting, an answer needs a
reply that was written, and every call from the executor to the core may fail, and
must fail while the loop is stopped or the certificate is not accepted. Events nobody
waits for are counted and bounded by `MaxEvents`. The reaper's time-to-live is configuration
without a lower bound: `TtlCoversWait` says whether it is at least the 300 s that the core
waits for a reply. If not, a directory may be reaped while the core still waits, and
`UndisturbedIsMasked` excuses exactly the submissions whose own directory was.

### UserAccess

`now` is the clock, and `created`, `expires`, `tokenDue` the three instants of a
session. The middleware's step (`Validate`) and the handler's step are separate:
`ctx` holds requests whose caller has been established and whose handler has not run.
`tries` counts the answers to a challenge that got past its claim.
The user is single, so the challenge's and the token's user check always succeed;
the session check is kept where the code has it (the challenge) and absent where the
code has none (the token). The sweep's `LIMIT 1000` is above the instance's size.

### ExecutorFleet

The core's side is the database: `token`, `row` (the `executors` row and its
`revoked_at`), `cert` (the record's serial), `issued`, `revoked`. `snap` is the published
list, `fresh` says that it is younger than its ceiling. The daemon's side is its disk
(`boot`, `certF`, `keyF`), its place in the program (`pc`) and its memory. Serials count
the certificates of the identity; a list is a set of serials, with `Id` when the
identity is named.

A registration travels as an element of `asks`, which remembers whether anybody still
waits for the answer: a daemon that times out or dies leaves a request that the core
may yet commit. With a token the handler has no await and is one step (`Enroll`); a
rotation is two (`Exempt` in a worker thread, `Renew`), and anything may happen between
them. Every file replacement is a step, in the code's order, which differs: enrollment
writes the certificate first, rotation the key. The check sends the ETag it has when it
starts (`sent`); a check the loop gave up on (`late`) may still store the ETag it gets.
A rotation may be due at any time. Left out: the expiry of certificates, a core
configured not to require tokens, other identities. `NextSerial`, `ClearBootstrapToken`
and `SnapshotAnswers` name what the CA assigns, what the daemon does to its token file
after an enrollment, and when the core answers a check from its snapshot.

### Identity

Users, memberships, roles (a name as far as the code tells names apart, and a tier),
keys, tokens and challenges are rows. `mem` is the credential cache of the process, which
the routes keep in step by hand and which a start loads from the active rows. Handlers
have no await and are one step; the check in front of an administrator's handler runs in
a worker thread, so `gate` holds callers who were admitted and not yet handled, and
everything may change in between. `Bootstrap` is the caller whom
`require_admin_when_initialized` lets in because nobody owns the core. `Purge` is what the
database cascades with a user's row. A ceremony is a stored challenge that the first
attempt to finish claims, whether it succeeds or not. Guards that the code does not have
are absent here too: re-enrollment does not protect the last administrator, completing an
enrollment does not look at the account's status.

### Vault

A process starts with the passphrase its environment holds at that moment (`phrase`), in
the steps of `bootstrap_kek` and of the check of the sentinel: read the salt, draw one, derive,
look for a sentinel, sample stored envelopes. Two processes may be anywhere in them and may
hold different passphrases; the code compares them with nothing but what is stored.
`crossed` is a history variable: it becomes true when a process is let in beside another key,
that of a process which serves already or of a sentinel written since it looked.
`AllReadable` holds as long as it is false.

A key is a passphrase with a salt; an envelope opens under the key that wrapped it. `put` is
two steps, `encrypt` (which writes the sentinel, or fails to) and the write under the advisory
lock of the name. One name is modelled; a user sees the row of that name that comes first by id
among those the user made or has a role for. Key versions are labels: rotation moves the
boundary and wraps nothing again, and a secret carries the label it was announced or the id an
operator typed, which is why `InUse` looks at one of the two only.

Rotation and rollback are transactions of a process (`tx`), read committed: the reads, the
UPDATE that retires what is active when it starts and waits for rows that others have updated,
the insert or activation, the commit. `IndexAllows` is the partial unique index
`uq_key_versions_single_active`; a transaction it refuses, or that fails otherwise, ends in
`TxFails` (409 for a rotation, 400 for a rollback). That one version is active is the work of
the index, and the mutant `NoIndex` shows it. A rollback whose prior version was active when it
was read does not write it again, since the UPDATE runs with `synchronize_session=False` and the
object in the session does not change.

### CAKeys and AdminCerts

`CAKeys` is a directory in which `admin-ca.key` and `admin-ca.crt` are written one after
the other, and the operator's backup and share files. A key is known by its generation
and by whether it is encrypted at rest. `CutShort` ends a command between any two writes.
The scheme of the shares enters by what `combine` tells: enough shares of one split
rebuild its key, shares of different splits fail the checksum. Threshold and number of shares
are arguments of each split (`Cuts`). `whole` is the last split that was completed; later ones
over the same directory may be cut short any number of times.

`AdminCerts` adds the core (anchor, registry, revocations, audit), the workstation's pair
(`disk`) with the command that is replacing it (`pending`), and the client. A request goes
through `APIClient._http` in the steps in which it reads the files: with a transport it compares
the file's fingerprint with the recorded one (`Confirms`) and drops the transport if they differ;
without one it checks the expiry, takes the fingerprint and loads the pair (`ChecksExpiry`,
`Prints`, `LoadsPair`), and what it built is used without another look at the disk. A renewal
writes the key, then the certificate, between any two of these. `staged` and `print` are the
transport and its fingerprint, `sending` the certificate a request presents, `since` the history
of what was on disk while the request was prepared. Registration reads the facts off whatever
certificate it is given; it verifies neither chain nor signature, so any serial may be
registered. A certificate is admitted by the middleware and handled later (`gate`). The plane of a
certificate is what its marker says; `cmd_admin_generate_admin_cert` writes none.

### AuditSpool and SandboxRuns

The spool is a sequence of lines. What a logger does under the path's lock is a step, so a
drain is four: read a prefix, post it (halving on 413), have it ingested, remove by
content. The daemon's logger and a run's logger drain the same file. A write may be cut
short: the next line is joined to it. The lines that a removal leaves are written as a
function of their place (`Nth`, `Rank`) and not with `SelectSeq`, which is recursive and
about which the provers know nothing.

A run is one step per call of `sbx`, each of which may fail or time out; a timeout is a
result, another failure is not. `vm` is what the host has, `claimed` the daemon's registry
of live sandboxes, `todo` the names a reap pass decided on before it removes them one by
one. A crash leaves microVMs, directories and the spool; `Restart` sweeps. All runs send
the same command and a policy is what it says of that command: its preset, whether its
allowlist has the command (which only the strict preset asks), whether its dangerous patterns
match. The two checks are made in two steps, as in `CommandValidator.validate`. Accidents are
bounded by `Accidents`, policy changes by nothing but the policies there are.

`settled` in `AuditSpool` is a history of what the core's table has and of what drop-oldest
discarded and counted. The code's count, `dropped_total`, is kept in memory and a restart forgets
it, as its docstring says: `OnRecord` shows that no loss goes uncounted, and not that the count
outlives the process.

## 3. What is checked

| Run | Instance | Shows |
|---|---|---|
| `sessions` | 1 session, 2 submissions; 4 thousand states | `OneResult`, `ClaimedRowKept`, `NoOrphanedLock`, the refinement `ImplementsOneShot`, `EveryRequestAnswered`, `EveryRowReaped` |
| `slots` | 3 commands, 2 permits | `SlotsConserved`, `IdleIsFinal`, `EveryJobEnds`, no deadlock |
| `relay` | 1 session, a submission and a retry, 1 permit, 1 outside event, any time-to-live; 1.1 million states | `BindingsAreLive`, `UndisturbedIsMasked` |
| `relay_cleanup` | 1 submission, 3 outside events, a time-to-live of 300 s or more; 600 thousand states | `PlaintextDies` |
| `relay_raw` | 1 session, 2 submissions, no outside event | **violated**: `NoRawDelivery` |
| `access` | 1 session, 2 ceremonies, clock 0..7; 907 thousand states | `SweptIsDead`, `OneDisclosurePerTouch`, `OneAnswerPerChallenge`, `EverySessionEnds` |
| `fleet` | 2 tokens, 2 certificates, 1 registration in flight, threshold 2; 440 thousand states | `OneLiveSerial`, `NoIdentityNoCredential`, `RevokedDaemonStops`, no deadlock |
| `fleet_poll` | 1 token | **violated**: `UnchangedMeansLive` |
| `identity` | 2 users, 2 keys, 2 roles, a token, a ceremony, 2 requests between check and handler, 3 administrative steps; 325 thousand states | `AuditorsApart`, `CacheAgrees`, `RetiredKeysStayOut`, `AdminKept`, `BootstrapSparesOwners` |
| `vault` | 2 processes, 2 users, 2 versions, 2 passphrases, 2 salts, 5 starts, mishaps or administrative steps; 831 thousand states | one active version, `AllReadable`, `ReadYourWrite` |
| `certs` | a person, 3 certificates, 2 generations of the CA, 3 splits of 2/3, 2/4 or 3/4 shares, 5 operator steps; 1.9 million states | `SharesRecover`, `Accountable`, `PresentsRenewed` |
| `sandbox` | 2 runs, 2 loggers, a spool of 2 lines, a sink of 1, 2 policy changes, one accident; 408 thousand states | `OnRecord`, `SecretsAreClaimed`, `Drains`, `PolicyReaches` |

The type invariants say more than types where pieces of state belong together: a submission
is inside its claim statement exactly while the loop stands still, no row of a user who is
gone, one active key version, no revocation of a certificate nobody registered.

Each property of a passing run has a mutant: a definition of the module changed the
way a plausible bug would change it (comments beginning "Mutation"), under which TLC
finds the property violated.

### Bounds

- One session and two submissions: every interaction in the execute route is between a claim
  and one other statement on its row. A second session adds rows that nobody meets; the safety
  properties and the refinement are proved for any number of both (`ExecutionSessionsProofs`),
  and what delays a submission or a row for ever could only be a claim on its own row or a
  stopped loop, which two submissions give.
- Three commands for two permits: one runs, one is admitted, one queues, while the
  stop competes for the second permit.
- One permit in `ExecRelay`: with `MaxEvents = 0` and two submissions the retry already
  queues behind the orphan; more events multiply the state space and are used with a
  single submission. `relay` compares states by `PathView`, which leaves out what no later step
  and none of its properties reads (the audit trail, which `sessions` checks).
- Clock 0..7 with a cap of 4, an idle timeout of 2 and a tolerance of 1: a session
  can be extended, go idle, be revived, reach its cap and be swept. A login is only
  taken while the clock still reaches past its cap; `UserAccessProofs` removes the
  bound for the safety properties.

- Two certificates and two tokens: an enrollment and a rotation that succeeds, is lost or
  is interrupted, or an enrollment, a removal and another enrollment.
  `ExecutorFleetProofs` has no bound on either, nor on the registrations in flight.

- Two users and two roles in `Identity`: every guard compares the caller with the target or
  asks for a second administrator. Three administrative steps after a free number of
  ceremonies reach a re-enrolled, removed or recovered administrator, a reset that was
  admitted before the first enrollment, and a restart in between.
- Two processes in `Vault`: the races for the salt and for the active version have two sides.
  Five counted steps are two starts and three of: another start, with the same or the other
  passphrase, a lost salt, a rotation, a rollback. Two first rotations that overlap are among
  them; `VaultProofs` has no bound.
- Three splits of three or four shares with threshold two or three: after a completed split, two
  more are cut short one after the other, each after any number of shares and with other
  numbers. `AdminCertsProofs` has no bound on the shares, the thresholds or the splits;
  `Splittable` is what `shamir.split` accepts.
- Two policy changes in `sandbox`, besides the accident: the command, which `executor.toml`
  refuses, is listed and so let through, and is then barred by a pattern, or barred at once. The
  two rows have one preset. A crash before, between or after them and their heartbeats falls
  back to `executor.toml`. There is no counter of changes in the state.
- One accident in `sandbox`, of any kind, at any step of either run. The spool holds two
  lines, fewer than the records of two runs, so drops happen; the sink takes one, so batches
  are halved.

### Fairness

- `statement_timeout` is PostgreSQL's timer: weak fairness of `StatementTimeout`.
- The mint and the POST are bounded by their own timeouts. Their continuations sit in
  the loop's ready queue, which is emptied whenever the loop runs, so a task that keeps
  freezing the loop cannot pass them over for ever: strong fairness. Weak fairness
  would not do, because each freeze disables them.
- A request that raised has its rollback handed to a worker thread by the loop, in the same
  queue (strong fairness of `RollbackStarts`), and the thread is scheduled by the operating
  system whatever the loop does (weak fairness of `RolledBack`).
- `EveryRowReaped` assumes in its own statement that time passes and that
  `session_cleanup_loop` comes round (`SweepFairness`).
- Listener threads are scheduled (weak), the engine's deadlines end a run (weak), the
  stop is bounded by its budget (weak). Nothing is assumed of peers.
- The reaper scans for ever (weak), and the core gives up on a reply once its loop
  lets it (strong, as above).
- The daemon's main thread runs (weak) and of its heartbeats, one every 30 s, not all are
  lost (strong). Nothing is assumed of the publisher or of the checks: a list that is
  never refreshed goes stale, is refused, and ends the loop by its failure count.
- `Drains` and `PolicyReaches`: the service manager starts a dead daemon again (weak), its
  main loop sends heartbeats (weak), its own logger looks at the spool every second (weak),
  and the core, though any post may fail, does not fail for ever (strong). Nothing is
  assumed of the runs' loggers, nor of the runs.
- Nothing is assumed of users anywhere.

### What the violated runs show

1. **Stage 2 can undo Stage 1** (`relay_raw`). The executor sends unmasked output to
   `/filter` and adopts a 200 answer. Stage 2 masks with the bindings of the moment. If the
   first attempt timed out at the core and tears down during the retry, its revocation
   removes them, and the retry's raw output is delivered. `UndisturbedIsMasked` bounds
   the damage: it takes an earlier attempt that had the secret, or a secret that
   changed.
2. **A 304 can hide a revocation** (`fleet_poll`). The loop waits for a check as long as its
   timeout and abandons it; the worker then stores the ETag of a list that names the
   credential, and nobody reads its verdict. Later checks get a 304, which counts as live.
   The heartbeat stops the daemon if its identity or the recorded serial is revoked
   (`RevokedDaemonStops`), but a daemon that missed the answer to its rotation holds a
   superseded serial, which the heartbeat does not look at.

### Observations made while modelling

None of these is a run; each is a behaviour of the code that a module contains, or that
was read beside it. Paths are below `src/packages/` unless they begin with `docs/`.

Execution and relay:

- The loser of two submissions does not get the 409 that the docstring of
  `_claim_execution_session` promises: its UPDATE waits for the winner's lock on the event
  loop the winner needs to commit, until `statement_timeout` cancels it
  (`ExecuteBlocks`, `StatementTimeout`). `EveryRequestAnswered` shows that nobody is stuck
  for ever, and `OneResult` still holds. The same freeze awaits the maintenance pass and a
  user removal that meet a claimed row. Where the holder has raised already and its rollback is
  with a worker thread, the statement goes on as soon as the thread is done.
- A timeout of the relay leaves a `command_executed` row of its own (outcome `relay_timeout`), so
  a session that is retried has several such rows; only one has an exit code (`OneResult`).
- The reaper's time-to-live is 300 s and a sandboxed command may take 3600 s, so "an aged
  dir belongs to a dead run" (`daemon.py`, reaper) does not hold (`Reap` in `ExecRelay`).
- The zero-row arm of `_mark_execution_session_completed` ("TTL cleanup race") cannot be
  taken: the claim's lock keeps the sweep off (`ClaimedRowKept`).
- A stop whose accept loop uses up the budget reports an overflow although nothing is in
  flight.

Sessions, users and roles:

- The docstring of `revoke_session` (`core/src/core/iam/session_manager.py:289-292`) says "logout
  must end every credential the session earned, and deleting the rows closes the window instead of
  shrinking it". `elevate_assert` takes the session from the identity that the middleware
  established before the dependencies were resolved, and `elevation_tokens.session_id` references
  no row: an assertion let through before a logout and handled after it inserts a token of the
  session that is gone. Nothing deletes it before it expires, and `secrets_get`, which compares the
  user only, takes it from another session of that user. `OneDisclosurePerTouch` bounds it to one
  value and says nothing of the stale identity.
- A recovery code makes an administrator who is pending, without key or token, and so cannot
  sign in until another administrator, or the machine plane, issues a token
  (`docs/cli-reference.md:1160` reads otherwise).
- When all remaining members of the admin role are pending, unauthenticated
  initialisation is open again.
- Renaming the admin role, changing its tier, or re-enrolling the last administrator
  leaves no usable one: the guards of `role_manager.py` cover removal and status only.
  `AdminKept` says exactly what they do cover.
- Completing an enrollment reactivates a disabled account; sessions survive a
  re-enrollment.
- `RateLimiter.check` (`core/src/core/engine/rate_limiter.py:165`) forgets a record when the
  300 s window is over, before it looks at the lockout its class docstring puts at 15
  minutes.

Secret store:

- The passphrase is configuration of each process, and on a database without secrets
  `verify_kek_sentinel` compares it with nothing (`FRESH_EMPTY`,
  `core/src/core/engine/backend.py:232-234`): two processes started with different passphrases
  both serve. The second to store finds a sentinel of another key, returns without opening it
  (`ensure_kek_sentinel`, lines 192-201: "the winner already stored an equivalent envelope"), and
  rows come to be wrapped under different keys. `crossed` marks these behaviours, and
  `AllReadable` shows that they are the only ones in which a served secret does not open.
- `admin_key_version_rotate` (`server/src/server/routes/admin.py:794-795`) says "a lost concurrency
  race surfaces as 409, never a second active version". The second half holds (`TypeOK`). A
  rotation of another process that commits between the read of the active version and the UPDATE
  is not noticed, though: the UPDATE, a later statement under READ COMMITTED, retires the
  winner's version, the index has nothing to object to, and the loser commits with a job whose
  old version is not the one it replaced.
- `_rollback_key_rotation` (lines 883-884) says "Only the MOST RECENT job can be rolled back:
  flipping under a newer rotation would silently undo it". The latest job is read without a lock;
  a rotation that commits before the UPDATE is retired by it, the older version is activated,
  and the newer job stays completed.
- A rotation job that is not the latest cannot be rolled back, also after the later one
  has been, although the refusal says "roll that one back first".
- A salt that is lost while a sentinel but no secret is stored blocks every start: it fails
  closed.
- `admin_key_version_revoke` compares a secret's version with the version's id, while
  clients store the label that `get_active_key_version` announces: a version in use by label
  can be revoked. Nothing becomes unreadable (`AllReadable`), since versions are labels.

Certificates:

- `core_relay_certs.py` adds its audit row after the commit, and nothing commits again; the
  model logs no event there.
- `venya admin generate-admin-cert` writes no plane marker, so the middleware refuses what it
  makes (`PlaneAdmits`), although `docs/beta-known-limitations.md` and `docs/BACKUPS.md`
  name it.
- After a lost key, `initialize` writes a new key and then a new certificate; cut between the
  two it leaves a pair that does not match and that `has_ca` accepts. `restore-ca-key` does
  not compare the key with the certificate either.
- Splits that are cut short spread the share files over several polynomials. With `m` of
  them after the last completed split, a rebuild is certain only while
  `(m + 1) * (threshold - 1) < shares`: two in a row over a directory of three shares with
  threshold two may leave three files of three splits, and no key. `SharesRecover` states the
  bound.
- Two renewals at the same time may leave the key of one and the certificate of the other
  on disk. `AdminCerts` runs one command at a time.
- `AdminCAManager.purge_expired_revocations` has no caller.

Executor:

- A microVM exists before `register_live_sandbox` claims it. A reap pass of
  another run that lists it in that window removes it, then or later (`Create`, `Claim`,
  `TeardownFails`, `Reap`), and the run fails. `SecretsAreClaimed` holds all the same: secrets
  are copied after the claim.
- A create or policy call that times out is a result, so `command_executed` is recorded for
  a command that was not started. `OnRecord` therefore speaks of commands that were.
- A line that was cut short joins the next one and makes the core refuse every batch it is
  in, until drop-oldest discards it; `Drains` excepts that case (`Broken`). A single line above
  the core's limit in bytes, which is answered 413 for ever, acts in the same way and is not
  modelled.
- `CommandValidator.validate` reads the policy twice: a policy that arrives in between lets
  a command pass that the old and the new one both refuse.
- A restarted daemon enforces `executor.toml` until its first heartbeat, and after a failed
  `sbx rm` the claim stays, so that the reaper leaves that microVM to the next start. Both are
  documented in the code.

Fleet: between `Exempt` and `Renew` the presented serial may be revoked or the identity
removed, and the rotation still commits (the terminal check refuses a revoked identity
only); a client that cannot be rebuilt after a rotation keeps the superseded certificate
until the next restart; an identity that is revoked, removed and enrolled again within the
life of a snapshot reads its own name in it and stops once more.

## 4. What is proved

For all finite or infinite sets of sessions, requests, users, keys, rows and certificates
(`RelaySlots` needs finitely many requests), every `Cap`, all durations and all bounds:

- `ExecutionSessionsProofs`: `TypeOK`, `OneResult`, `SingleFlight` (two submissions of a
  session are never relayed at once; proved, and not repeated in a run), `ClaimedRowKept`,
  `NoOrphanedLock`, and `Refinement` (the protocol implements `OneShotSession`).
  The inductive invariant ties each request that is past its claim, also one whose rollback is
  still to come, to the claim on its target (and back), each completed result to a request
  that answered ok, each recorded timeout to one that raised (`TimeoutHasRaised`), and a stopped
  loop to rows whose claims are open (`StoppedOnRows`); `OneResult` alone is not inductive,
  because nothing in it says that the request about to commit is the one that claimed, nor that
  it has not timed out before.
- `ExecRelayProofs`, the listener: `SlotsTypeOK`, `SlotsConserved`, `IdleIsFinal`. The sum over
  threads is a cardinality, so the proof goes through lemmas on a holder joining or leaving a
  finite set. The bound `free <= Cap` needs conservation, and finality of an idle stop needs
  both: holding `Cap` permits leaves nobody else with one.
- `ExecRelayProofs`, the composition: `PartsKeepTheirContracts` (every step of `ExecRelay` is a
  step or a stutter of `ExecutionSessions` and of `RelaySlots`, so that the theorems about them
  hold in it), `TypeOK`, `BindingsAreLive`, `UndisturbedIsMasked`. The last one needs the
  order of a command's stages (`InOrder`), that the secret only goes forward
  (`NewFollowsOld`), that a submission in flight owns its claim, so that the sweep leaves its
  row, and that until its output is filtered its binding is there or it is excused already
  (`StillBound`). The argument that the excuse is never taken back (`DisturbedStays`) is shared
  by all actions.
- `UserAccessProofs`: `TypeOK`, `SweptIsDead`, `OneDisclosurePerTouch`, `OneAnswerPerChallenge`. The sweep's idle leg
  never mentions `created_at`; the invariant that a live session's idle deadline is
  never before `created + Idle` connects it to the hard cap, for every choice of the
  durations.
- `ExecutorFleetProofs`: `TypeOK`, `OneLiveSerial`, `NoIdentityNoCredential`. The two
  properties of the record are inductive together and not apart: revoking an identity
  revokes one serial and relies on all others being revoked already. The invariant does
  not mention the requests in flight, which is the point: nothing an exemption was
  granted on has to be still true when the rotation commits.
- `VaultProofs`: `TypeOK`, `AllReadable`, and the action property `ReadYourWrite`. `OneKey`
  says that, as long as no process was let in beside another key, everything stored was wrapped
  by one key, which is the sentinel's if there is one and that of every serving process;
  `LiveKeys` that a process which runs has a passphrase, and past its derivation a salt;
  `Drafts` that a put under way is wrapped by the key of a process that serves. Without the last,
  a put whose process was replaced could land under another key. That one version is active
  (`OneActive`) follows from `IndexAllows` at each commit, whatever transactions are open;
  `Rollbacks` keeps their jobs in the table.
- `IdentityProofs`: `TypeOK`, `AuditorsApart`, `CacheAgrees`, and the action properties
  `RetiredKeysStayOut`, `BootstrapSparesOwners`, `AdminKept`. `CacheAgrees` needs that a token
  which was issued names a user who exists (`Held`). The invariant says nothing of the callers
  between check and handler: every guard that matters is evaluated again by the handler.
- `AdminCertsProofs`: `TypeOK`, `SharesRecover`, `Accountable`, and the action property
  `PresentsRenewed`. `SharesRecover` follows from the invariant that every share file
  of the last completed split carries its number or that of a later one, by the pigeonhole
  principle, which is proved from a least counterexample; thresholds may change from split to
  split. `PresentsRenewed` needs `Followed`: a transport whose recorded fingerprint is
  another certificate's was built after that one had been replaced for good, so that the
  comparison with the disk fails and it is built anew. An earlier form of the property,
  for splits of which a majority rebuilds, fails when two splits in a row are cut short; the
  attempt to prove it showed that.
- `SandboxRunsProofs`: `OnRecord`, `SecretsAreClaimed`. A batch that the core has accepted is in
  the core's table, so removing its lines from the file loses nothing, whatever the front of the file
  became meanwhile; the lemmas on `Rank` and `Nth` say that a removal keeps every other line.
  For the claims the invariant goes by the stage a run is in: the record is written before
  there is a microVM, the claim before there are secrets in it.

Assumptions, each checked by TLC on its instance: the placeholders (`None`, `Maint`, `NoToken`,
`Machine`, `Bootstrap`, `Slot`, `Torn`) are none of the values they stand beside; `Cap >= 1` and
finitely many requests at the listener; natural durations and bounds; `2 <= need <= of` for every
split in `Cuts`, which `shamir.split` enforces (`Splittable`); what `SandboxRuns` says of its loggers, events and policies.

Every safety property of the passing runs is thereby proved, and the type invariant of
`ExecRelay` is proved without a run of its own. Liveness (`EveryRequestAnswered`,
`EveryRowReaped`, `EveryJobEnds`, `PlaintextDies`, `EverySessionEnds`, `RevokedDaemonStops`,
`Drains`, `PolicyReaches`) is only model-checked: fairness and ENABLED are beyond the prover.
Theorems of a module cannot be cited through an INSTANCE of it, which is why
`ExecRelayProofs` derives the little it needs of the core itself.

## 5. What is not modelled, and the plan

The model has its parts, and their safety properties are proved. What could be added:

1. An abstract specification of the audit trail (a ledger that only grows, and drops that are
   counted) that `AuditSpool` implements, and of custody that `CAKeys` implements, as
   `OneShotSession` is for the execute route.
2. The action properties that the invariants of `ExecutorFleet` and `UserAccess` allow: a
   revoked serial stays revoked, a swept session never comes back.

Not modelled:

- Rate limiters: counters behind one lock or rows changed by one statement. Every call is
  atomic and its cases are reached by a unit test.
- Cryptography (signatures, envelopes, Shamir's arithmetic, WebAuthn's attestations and
  signature counter) and secure memory: what they promise is assumed where it is used.
- The byte-level output matcher and the patterns of the command validator: pure string
  functions.
- The sandbox program (external), the CLI's other commands, the browser UI, health and
  debug routes, and the MCP server, which translate calls and keep no state.
