# A TLA+ verification of the HTTP-to-MQTT gateway

The gateway is one asyncio process between three stores: a SQLite database
(users, devices, entities), a Mosquitto broker with the dynamic-security plugin
(roles and accounts of devices), and log files. Requests arrive over HTTP;
devices publish over MQTT. Nothing ties the stores together but the order in
which the code writes them, and every `await` lets other requests, the state
ingestor or a failure in between. That is what these modules model.

Paths below are relative to the repository; `gateway/` stands for `src/gateway/`.

## Inventory

| Component | State | Operations | Talks to | What makes it correct | Modelled in |
|---|---|---|---|---|---|
| Provisioning (`gateway/mqtt/provisioning.py`) | roles and accounts at the broker; one connection per command | `create_device_account`, `delete_device_account` | broker, over one response topic shared by all requests | a chain knows what it has done at the broker | `Provisioning` |
| Services (`gateway/services/device_service.py`, `user_service.py`) | database session and write lock | create, delete, rename devices; create, delete users; rotate keys | database, provisioning | rows and accounts come and go in a safe order; foreign keys; the device limit; a key that works is known | `DeviceRegistry`, `Commands`, `Accounts` |
| HTTP handlers (`gateway/api/v1/`) | the request's own variables | routes, each a chain of awaits and an audit entry | services, audit log | each request ends with an answer that is true; only the owner reads or writes | `DeviceRegistry`, `Commands`, `Accounts` |
| Authentication (`gateway/security/`) | two hashes per user | resolve a key, compare owner or admin, generate keys | database | a caller reaches its own data; replaced keys are dead | `Accounts`, `DeviceRegistry!Authorised` |
| Bootstrap (`scripts/bootstrap_admin.py`, `entrypoint.sh`) | the plaintext key until it is printed | find or create the administrator at each start | database | one administrator, there at every start | `Accounts` |
| Database (`gateway/db/`) | the three tables | sessions, cascades | all of the above | foreign keys | `DeviceRegistry`, `StateCache`, `Accounts` |
| Ingestor (`gateway/mqtt/ingestor.py`, `client.py`) | connection, subscriptions, delay, message in hand | reconnect loop, three message handlers | broker, database | the cache holds what devices said, in order; retained descriptions are not missed; the task comes back after an error | `Ingestor`, `StateCache` |
| Commands (`gateway/services/command_service.py`, `gateway/mqtt/publisher.py`) | rows as read | `send_command` | database, broker | a request stays within the caller's device | `Commands` |
| Audit log (`gateway/audit/writer.py`, `gateway/logging_setup.py`) | files by day and number, a stream with its buffer | `log_event`, `read_log_entries` | every handler, the disk | no line is lost, wherever the disk fails; readers find what they ask for | `AuditLog` |
| Loki shipper (`gateway/audit/loki_shipper.py`) | batch, lock, timer | `ship_entry`, timer threads | audit log, Loki | no entry twice, none left waiting | `LokiShipper` |
| Application (`gateway/main.py`) | - | start, stop, 500 handler | ingestor | - | `Crash`, `Restart` |
| Backup (`scripts/backup_sqlite.py`) | two files | snapshot, encrypt, upload, remove | database | both files go | not modelled (see below) |
| Rate limiter, schemas, health endpoint, migrations, deployment | see `PROJECT.json` | | | | not modelled |

What is hard in this code, and hardly reached by its tests (which run
`create_device_account` against a scripted connection): requests interleaved at
awaits, two stores written one after the other, replies that are not correlated,
a write lock held across network calls, crashes between two writes or between a
commit and the telling of a key, a disk that fails in the middle of a rotation, a
reconnecting subscriber, a timer cancelled too late. `PROJECT.json` lists each
hazard at its line together with the properties that cover it.

## Modules

    Provisioning <- DeviceRegistry <- RegistryInvariant <- MCDeviceRegistry
                          |       \            \<- DeviceRegistryProofs
                          |        \<- RegistryClaims
                      implements
                          v
                   DeviceLifecycle <-INSTANCE- StateCache <- Commands <- CommandsProofs
                                                 ^    \<- StateCacheProofs (used by both)
                                          implements + EXTENDS
                                                 |
                                              Ingestor <- CacheClaims
                                                     \<- IngestorProofs
    KeyLifecycle <-implements- Accounts <- MCAccounts
                                       \<- AccountsProofs
    EntryDelivery <-implements- LokiShipper <- LokiShipperProofs
    AuditLog <- MCAuditLog
            \<- AuditLogProofs <- AuditReadProofs

**Provisioning.** The broker's `roles` and `clients`, and for each request slot
its chain: `command` (which of the two commands it is at, or how it ended),
`link` (its connection) and `heard` (the first reply that reached it). The steps
are those of `_send_command`: `Connect`, `Publish` (the plugin executes and
answers), `ReadReply`, `TimeoutReply`, and `LinkFails` at any point, before or
after the broker has executed the command. `LogFails` is the `logger.info` after the
last command, which raises when the log does: the account has then been made or
deleted, and the handler aborts all the same. Only the first message on a
connection is ever read, so `heard` needs no queue. Two constants describe the
broker. `SharedReplies`: a reply reaches every connection subscribed to the
response topic, as a topic does. `MayReject`: the plugin may fail a command that
it could have carried out, or not answer. The broker's side is external: its
acceptance rules are those the code relies on.

**DeviceRegistry.** Tables `users`, `owner` and `entities`, the write lock
`writer`, and `pc` with the handler's variables for each request slot. There is
one action per stretch of code between awaits: `StartCreate`, `SelectUser`,
`CountDevices`, `Flush`, (Provisioning's chain), `Commit`, `Refresh` for a
create; `StartDelete`, `GetDevice`, `LoadDevice`, (chain), `Cascade`,
`CommitDelete`; `StartDeleteUser`, `GetUser`, `LoadUser`, `CascadeUser`,
`CascadeEntities`, `CommitDeleteUser`. `Abort` and `BusyTimeout` are the exceptions, `Crash` the end
of the process, `DiscoverEntity` what the ingestor does to the tables. `Reported` is
the end of a handler: the audit entry is written after the outcome is decided and
before the answer, and when the writing raises the answer is 500 and the outcome stays.
SQLite is modelled as the code uses it: a `SELECT` outside a write transaction
sees the latest commit; the first write takes the only write lock until commit
or rollback; a writer that waits gives up after the driver's five seconds; a
cascade deletes the rows the session loaded, and a foreign key refuses the
commit if there are more. Deleting a user loads the devices (`CascadeUser`) and then
the entities of each with a `SELECT` of its own; `CascadeEntities` is one step for
these, as the commit only asks whether an entity has arrived after the `SELECT` of
its device. `flush` can hold the lock for long because the broker
conversation lies between it and the commit; a delete's first write is in the
commit itself, so there the lock is taken and released in one step.

**DeviceLifecycle.** The promise for one device: fresh, pending, live, disabled,
orphan, gone. `DeviceRegistry!life` is the refinement mapping.

**StateCache** and **Ingestor.** `StateCache` is the promise of the ingestor: the
rows `cached` and `online`, changed one message at a time. `Ingestor` is the loop
and the handlers: each message is read in one step and committed in another, with
requests in between. The payloads of discovery are the kinds the handler tells
apart. Both use `DeviceLifecycle` for the registry underneath. In `pc`, `"backoff"`
is the `asyncio.sleep` of either except clause. `CallFails` is any call of the task to
database, broker or log that raises. The except clauses (`ingestor.py` 237, 245) log
before they sleep, through a handler that writes to a file (`logging_setup.py` 57), so
a disk that fails there raises out of the loop: `LogFails` ends the task
(`"log_error"`), and nothing but a restart of the process starts it again. A discovery
that says what the row says already (`Repeated`) may return without a write, and then
waits for no lock.

`retained` is what the broker keeps of the devices' descriptions; `Connect` puts it
into the inbox, in any order, ahead of what devices send later.

**Commands.** The requests about one device, on top of `StateCache`: show the device,
list or show its entities, rename it, send a command. One request slot, one action
per await: the device is read and its owner compared, then rows are read again
(`GetEntity`, `ListEntities`, `LoadDevice`), written by id (`CommitName`) or a command is
published. `renamed` remembers the devices whose name an update has replaced.

**Accounts.** The rows of `users` as far as keys are concerned: `role`, the two columns
`lookup` and `hash`; what has become of each key (`minted`, `spent`, `known`, `lost`);
where the process is (`phase`: bootstrap script, or serving); and request slots for
`create_user`, `delete_user` and both routes of `rotate_user_key`, from one await to the
next. A person can send a request as a user whose key has been told. `Tell` is the
answer that carries a key, `CutOff` a failure between the commit and the answer (row
gone, audit entry refused, client gone), `Crash` the end of the process anywhere, the
script included. A deleted user does not return; a key stands for its hashes.

**KeyLifecycle.** The promise about keys: issued, replaced or withdrawn, and then dead,
except that `ADMIN_API_KEY` may return with a new administrator.

**AuditLog.** Files as sequences of bytes, each of a line; the handler with its counters,
its stream and the stream's buffer; restarts, midnights, and the four places where
the disk can fail (`WriteFails`, `OpenFails`, `MakeFails`, `CloseFails`). A failed write
leaves a prefix on disk and the rest in the buffer; a failed open leaves a closed
stream, on which `WriteToClosed` raises; a close may also fail with nothing buffered.
The reader is a function of the files: it strips each line before parsing it, so an
entry is read if its text is on a line of its own (`ReadsAt`), the newline included
(`StandsAt`) or, at the end of a file, missing (`EndsWithText`). The last case is an
entry whose write failed at its newline: it is readable until the next line is written
behind it on the same line. `Permanent` excepts such entries, whose `log_event` has raised, and no
others. `Met` are the places
where a reader finds an entry that concerns it, `After` the order in which it comes to
them (files newest first, each from its start), and `ReadLogEntries` those with fewer
than `limit` after them, which is `entries[-limit:]`. The API admits no limit below 1.

**LokiShipper.** Batch, `_flush_timer`, timer threads (sleeping, fired, pushing)
and the push of the event loop, which keeps the lock.

**EntryDelivery.** The promise about an audit entry, without timers, threads or lock:
accepted once, held in memory, then delivered, dropped with the push that failed or lost
with the process, and never back. `LokiShipper!InMemory` is the refinement mapping: batch,
the push of the event loop and those of the timer threads are one set there.

**RegistryClaims**, **CacheClaims** and `AuditLog!LatestReadable` state what the
documentation says and the code does not do.

### Abstractions

- A device's `id`, `topic_prefix` and broker username are one identity: all are
  random, made by one create and never used again. An entity is a device and an
  object id, which the table's uniqueness constraint makes a key.
- In `DeviceRegistry` all users exist at the start; users are deleted but not created
  (`Accounts` creates them), and `is_admin` never changes (no code changes it).
- A request that has been authenticated is not stopped by a rotation or deletion: the
  caller is resolved once. `Accounts` and `DeviceRegistry` both let it run on.
- Generated keys are fresh: 256 random bits.
- The unique column `mqtt_username`, `""` until the account is made, never
  collides because two creates are never both flushed: the write lock keeps them
  apart, and a session that fails rolls back.
- In `Ingestor` and `Commands` the steps of `DeviceLifecycle` stand for the
  registry. `ImplementsLifecycle` is what justifies that. Its condition is a
  broker for which `Trustworthy` holds (see Proofs).
- A published device state is a number that grows; an old value arriving late is
  then visible. Of retained messages, the descriptions are modelled; a
  retained state is the last one published, and would reach the cache like one that
  the device sends at the moment of the connection.
- An audit event is about one user. A line is a text of at least one byte and a
  newline. A character is one byte: a text with a longer one, torn within it, makes
  `path.open("r", encoding="utf-8")` raise for every read of the log
  (`writer.py` 72), a hazard that is listed and not modelled. "On disk" means handed to
  the operating system; nothing calls `fsync`, and `Restart` is that of the process, not
  of the machine. File numbers stay below 10000, so that file
  names sort by number. One process writes the log (the backup container does
  not mount the log volume, `deploy/prod/docker-compose.yml` 61).

## Runs

All runs finish within three minutes with two workers.

| Run | Question | Bounds |
|---|---|---|
| `registry_shared` | types; what a 204 means; how far the device limit can be passed; refinement of `DeviceLifecycle` | 2 requests, 3 devices, an admin who deletes users (`AdminsOnlyDelete`) and a user, 1 object, limit 1, shared replies; 256,901 states |
| `registry_targeted` | foreign keys; order of row and account; no request is taken back, and every one is answered | 2 requests, 1 device, an admin and a user, replies not shared, a broker that may refuse or ignore; 39,027 states |
| `accounts` | types; keys that work are known; one administrator, at every start; refinement of `KeyLifecycle` | 2 requests, 3 users, 4 keys and the configured one; 168,040 states |
| `ingestor` | no rows of deleted devices; no retained description missed; the cache never goes back; recovery; refinement of `StateCache` | 1 device, 1 object, values 0..2, 2 messages waiting, delays to 2, four payload kinds; 548,030 states |
| `commands` | publications, answers and renames stay within the caller's device | 2 users, 2 devices, 1 object; 581,556 states |
| `audit_log` | nothing lost, few lines unreadable, what was read stays readable, users find their events, file sizes | 4 events with lines of 2 or 3 bytes, 2 users, 2 days, 2 restarts, 2 disk failures, files of 3 bytes; 405,479 states |
| `loki` | at most once, never stranded, no entry stays; refinement of `EntryDelivery` | 4 entries, batch of 2, 3 timer threads; 10,708 states |
| `reply_crosstalk`, `device_limit`, `delete_retry`, `live_cache`, `audit_full` | each finds the disagreement of a finding (below) | |

Why the bounds are enough. Two request slots give every pair of handlers at
every pair of steps, slots are reused without end, and the properties relate at
most two requests; `registry_shared` has one device more than the limit plus the
overshoot. The administrator there is limited by a state constraint to what only he can
do, deleting users, which brings the deletion of a user beside creates and deletes of
devices; without the constraint, or with a third user, the run takes more than five
minutes. The administrator as an owner of devices is in `registry_targeted`, and the
theorems have no such bound. Two devices let a stale reply, an unknown entity or another
owner's device play a part. `accounts` has a user more than slots, so that one can be
created while another is deleted and a third administers, and four keys, enough for
two rotations after a creation. In `ingestor` a second device would add only
independent rows, and one thing more: with a single device no create can hold the
write lock while a message of a registered device is stored, so that this case of
`CommitRaises` is covered by the proofs only. Values 0..2 are what an older value
overtaking a newer one takes, and two waiting messages what reordering takes. Of the
payload kinds, `plain` is left out of the run: it differs from `foreign` only in how
it comes to have no command topic. In `audit_log` a file overflows with its first or
second line, so four events fill several files, two restarts revisit them, and a
second failure can meet what the first has left. In `loki` four entries make two
batches and three threads allow a cancelled timer that runs late beside its successor.

Symmetry is used in `registry_shared`, `accounts` and `audit_log`, which check no liveness. Deadlock
is checked except in `commands` (devices are never registered again and users
never return, so a finite instance ends) and the two `AuditLog` runs (their
bounds on events, days and restarts end them).

### Fairness

- `DeviceRegistry!FairSpec`: weak fairness of each request's own step. The event
  loop runs ready tasks, and the reply timeout, the library's connection timeout
  and SQLite's busy timeout make every waiting one ready. Clients, the broker and
  faults are not fair.
- `Ingestor!FairSpec`: weak fairness of the task. Sleeps end, and so does every
  wait for the lock. `Recovers` assumes in addition that connection failures, calls that raise and
  restarts end (`<>[][~Fault]_vars`): nothing can listen to a broker
  that stays away. It says that the task then listens again and again, unless the log
  failed in an except clause (`"log_error"`), which is the only thing that ends it.
  Messages that raise in the handler's own code (`HandlerRaises`) are not counted as
  faults and may go on forever, retained ones at every connection.
- `LokiShipper!Fairness`: timers fire, threads run, a push ends by its timeout.
- `RetrySpec` and `ReportingSpec` add that the user repeats the delete, and that
  devices keep reporting. They only serve the two violated claims, and make them
  harder to violate.

### Findings

1. `reply_crosstalk` (`provisioning.py` 47): a create takes the success of an
   overlapping delete for its own and commits a device without an account. (Of two
   creates it cannot be: they are never both flushed.)
2. `device_limit` (`device_service.py` 39): concurrent creates pass
   `MAX_DEVICES_PER_USER`. `OvershootBounded` says by how much.
3. `delete_retry` (`provisioning.py` 128): a delete that stops after the account
   was revoked is not completed by repeating it; only deleting the user removes the row.
4. `live_cache` (`ingestor.py` 213): the states of a device registered while the
   connection is up are not received until it is next lost.
5. `audit_full` (`writer.py` 71): the full log, read with a limit, can leave out
   the newest events.

Also met, without a run: an admin gets 404 for another user's device although
`README.md` says "Owner/Admin" of showing (199), renaming (200) and deleting (201) a
device, of its entities (202, 203) and of a command (204): the routes compare the owner
with `current_user` only (`user.py` 212 for the delete), and `DeviceRegistry!GetDevice`
and `Commands` model that as it is; a log that fails in an except clause ends the ingestor's task while
the gateway goes on serving (`ingestor.py` 237, 245), which is `Ingestor!LogFails`; deleting a user leaves the
accounts of the user's devices at the broker (`user_service.py` 50), which is the
step from live to orphan in `DeviceLifecycle!RemoveUser`.

## Proofs

Checked by TLAPS for all values of the constants that satisfy the named
assumptions (finite sets of requests and devices, null values outside the sets
they extend, a positive batch size, lines, files and limits of at least one).

**DeviceRegistryProofs.** `TypeOK` with `Coherent` is inductive by itself: it says
which parts of a slot belong together, and that the write lock is held exactly by
the create between its flush and its commit. `ForeignKeys` is not: that no device
appears for a user who is being deleted needs `Ownership`, which says that the
device of an uncommitted create belongs to no other request, and that everything
a delete has loaded was committed before. Both hold whatever the broker does, and
so does `OvershootBounded`, whose proof counts: a request moves from the admitted
to the counted, and only one that found fewer than the limit is admitted.

What is said of accounts needs `Honest`: a chain that has read `ok` has been
executed, step by step (`Before`, `After`). That needs `Trustworthy`,
`~(SharedReplies /\ MayReject)`: either each request hears only its own replies, or
every reply says `ok` whenever the broker could carry out the command, so that
another's reply says nothing false. Under that condition `CommitOnlyProvisioned`,
`RevokedBeforeRemoved`, `DeletedMeansGone` and the refinement of `DeviceLifecycle`
are theorems; without it `reply_crosstalk` is the counterexample. The runs
`registry_shared` and `registry_targeted` are the two sides of the condition.
The proof of the refinement has one step per action: it changes `life` at one
device, at those of one user, or nowhere.

`ElevenSteps` is the part of `RequestsTerminate` that is not about fairness.
`StepsLeft` (in `RegistryInvariant`) counts what a request still has before it: the
handler's statements, and for each command of a chain connecting, publishing and
reading. It is at most eleven, zero exactly for an answered request, no step of
another request, the broker, a fault, the ingestor or a crash raises it, and each own
step lowers it (`NoWayBack`, checked by `registry_targeted` as well). What is left to
TLC is that a request that is not answered can always take a step.

**LokiShipperProofs.** `TypeOK`, `OneHome`, `NeverStranded` and `BatchBelowLimit`,
for any batch size and number of timers, and that `LokiShipper` implements
`EntryDelivery`. The reasons: a timer named by `_flush_timer` has not run, as each run
clears the name; entries move, and are never copied. The refinement needs both
`OneHome` (what a thread gives away is nowhere else, so it leaves the memory) and
`PushesBounded` (no push carries more than a full batch). `ThreeSteps` is the part of
`EntriesLeave` that is not about fairness: an entry waits for at most three steps (the
named timer fires, takes the batch, ends its push), each brings it nearer, and no other
step throws it back.

**AccountsProofs.** All five properties of the run. The invariant is `Apart`: a key that
a request or the script has generated is in no row, in no other request and not among
the spent ones until it is committed; and the configured key is in the row of an
administrator only. With `BootAdmin` (what the script has found still holds: requests
are not served meanwhile, and each start is a new process) it gives `OneAdmin`,
`AdminAfterStart` and the refinement of `KeyLifecycle`. `KeyKnown` is inductive with
these.

**StateCacheProofs** holds the lemmas about registry and cache steps for the next two.

**IngestorProofs.** All safety properties of the run, and that `Ingestor` implements
`StateCache`. The handlers use rows that they read before an await; `Fresh` says why
they may: a device once registered still has its rows or never has any again.
`CacheMovesForward` needs `Ordered`, the order of all that is on its way: row, message
in hand, inbox, device. `RetainedKnown` needs `Described`: each retained description of a
registered device is in the rows or still comes on the present connection, because an
error ends the connection and with it the claim.

**CommandsProofs.** `TypeOK`, `OwnDevicesOnly`, `OnlyOwnersRename`. The invariant `Held`
follows what the request has read: a device that was once registered can lose its
owner but never get another, so the check made at the first read is still true at the
publication and at the rename. The registry's steps enter by `DeviceLifecycle` alone.

**AuditLogProofs.** `TypeOK`, `NothingLost` and `SizeBounded`, for lines and files of any
length and any number of failures. Every step only extends the files (`Extends`), so a
line that stands keeps standing; the step that logs it appends buffer and line
together. The bound on sizes needs `SizeInv`: how far a file can be ahead of what the
handler counts, and how many restarts and failures are left to explain it.

**AuditReadProofs.** What readers find: `OwnLogComplete`, `FewUnreadable` and `Permanent`,
for any limit, any users and any number of failures. Both invariants are about what a
file will hold if nothing more fails: `Pending(f)`, its bytes and those of the buffer
that are meant for it. Every step either drops the end of pending files (a failed close,
a process that is killed) or adds one line of a new event to one of
them (`PendingStep`).

- `Once`: no byte of a line is at two places. Hence each entry is met at one place, no
  more places are met than a user has entries, and a short log fits the limit as a whole.
- `FewInv`: the unreadable lines that were reported as written and the *weak* files are
  together at most as many as the failures. A file is weak while it ends in a torn line,
  or has bytes of one in the buffer. A failure makes one file weak at most; the line that
  is written next onto a weak file may be unreadable, but then the file ends with a
  newline again and is weak no longer. That a torn end can cost only one line is what
  `FewUnreadable` alone does not say, and why it is not inductive.
- `Permanent` is an action property. Files are extended, never rewritten, and where a
  line starts depends on what precedes it, so a whole line stays met. What is left is
  an entry that is met without its newline; that it was not reported as written follows
  from `NothingLost` and `Once`: a reported line is somewhere whole, and has no bytes
  anywhere else.

Only model-checked: the three liveness properties, `RequestsTerminate` and `EntriesLeave`
(but for `ElevenSteps` and `ThreeSteps`) and `Recovers`, because reasoning under fairness and
`ENABLED` are outside the prover's reach; and the five violations, which are
counterexamples. Every invariant and action property, and every refinement, that a
passing run checks is a theorem.

## Not modelled

- *Backup script*: one process that reads the database in one transaction and goes
  through its steps in a straight line, with no other actor that it could meet. Its
  audit entry behaves as `AuditLog` and `LokiShipper` say: what is waiting for the
  timer when the script ends is not sent.
- *Rate limiter, configuration, schemas, health endpoint, OpenAPI*: declarations or
  library behaviour; a refused request changes nothing.
- *Migrations, deployment*: one schema, equal to `db/models.py`; containers.
- *Lists*: the routes that list users or devices are one `SELECT` and its result.
- *Retained states and availability*, and messages of devices whose account was deleted
  while their connection lives on: the broker's business.

Worth adding where it can still be checked in time: two devices in `ingestor`, so
that creates hold the lock there; two processes that write the audit log.
