# DNSMAQ-MGR in TLA+

DNSMAQ-MGR is a web console for one dnsmasq: a threaded Flask server keeps the
configuration in JSON stores, renders it into `conf-dir` files, has
`dnsmasq --test` check the result, and reloads or restarts the daemon. Nodes
push parts of their configuration to each other. This directory models that
machinery, checks it with TLC and proves its safety properties with TLAPS.

Paths below are relative to `src/dnsmaqmgr/`.

## 1. Inventory

| part | state | operations | works with |
|---|---|---|---|
| stores (`core/store.py`, `core/config.py`) | one JSON file per section (`settings`, `dns`, `dhcp`, `netboot`, `blocklists`, `encdns`, ...), each with a `serial`; `STORE_LOCK` | load, save (temp file and rename), bump the serial | everything |
| apply pipeline (`dnsmasq.py`) | the rendered files in the conf-dir; what dnsmasq has loaded | `apply_change`, preview, force re-render, restart, flush, boot-time render | stores, supervisor, history, push |
| supervision (`dnsmasq.py`) | `_proc`, `_stopping`, one watcher thread per process | start, stop, restart, reload, respawn | pipeline, encrypted DNS |
| boot, shutdown (`app.py`) | none | render what is missing, start child, proxy, listener, ticker | pipeline, supervisor |
| change history (`changelog.py`) | bounded list of entries with a snapshot of the stores | record (inside the lock), roll back (a new change) | pipeline |
| section routes (`dns.py`, `dhcp.py`, `netboot.py`, `settings.py`) | none of their own | add, update, delete, switch | pipeline, mirror locks |
| peer push (`peers.py`) | `peers` store, `_push_lock`, last status | push the sections of a change, Sync now | stores (one payload under the lock), the peer's receiver, UniFi |
| mirror receiver (`mirror.py`) | `mirror_sources` in `settings`: serials seen and sections locked, per source | receive, detach, rotate the token | pipeline |
| backup (`backup.py`) | files under `backups/`, `backups` store | export, stage and restore, nightly snapshot, prune | pipeline, accounts, peers, alerts, blocklists |
| blocklists (`blocklists.py`) | `blocklists` store, a domains file per list | add, update, delete, refresh (ticker or route) | pipeline, renderer (reads the domains files) |
| encrypted DNS (`encdns.py`) | `encdns` store, proxy TOML, a supervised `dnscrypt-proxy` | save, `sync_proxy`, health | pipeline, supervisor |
| accounts (`core/auth.py`) | users and tokens in one config file, no lock | log in, add, role, password, delete, token create, revoke, last-used | backup |
| single sign-on (`core/sso.py`, `core/ed25519.py`) | `_seen`, in memory | verify an assertion, remember it as spent | accounts |
| alerts (`alerts.py`) | `alerts_state`: known devices, cooldowns, hysteresis | ticker evaluation, lease event, delivery | stores, lease events |
| lease events (`events.py`) | recent events, in memory | datagram, corroborate with the leases file | alerts |
| UniFi sync (`unifi.py`) | the gateway's records | list, plan, create, update, delete | peer push |
| statistics (`stats.py`, `core/history.py`) | counter cursor, SQLite samples and daily rollup | sample, roll up, prune | alerts, backup (shared ticker) |
| importer, recon, vendor table, lookup, query log, probe, metrics, TLS, cli, UI | small or none | parse, scan, show | pipeline |

How the parts meet. A route validates its input without a lock and calls
`apply_change(mutate, sections)`. Under `STORE_LOCK` that function takes a
snapshot of the stores, lets `mutate()` save some, renders, tests, and either
saves every store back or writes the files one by one, prunes conf files of
removed lists, bumps serials and records the change. Then, out of the lock, it
reloads or restarts the daemon and starts a thread that pushes the changed
sections. The receiver of a push runs the same `apply_change` on its own node.

What is hard, and what makes each part correct:

- **Pipeline.** Threads interleave at the lock; the service action is outside
  it; the files are replaced one by one; the app or a write can die half-way.
  Correct: a rejected change leaves nothing behind, whoever takes the lock finds
  files that are the accepted rendering of the stores, and once all is quiet the
  daemon runs those files.
- **Supervision.** `restart` and `stop` wait without the lock; watchers respawn.
  Correct: one child, never abandoned, and a restart loads what was written
  before it.
- **Mirroring.** Requests are late, lost, duplicated by a retry or overtaken; the
  stale check is outside the lock. Correct: recorded serial and content belong
  together, nothing fresh is refused, what was acknowledged stays.
- **History.** The noise filter must not hide a change the next rollback needs.
- **Encrypted DNS.** Reads the store without its lock, also in the middle of an apply,
  and acts later; the proxy is restarted before the change it belongs to is accepted.
  Correct: when quiet, proxy and store agree, but for a sync misled so.
- **Accounts.** Read, modify, write of one file without a lock. Correct: the file
  is whole whoever reads it unless saves met in its one temporary file, an
  administrator remains unless somebody edited a file broken so, and a revoked token
  comes back only through a save that had loaded the file before.
- **Blocklists.** A file outside the snapshot and the lock. Correct: dnsmasq reads
  lists that were accepted, and no file of a deleted list stays.
- **Reservations.** dnsmasq does not start on one address twice and `--test` does
  not see it; edits, pushes, imports, rollbacks and restores each check something
  else, and the edits' check is outside the lock. Correct: no clash but through a
  way in that does not check, and what the node wrote itself it can restore.
- **Alerts.** Two threads and every restart write one state file, each with what it
  read some time ago. Correct: no device is known and untold, nobody is told twice
  in a cool-down, a restart by the app is no alarm, a fault that stays is told.
- **Statistics.** Statements committed one by one, ticks that die between them or
  overlap, days without the app. Correct: no query counted twice, no sample gone
  before it is folded, rows made of whole days.
- **UniFi.** A plan carried out request by request on a gateway others edit, with
  answers lost, from a store read without its lock. Correct: success means that the
  gateway answers for what was sent, and the status shown is not out of date.
- **Backup, sign-on.** Several writes of which one fails; a memory lost by a restart.

`PROJECT.json` lists these hazards one by one, at their lines.

## 2. Plan

Written, in this order:

1. `ConfigRegister`: the abstract promise of the pipeline.
2. `ApplyChange` (+ `MCApplyChange`, `ApplyChangeProofs`): the pipeline, the daemon,
   crashes, and the refinement of `ConfigRegister`. The modules below take one
   `apply_change` as one step, which is what the refinement justifies.
3. `Mirror` (+ `MCMirror`, `MirrorProofs`): pushes between two nodes.
4. `Supervisor` (+ `MCSupervisor`, `SupervisorProofs`): the child controller that `ApplyChange` takes
   as one step (`StartDaemon`, `Hup`).
5. `AtomicFile` (proofs in `AccountsProofs`): how one file is replaced, which `ApplyChange`
   takes as one step per file.
6. `Accounts` (+ `MCAccounts`, `AccountsProofs`): the account routes, token use,
   restore, start and `set-password` on one file saved as `AtomicFile` says.
7. `ProxySync` (+ `MCProxySync`; proofs in `SupervisorProofs`): the encrypted upstream,
   which extends `Supervisor` and drives its controller.
8. `Blocklists` (+ `MCBlocklists`; proofs in `TickerProofs`): subscriptions and the files
   outside the lock.
9. `StaticLeases` (+ `MCStaticLeases`, `StaticLeasesProofs`): the reservations and
   all ways they come by.
10. `Alerts` (+ `MCAlerts`, `AlertsProofs`): the ticker, the lease listener, restarts.
11. `History` (+ `MCHistory`; proofs in `TickerProofs`): counters, samples, the daily fold.
12. `UniFi` (+ `MCUniFi`, `UniFiProofs`): the sync of host records with a gateway.

Where two modules are proved about in one, the names of one have a prefix (`File...`,
`Sync...`, `Lists...`).

Left, in this order: the schedule of backups and the pruning of old files; the replay
cache of sign-on over clocks and restarts; the command line's `render` as a second
process beside `ApplyChange`; the importer's merges of the other collections; editing
of peer records while they are pushed to.

## 3. The modules

### ApplyChange

| variable | code |
|---|---|
| `content`, `serial` | the JSON stores; one save replaces one file |
| `conf` | the rendered files; `Absent` is no file |
| `lock` | the holder of `STORE_LOCK` |
| `pc`, `req`, `snap`, `saves`, `writes`, `act` | where a thread is in `apply_change`; its `mutate` and `sections`; `snapshot`; stores and files still to write; `action` |
| `logged` | the stores in the newest changelog entry |
| `up`, `running` | the daemon and the files it has loaded |
| `alive` | the app runs |
| `faults`, `torn`, `missed`, `seen` | history variables: faults so far; an apply died half-way and none has completed since; an aborted apply left files that dnsmasq has not been started on; what payloads carried |

| action | code |
|---|---|
| `Acquire`, `SaveStore` | `with STORE_LOCK`, snapshot, `mutate()` (`dnsmasq.py` 636-639) |
| `ValidateOk`, `ValidateRejected`, `RestoreStore`, `ReturnRejected` | 640-645 |
| `WriteFile`, `Prune` | `write_render` 420-424, `prune_blocklist_confs` 427-443, the forced restart 648-650 |
| `BumpSerial`, `Record` | 651-658, `changelog.record` |
| `Service`, `StartDaemon`, `Hup` | 660-671 and the controllers |
| `Acquire` of `ForceApply`, `ServiceRoute` | the toolbar's apply, restart and flush routes, 731-763 |
| `DaemonDies`, `Respawn` | the daemon; the watcher |
| `BuildPayload` | `peers.build_payload` under the lock |
| `Abort` | an exception of a write: the lock is released, nothing is put back |
| `Crash`, `Boot` | the process killed; `app.py` |

`Render`, `Accepts` and `Starts` are parameters. `Accepts` (what `--test` says) and
`Starts` (what the daemon says) differ because `--test` does not read the
`dhcp-hosts` file; the instance has a duplicate lease in it that only a start
rejects. A disabled blocklist renders to no file, which is why `diff_render`
cannot see its removal. `Requests` holds what routes save and which sections they
name; `RequestAssumption` says that a route which writes a mirrored store names
its section. That is so for every route but the restore of a backup, which
replaces serials as well; it is in `Mirror`.

Not in it: preview (changes nothing), contents of the files, the command line's
`render` (another process, which the lock does not exclude).

### ConfigRegister

Configuration and serials as one register: `Commit` replaces any stores at once by
something legal and moves the serial of every mirrored store it changes.
`ApplyChange` maps to it with the snapshot of the thread inside the lock: until
the lock is released, nothing has happened.

### Mirror

A primary with its stores' serials and push threads, a standby with its record of
the source, and one request per push thread between them. `Edit` is a route's
`apply_change` with its push thread; `Toggle` is the DNS or DHCP switch, which
moves the `settings` serial (one of the two the `dns` section is labelled with,
`peers.py` 61); `RestoreBackup` sets every store to a saved serial and bumps
them. `PushAll` waits for `_push_lock`, `SyncNow` does not. `Receive` is
`mirror_receive` up to `apply_change`: the stale check on settings read at line
133. `ApplyPush` is `mutate()` and its apply. `Timeout` is the 10 s limit of
the sender; the request stays where it was. `DropPush` is any request that does
not arrive, is invalid or is rejected by dnsmasq. `StartWrite` and `FinishWrite` are a
local route: lock test, then apply. `Detach` and `SetAccept` are the
receiver's settings. Content is the number of edits, so that older and newer
mean something. `owed`, `sent`, `lowered`, `crossed` are history variables.

Not in it: sources that send one scalar serial (`mirror.py` 170), the
validation of records, more than one source.

### Supervisor

`proc` and `stopping` are the controller's fields; per process `alive`, `loaded`
and its watcher; per thread the call it is in. The controller's own lock is
held within a step and never between two. `Interrupt` begins `restart` or `stop`,
`Terminate` and `Terminated` are terminate, kill and wait, `Start` is the part of
`start` under the lock, `Settle` its sleep. `Notice` and `Respawn` are the two
halves of `_watch` around its pause. `Dies` is the child's own exit. A process
loads what has been written when it is spawned.

Not in it: an exception of `Popen`.

### AtomicFile

`published` is the file, `temp` the temporary file of each process, whose name is
the file's with the process id (`core/config.py` 105); `step`, `wants` and `opened`
are where a writer is in `write_json_atomic`, what it is to write, and which file
its descriptor is on now. `Open` truncates or creates the temporary file, `Write`
is the dump, sync and close, `Rename` the `chmod` and `replace`, `Finish` the
`finally` clause, `Die` the death of a process. A write may fail half-way. A
descriptor follows its file through a rename, so a thread may be writing to the
file another has published; it writes from the start, so the end of a longer text
may stay behind its own. Nothing keeps the threads of a process from saving one file
at once: for the stores `STORE_LOCK` does, for `auth.json` nothing. `crowded` and
`shared` are history: the saves under way that have met another of their process, and
whether the save that published last was one. The pieces of two saves (`Torn`) are
taken not to parse.

Not in it: the order in which the disk sees a rename, so a crash here is the end
of a process, not of the machine; the modes.

### Accounts

The file holds users with roles, who must change a given password, and tokens.
A web thread's request is two or more steps: `Login` or `Present` is
`require_login` (its loads are merged into one step, but for the second load of
`_touch_token`, which is `Touch`); then a handler loads, checks and changes in
one step (`CreateUser`, `SetRole`, `SetPassword`, `DeleteUser`, `ChangePassword`,
`CreateToken`, `DeleteToken`, `Restore`) and has the whole file in `saving`; then
the steps of `AtomicFile` (`Save`, `Publish`); `Saved` or `Failed` is the answer. `Leave` is a request that
changes nothing. `Start` is `ensure_bootstrap` in the app, `Command` is
`set-password`, which bootstraps first and is a process of its own.

`phase` is where a writer is (the role it was found to have while its handler has
not begun), `caller` is `g.identity_name`, `dropping` the token a request revokes.
`revoked` and `overtaken` are history: tokens whose revocation has been saved
(`Publish`), and those of them that were in another writer's hands at that moment;
`misread` says that an edit was made of a file that saves which met had broken, in
which `load_config` finds no accounts.
A new token's identifier is random, so it is none that is still about (`New`). A
restore of accounts is meant to bring its tokens back, so they leave `revoked`.

Not in it: passwords and hashes, the session secret, the login throttle, sign-on.
Any user may hold a session and any token may be presented.

### ProxySync

`store` is the `encdns` store, `kept` the store in force (the snapshot of an apply under
way), `texts` the proxy's configuration file as of each time it was written; the child is
`Supervisor`, which this module extends: `SyncNext` takes the controller's steps by name
and adds its own variables to them. Per thread `at` says where it is. `Save` is
`encdns_save` (`encdns.py` 350-388), which writes and brings the proxy up (`WriteNew`,
`BringUp`) before it applies; `OtherApply` is a rollback or a restore with an `encdns`
store of its own, or an apply of another section. Of `apply_change`, `Mutate` saves the
store under the lock, and `Accept` or `Reject` ends the apply after `--test`: until then
the store on disk may be one that is put back. Only an accepted apply and a rejected
`encdns_save` (`reverts`) go on to a sync. `ReadStore`, `Compare`, `Ensure` are
`sync_proxy`, without the lock; `Call` begins a call of the controller and `Controller`
is each further step of one. `Admit` lets requests in when the boot's sync is over
(`app.py` 56-69). `misled` is history: a sync has read a store that was not in force or
ended on one that no longer was, and none has read the one in force since.

Not in it: the test of an upstream's address, a missing binary; two threads that write
the proxy's configuration file at once, which share a temporary file as `AtomicFile`
says (here such a write is one step); a save's choice is a whole configuration, where
`encdns_save` lays the fields sent over those stored.

### Blocklists

`list` is each subscription's record, `due` whether its interval has elapsed, `file`
its domains file, `conf` its rendered file, `source` what its URL serves. A refresh
is `Fetch`, `ReadPrevious`, `WriteFile`, `ApplyRefresh` and, rejected, `PutBack` and
`Note` (`refresh_list`, `blocklists.py` 100-160); `Pass` and `NextDue` are
`refresh_due`, by the ticker or by a restore's own thread. `Add`, `StartUpdate` with
`Update`, `Delete` with `RemoveFile` are the routes, `Rollback` and `Restore` what
the changelog and a backup do to the store, `OtherEdit` an edit of any other
section, which renders the lists too. `disturbed` and `spoiled` are history.
`disturbed` are the threads whose list somebody else has rendered since they read its
file, or who read a file another had not yet had accepted (`InDoubt`). `spoiled` says
that such a thread has put its old file back, or that a delete has removed the file of
a list which a rollback or a restore had brought back meanwhile.

Not in it: the text of a list beyond acceptable, unacceptable or none; the allow
list, which is an edit of the same rendering; the death of the app between `WriteFile`
and the apply, which leaves a new domains file beside the rendering of the old one until
the next apply of any section.

### StaticLeases

`leases` are the reservations by id, `held` the edits that have been checked and
wait for the lock (`Add`, `Update`, `Delete`, then `Apply` or `Reject`; `dhcp_reserve` is an add). `Receive`
is the section in a push, `Unlock` the detach, `Import` and `ImportAnew` the
importer merging or replacing, `Copy` a changelog entry or a snapshot, `Rollback` and
`Restore` their return. Each takes over or checks what the code does there:
`_dup_check` MAC, address and name (`Clashes`), the receiver MAC and address
(`Accepts`), the restore all three (`Restorable`), import and rollback nothing.
`unchecked` and `mirrored` are history: records written without a check against
all the others, and records a source sent. `made` and `gone` are the ids of answered
adds and deletes, until the section is replaced.

Not in it: import files of more than one reservation, more than one copy, backups
brought from another node, which go through the same check.

### Alerts

`state` is the `alerts_state` store: baseline, known devices, pool hysteresis, last
counters, and time stamps as ages in ticker periods. `TickRead` is the reading of
`tick` under the lock, `Evaluate` its checks and the merge (`alerts.py` 282-323),
`TickSend` one delivery. `LeaseEvent` and `Announced` are `lease_event` before and
after its delivery, `NoteExpected` and `Restart` a restart by the app,
`SaveSettings` the route. `Pass` is time: a period is over when its pass is. The rest
(`Lease`, `EditStatic`, `Query`, `Crash`, `Respawn`, `Fault`) is the world. Faults
stand for the certificate, encrypted-upstream and shadowing checks, which share
their form. `Profiles` says what an operator's settings range over.

Not in it: the wording and the transport of an alert, more than one pool, the
datagram of the hook; the death of the app between the save of the known devices
(`alerts.py` 136, 323) and the deliveries, which leaves a device known and nobody told,
and nothing in the code tells of it later. The alert settings are read before the lock
(285), which `TickRead` merges with the reading under it.

### History

Time is counted in slots; a sample is its slot and a daily row the set of samples it
was folded from. A tick is `Begin`, `Collect` (counters and cursor), `Record`,
`Prune`, `Fold`, `Trim`, `TrimRaw`, `Mark`, `Backstop`, each a statement committed by
itself (`stats.py` 139-194, `core/history.py` 51-160); `Dies` is the end of the
process between any two. `Restart` is dnsmasq's, `Answer` a query. `Scopes` are
bounds of behaviours: long ones without queries, short ones with two tickers.
`lapsed` (no fold completed for `RawDays`), `overlapped` and `squeezed` (the size cap
was hit) are history.

Not in it: the query routes, the pool and traffic columns, `VACUUM`.

### UniFi

`hosts` and `serial` are the `dns` store on disk, `kept` the same as the last finished
apply left it. An apply is `ChangeHosts`, `ChangeOthers` (the store's other records),
`RollBack` (which keeps the higher serial) or `Restore` (which takes the backup's), each
a save under the lock, and then `Commit`, which bumps the serial and leaves a push to be
done (`pushing`), or `Reject`, which puts the store back. `static` and `clients` are what
the gateway has. A sync is `Begin` (store and serial read without the lock, `peers.py`
137; login), `List`, `ListAndPlan` (the list of clients may be refused, which counts as
none), one `Write` per request of the plan, `Report` (under the lock). A `Write` is
answered, loses its answer and is sent again, fails, or is lost twice and ends the sync
(`unifi.py` 97-127). A creation refused for a name a client has is `Covered` and no
failure (235-237, 367-369). `push` and `sync now` are two syncs that may overlap; `Meddle`
is somebody at the gateway. `peer` is how the peer is set up: mirroring, claiming.

History: `blind` and `overlooked` (the list of clients was refused, in this sync, in the
last that succeeded), `astray` (a sync read the store in the middle of an apply, or
before a restore that ended during it), `disturbed` and `overwritten` (others wrote to the
gateway).

Not in it: record types other than one, sessions and certificates, several records of one
name; a peer that is disabled or edited while it is pushed to; the death of the app; a
static record made for a name a client has (the gateway refuses it) or a client record
made for a name with a static one.

## 4. The runs

| run | what it shows | states |
|---|---|---|
| `apply_safe` | Two threads, two stores, eleven requests, a forced re-render, restart and flush at any time, dnsmasq dying at any time, supervised. Files, stores, serials, history and daemon agree; the pipeline implements the register; a file the daemon has not loaded is loaded before long | 347 268 |
| `apply_fault` | The same without payloads, with one crash of the app or one failing write at any step: what was left half-done is healed by the next completed apply, and the boot loses nothing | 3.7 million |
| `mirror_safe` | Two push threads, two sections of one store, three upsets: record and content belong together, fresh pushes are not refused, acknowledged content stays | 1.9 million |
| `supervisor` | Two threads, three processes, two writes: one child, watched over, coming back; a restart loads what was asked for | 345 451 |
| `accounts` | Two web threads and the command line on one accounts file, four saves that may meet in the server's temporary file, failing writes, deaths at any step: only saves that meet break the file or one another, an administrator remains but for an edit of a broken file, a revoked token has one way back | 973 000 |
| `proxy` | Two threads, three saves, rollbacks, restores or other applies, accepted or rejected, two configurations, three processes: when nobody is at work the proxy is as the store says, but for a sync misled by a store not yet accepted, or overtaken between its read and its end | 5.4 million |
| `blocklists` | The ticker and a web thread on two lists, a text dnsmasq rejects, two edits or publications: the rendering is that of the lists and files, and a list that is on comes to block what its URL keeps serving | 755 000 |
| `leases` | Two edits at once, a push, an import, a rollback or a restore among two changes, two MACs, two addresses, a name: no clash but through an unchecked record, own copies restore, answered edits hold | 1.4 million |
| `alerts` | Two devices and their pool, or dnsmasq and a fault, with settings switched at any time: the four properties of section 1 | 371 000 |
| `history` | One ticker over four days of two slots, or two tickers and three queries within a day; deaths anywhere | 1.0 million |
| `unifi` | Two names, two addresses, every peer set-up, one edit, rollback or restore accepted or rejected, one hand at the gateway, a push and a Sync now: success is true, and an empty store deletes nothing | 3.1 million |
| `accounts_overlap` | *violation*: a thread publishes the temporary file that another has just truncated, against "leaves the *original* file intact rather than a truncated one" | |

The finding in `PROJECT.json` quotes the line the violation contradicts; section 7
has the other disagreements.

Properties worth a word:

- `LockFreeConsistent` is what every thread relies on as it enters the lock.
- `IdleMeansCurrent` is about the actions outside the lock: a thread may restart
  on another's half-written files, a reload may come after another's restart, a
  dead daemon may be respawned in between; the last thread to finish repairs it.
  Its exception (`missed`) is an apply that raised after its first file: the code
  owes no service action then, and the next start of the daemon ends it.
- `AnsweredMeansMirrored` excludes exactly what the receiver does not promise:
  pushes that were past its check together, and the `dns` section when two
  contents carried one serial (`Ordered`).
- `Watched` fails if a `start` that finds a dead child leaves it to a watcher that
  has seen `_stopping` and gone.
- `AdminRemains` holds although the check of the last administrator and the save
  are not under one lock: each save replaces the file by a whole content that had
  an administrator when it was checked, so two demotions at once cost an edit and
  not the administrator. A save that merged its edit into the newest file would
  break it. The one exception (`misread`) is an edit of a file that two saves which met
  have broken: `users_create` then saves a file with the new user alone.
- `WholeFile` and `SavedOrUntouched` except the saves that met another of their own
  process (`shared`), and those alone: a save that met none makes the file whole again,
  whatever was there and whoever has died. `AlwaysWhole`, without the exception, is what
  the docstring says, and fails.
- `RevokedStaysRevoked` has the exception the code has: a writer that loaded the
  file before the revocation and saves after it (`overtaken`). It says that there
  is no other, such as a later request that finds the token again.

- `QuietMeansSynced` has the exceptions the code has, until the next sync that reads the
  store in force: a sync that read what an apply had saved and not yet had accepted, and
  one whose store has changed since it was read. It holds over rejected saves, whose
  proxy was already brought up. `QuietMeansRendered` has two: a put-back after others
  have rendered the list, and a delete whose file removal, after its apply, takes the
  file of a list brought back in between. The second takes two web threads, which the
  run does not have and the theorem covers.
- `CatchesUp` fails if a failed or never made fetch is not due again, or an update
  from a stale record makes a list forget that it is.
- `HostsOnce` exempts exactly the records that came in unchecked. A restore, which
  checks everything, ends the exemption.
- `OwnSnapshotsRestore` is about three checks that differ: it holds as long as no
  source and no import wrote into the copy.
- `KnownMeansTold` is over two threads that write one file: the pass may lose what
  the listener added, and then only tells again (`TellOnce` names that case).
- `WholeWhileKept` fails if the cut of samples comes before the fold has seen them,
  or if a day is folded from what a cut has left.
- `OkMeansMatching` and `StatusIsTrue` count a name a client has as answered only if
  the client has the address wanted, except where the sync could not list the clients
  (`blind`, `overlooked`): there the code takes a refusal for success.
- `StatusIsTrue` is about the moment nobody syncs and no push is owed: what the status
  line claims then is so, unless two syncs overlapped, a hand was at the gateway or the
  sync that succeeded read an apply half way or a store that a restore has replaced
  since, and until a clean sync.

Bounds. A hazard of the pipeline takes two threads: one inside the lock, one
past it or waiting. Two stores suffice for "all stores are put back, not only the
named ones"; two bits per store give a reload, a restart, a removal, a rejected
combination and a render that changes nothing; `MaxSerial = 2` lets a second and
third change start after the first. In `Mirror` a crossing takes two requests,
and `MaxSerial = 2` with `MaxEdits = 1` lets the settings counter lead; three
upsets cover a timeout with a detach or a restore beside it. In `Supervisor` three
processes are a first, its successor and a respawn or start that competes.
`MaxFaults = 1`: a second fault before recovery completes finds the same kinds
of half-done state as the first. In `Accounts`, one thread that saves what it loaded
before another's save, and the command line beside them, take two web threads;
one of two users is the last administrator, one token is in a backup and the
other is made, and four saves let a token be made, used and revoked after the
bootstrap, with another save in hand. The push threads of `Mirror` and the web threads of `Accounts` are
interchangeable and no liveness is checked there, so symmetry is sound; so it is of
the threads and configurations of `ProxySync`, the addresses of `UniFi`, and the ids,
MACs, addresses and requests of `StaticLeases`. In `StaticLeases` two changes are an
edit with another between its check and the lock; two records clash in any of the
three fields. In `Blocklists` one list is refreshed while the other is rendered. In
`Alerts` a cool-down of two periods lets an alert be due again, and the settings of
one operator do not touch what the other watches. In `History` four days
let samples and rows come to the end of what they are kept for. In `UniFi` a name to be
claimed, created, updated or deleted is beside one that is not.

The type invariants of `Mirror`, `Blocklists`, `ProxySync`, `Alerts`, `StaticLeases` and
`History` are in the modules and not in a cfg. All of them are proved, as theorems or
as the first part of the invariants of section 5.

Deadlock is checked in `ApplyChange` and `Accounts`. In the others the bounds stop
the system (no more upsets, edits, processes, requests or slots), so
`CHECK_DEADLOCK FALSE`.

Fairness. `ApplyChange`: weak fairness of each thread's own steps inside a
request; such a thread holds the lock or needs none, and never waits for another,
so the scheduler alone carries it on. Nothing makes requests arrive, and nothing
makes the daemon live. `Supervisor`: weak fairness of each thread inside a call (its
waits have timeouts and end in a kill) and of each watcher (a blocking wait, then
a sleep). Nothing makes a child die or a caller call.
`Blocklists`: weak fairness of each thread inside a request (its waits are a fetch
with a timeout and the lock), of the ticker's pass and of time. `Alerts`: weak
fairness of the ticker's pass, of a delivery (it has a timeout) and of a restart
under way, strong fairness of time, which stands still only while one of those is
unfinished. Nothing makes a datagram arrive, a fault last or a user act.

## 5. The proofs

All theorems hold for any threads, stores, files, renderings, requests and bounds
that satisfy the assumptions of the module they are about; TLC evaluates those
assumptions on the instances. The bounds are in guards only, and no proof needs one
to be of any size.

**`ApplyChangeProofs`**, for any faults:

- `TypeCorrect`: `Spec => []TypeOK`;
- `Consistent`: `Spec => []LockFreeConsistent`;
- `Inductive`: `Spec => []IInv`, which both follow from.

`LockFreeConsistent` speaks of a free lock only, so it says nothing of the thread
that is about to release it. `IInv` adds what holds inside, as `Txn(t)` for
the holder, by `pc[t]`. Until validation the files are the rendering of the
snapshot, and stores not named by the request are as in the snapshot. While it
restores, stores already put back are as in the snapshot. While it writes,
the stores are accepted by `--test` and every file it has already written, or
had not to, is as the stores render it. From the bump on, all files are. Every
thread that is not the holder is outside. The lemma `Holder` says that only the
holder takes a step inside the lock, `Bystander` and `Unmoved` that nothing else
disturbs it; there is then one lemma per action. `torn` weakens the part about
the files after an abort or a crash, until the next completed prune.

The second part of it, assuming `FaultKinds = {}`:

- `Refinement`: `Spec => RefinesRegister`. Inside the lock the register is the
  snapshot, so steps there stutter; a rejection or a forced re-render releases the
  lock with the stores as in the snapshot; `Record` is the one step that commits.
- `Versions`: `Spec => []SerialIdentifiesContent`, from the refinement and
  `SentInv`: no payload is ahead of the register, and one level with it agrees.
- `HistoryCurrent`: `Spec => []ChangelogCurrent`, from `LoggedInv`: the newest entry
  agrees with the register also while a thread is at work.

The assumption is needed: a crash between two saves of one `mutate()` leaves a
configuration nobody committed, which the pipeline has no record to undo from.

The third part, assuming `DiesWithApp` (dnsmasq is supervised, or the app is never
killed):

- `DaemonCurrent`: `Spec => []IdleMeansCurrent`. The invariant is a debt: every
  file dnsmasq has not loaded is owed to it by a thread between validation and its
  service action, and that action loads it (`DriftOwed`); every file about to be
  replaced by another content is in its writer's debt already (`WritesOwed`).
  Section 7 shows that the assumption is needed.

**`MirrorProofs`**, for any sections, stores, push threads and bounds; typing comes
first in each:

- `RecordIsTrue` (`Lineage`): what a request says of a section was sent by the primary
  (`Honest`), and record and content are only ever written together from one request.
- `SerialsOrder` (`SerialOrdersContent`): nothing was sent under a serial to come, and
  what was sent under the present one is the present content (`Labelled`).
- `FreshIsAccepted` (`FreshNeverStale`): without a restored backup neither the record
  nor a request is ahead of the primary (`NotAhead`).
- `StaysMirrored` (`AnsweredMeansMirrored`): no version the standby
  has had is newer than what it has, or than any request that may still be applied
  (`NothingUndone`). That one request at most is past the check (`OneChecked`) is what
  `~crossed` gives, and `Ordered` makes a serial that is no lower mean content that is no
  older.

**`SupervisorProofs`**, for any number of threads, processes and writes:

- `TypeCorrect`, `AtMostOneChild`, `NeverAbandoned`: only the newest process can be
  alive, its watcher is still waiting, and a watcher in its pause has seen its process
  exit (`Sole`).
- `RestartIsEffective`: a restart has in hand the newest process of its beginning;
  whatever was spawned later has loaded what was written by then (`Fresh`).

and of `ProxySync`, for any configurations and number of requests:

- `QuietIsSynced`: `SyncSpec => []QuietMeansSynced`. Only the read of the store settles
  anything, so the invariant speaks of threads at work. A child that runs although it
  is to stop has somebody terminating it (`StopPending`); one that runs on an older file
  is owed a restart (`LoadedOwed`); and unless a sync is still to read the store or acts
  on what it does not say (`Unsettled`), file and child are as the store says or
  somebody makes them so (`Headed`). With nobody at work these are `Agrees`.

**`AccountsProofs`**, first of `AtomicFile`, for any writers and processes, and whatever
saves meet:

- `Atomic`: `FileSpec => []WholeFile`, and `FailsCleanly`: `FileSpec => SavedOrUntouched`.
  A save that has met none (`Alone`) has the process and its temporary file to itself
  (`OneByOne`, `InOrder`), so at its rename that file is what it was to write; and no
  descriptor is on the published file but after saves that met (`Apart`).

then of `Accounts`:

- `TypeCorrect` and `SavesAreAtomicFile` (`Spec => FileSpec`): the accounts machine is a
  client of `AtomicFile`, and its file theorems carry over (`AccountsWhole`).
- `AdministratorRemains`: not only the file but everything in a writer's hands has an
  administrator, because every edit keeps one of what it loaded. A whole content in a
  temporary file is in the hands of a save under way (`Sourced`), so what meeting saves
  publish is broken or one of these, and of a broken file only an edit can be made that
  has no administrator (`misread`).
- `RevokedForGood`: a token that was revoked and not overtaken is neither in the file nor
  in any writer's hands, and what a writer saves is without the token it is to revoke. If
  its rename publishes another's content, that other had the token in hand or has it not.

**`StaticLeasesProofs`**, for any records, ids and number of requests:

- `TypeCorrect`, `NoHostTwice` (`HostsOnce`) and `OwnCopiesRestore`
  (`OwnSnapshotsRestore`). What the store and the copy hold is a clean book: of two
  reservations of one host one is unchecked, and of two that share a name one is
  unchecked or mirrored. A held edit is free of clashes in the list it
  was checked in; if that is still the list, the book stays clean, and if not, the
  edit is itself unchecked.
- `AnsweredEditsHold` (`AnswersHold`): the id of an edit in flight is its own (no
  other add has it, and it is not one that is gone), so no edit undoes another's
  answer.

**`TickerProofs`**, of `History`, for any tickers, day length, retention and scopes:

- `TypeCorrect`, and `CountedOnce` (`NeverOvercounted`): while ticks take turns, what
  is stored, what one tick has in hand and what has grown since the cursor are together
  no more than what was answered.
- `FoldedFirst` (`FoldedBeforeGone`), with ticks that may overlap: every sample of a
  day before the marker has its row, and from its fold on a tick knows as much of its
  own day. The usual cut takes samples of `RawDays` ago and before, all of them
  before the marker if `~lapsed`. The size cap's cut may be of the next day already,
  as a tick runs over midnight, and still takes none of the day before the fold:
  it is of a slot at most one later than the tick began in (`TurnInv`).
- `WholeAfterFold` (`WholeWhileKept`), assuming `RawDays <= DailyDays + 1`: as long as the
  size cap is not hit, every sample of the last `RawDays` days is there, so a fold makes whole rows.
  The defaults are 3 and 400; with rows kept shorter than samples a row goes first.

and of `Blocklists`, for any lists, threads and texts:

- `ListsTypeCorrect` and `QuietIsRendered` (`QuietMeansRendered`). A list whose file
  nobody has in doubt is rendered from it (`Settled`), and a refresh that is not
  disturbed holds the file its list is rendered from (`Held`), so that its put-back
  restores what is rendered.

**`AlertsProofs`**, for any devices, faults and settings:

- `TypeCorrect`; `NobodySlipsIn` (`KnownMeansTold`): who was alerted on within the
  cool-down has been told of, in the file as in what the ticker has read of it
  (`Heard`), so the ticker may merge its old reading.
- `ToldOnce` (`TellOnce`): what the ticker has read is still so, but for what the
  listener and a restart did since (`StillRead`), and the ages in the file are those of
  what was delivered (`Ages`).
- `RestartsAreExplained` (`NoFalseAlarm`): counters behind those on file mean a crash,
  or a restart noted no longer ago than the last look (`Looks`).

**`UniFiProofs`**, for any finite set of names, any addresses and any set-up of the peer:

- `EmptyStoreIsSafe` (`EmptyDeletesNothing`): a sync that read an empty store and mirrors
  does not get past its beginning.
- `OkIsMatching` (`OkMeansMatching`), by what is left to do: for a sync without trouble,
  at a gateway nobody else changes, every name is right or has a request coming (`Left`);
  a plan without conflicts leaves no name out (`PlanCovers`) and asks of each name once.
- `StatusTellsTruth` (`StatusIsTrue`): of a sync that read a finished apply and no
  restore since, the serial, if still the store's, is of the same hosts (`Current`); a
  sync that was disturbed or went astray has left it written down (`Noted`).

Typing takes an argument of its own here: an identifier for a new record is always
free, because there are fewer records and outstanding requests than identifiers.

Model-checked only: `DriftRepaired`, `ComesBack`, `CatchesUp` and `FaultsAreTold`, which
are liveness under fairness, out of the prover's reach. Every safety property of a
passing run is a theorem. `IdleMeansCurrent` needs `DiesWithApp` (section 7), and the register
has no faults in it.

## 6. Not modelled

`PROJECT.json` gives a reason for each component. In short: what is pure input
and output or presentation (probe, lookup, query log, metrics, recon, TLS, UI,
packaging), what is arithmetic at a size TLC does not reach (Ed25519), and what
section 2 names as left. Of the hazards, five have no property: the command line's
`render` beside the app, a spawn that fails, a restore that fails between its stores,
a death of the app between the save of a known device and its alert (the code promises
nothing of any), and the lock of a section after a partial push,
which does not hold (section 7).

## 7. Disagreements between the code and its words

The property named is in the module; to see it fail, put it alone in the cfg named,
as `INVARIANT`, or as `PROPERTY` where it has an action in it (`[][...]_vars`).

| property, cfg | the words | the code |
|---|---|---|
| `AlwaysWhole`, `accounts_overlap.cfg` | `core/config.py`: a failed save "leaves the *original* file intact rather than a truncated one" | two threads share one temporary file name; this one is a run of the project |
| `StartsOnOneRender`, `apply_safe.cfg` | README.md:15 and `dnsmasq.py`:6, "swapped in atomically" | each file is; the set is not, and a restart or respawn outside the lock can load part of it. The writer's own restart repairs it |
| `EveryChangeRecorded`, `apply_safe.cfg` | README.md:201, "Every applied change is recorded" | `changelog.py`:89 does not compare `blocklists`, so an edit of a disabled list leaves no entry |
| `IdleMeansCurrent`, `apply_safe.cfg` with `Supervise = FALSE`, `FaultKinds = {"crash"}`, `MaxFaults = 1` | README.md:10-18, structural changes restart the service | `diff_render` compares with the files, not with what dnsmasq loaded: after a crash between the two no later apply restarts it |
| `NeverRewinds`, `mirror_safe.cfg` | README.md:167, "replay/stale-serial protection"; `tests/test_mirror.py`:38 | serials are compared before the lock and not again; two pushes past the check can cross |
| `MirroredIsLocked`, `mirror_safe.cfg` | README.md:168, "Mirrored sections become read-only on the receiver"; `mirror.py`:6 | a push sets the locked sections to its own (`mirror.py`:285), and most pushes are partial |
| `AlwaysSynced`, `proxy.cfg` | `encdns.py`:265, "Make the running proxy match the store ... safe to call from any apply path (boot, save, rollback, restore)" | the store is read without a lock and acted on later; an apply that is rejected after a sync has read it returns without one (`dnsmasq.py`:645): a rollback to "disabled" is on disk while dnsmasq judges it, another thread's sync stops the proxy, the rollback is rejected, and the proxy stays down until the next apply |
| `ClientNamesReported`, `unifi.cfg` | `unifi.py`:14-15, "Such names are either reported (default) or claimed"; README.md:191 | a refused list of clients counts as empty (257-258) and the overlap of a creation as covered (367-369): success is reported, and the name is neither reported nor claimed, though its client has another address |
| `DeliberateIsNoAlarm`, `alerts.cfg` | `dnsmasq.py`:617, "so the alerts tick can tell a deliberate restart ... from a crash" | the tick has read the note before (`alerts.py`:290) and looks at the counters after |
| `RowsStayWhole`, `history.cfg` | `core/history.py`:112, "fold whole prior days", "Idempotent (upsert)" | a fold of a day whose samples are part gone overwrites the whole row with the part |
| `NeverTwice`, `leases.cfg` | `dhcp.py`:80-82, "so reject here rather than let the next restart fail" | the check is before the lock, and the importer, which claims the same validators, has none |
| `SnapshotsRestore`, `leases.cfg` | `backup.py`:325, "a snapshot restores a node completely" | a source may send two reservations of one name; the restore refuses them |

Two more, of which there is no property: a pool alert that falls into its cool-down
is not sent later, because the pool counts as alerted by then (`alerts.py`:150-166);
and a partial update writes every field as it was when the record was read, over
what a concurrent update changed (`dhcp.py`:145-147). `StatusIsTrue` of `UniFi` without
`overwritten` fails on a push and a Sync now that overlap (`peers.py`:38 against
319-327), and on a Sync now begun in the middle of an apply that is rejected afterwards
(`peers.py`:137): the hosts of the rejected change stay at the gateway, and the status is
"ok" on the store's serial, until the next push of the hosts.
