# A verification project for the Hysteria 2 panel

The panel is a Go service (`src/internal`, `src/cmd`) that administers one
Hysteria 2 server: it keeps user records in files, derives the server's
configuration from them, restarts the server, and serves an HTTP API with
sessions, statistics and an audit log. This directory holds TLA+ models of it,
the configurations that check them with TLC, and theorems about them with proofs
for TLAPS. The models are translated from the Go code; `PROJECT.json` maps each
definition to its lines.

## 1. The system

### 1.1 Components

| Component | State | Operations | What makes it correct |
|---|---|---|---|
| Repository core (`repository.go`, `fsutil`) | directories of JSON files, `meta.json` with the counters, a lock file | `withLock` (process mutex, then `flock`), atomic file writes (temporary file, fsync, rename, fsync of the directory), creation of the counters | one operation at a time; a cancelled operation changes nothing; a failed or interrupted one never makes two records share a number |
| Hysteria users (`repository_hy2.go`) | one file per user: name, password, enabled, last seen | create, update, enable/disable, delete, touch, list | names are unique; a removed record stays removed; only who should changes the enabled flag |
| Access manager (`hysteria_access.go`) | none: it reads users and file and writes the file | `Sync`, injection of the managed `userpass` section, client artifacts | the file holds exactly the enabled users |
| Configuration manager (`hysteria_config_manager.go`) | the server's YAML file | read, parse, normalize, validate, merge, save | unknown keys survive; a rejected configuration is never written; applying the same settings twice is applying them once |
| User and settings handlers (`handlers/hy2.go`, `hy2_settings.go`) | local variables of each request | create, update, enable, disable, delete, save, apply, each with synchronisation, restart and rollback, and the reading of what is answered | records, file and server agree when requests are done; success means published; failure means undone or, where it comes after the publication, in effect everywhere |
| Start-up (`app/server.go`) | none | synchronise, restart if the file changed, start collectors, listen | the file is repaired after a crash |
| Audit log, snapshots, service states (`repository_audit_service.go`, `repository_system.go`) | numbered files, one file per service | insert, batch insert, upsert, prune, list | numbers are used once; pruning keeps the newest and bounds the rest |
| Administrators and sessions (`repository_admin.go`, `commands.go`) | one file per administrator and per session | upsert, create session, look up, touch, delete, purge | one record per address; a session that ended never comes back |
| Login and middleware (`handlers/auth.go`, `middleware/`) | the limiter's map of attempts in memory | login, logout, `RequireAuth`, `Allow`, `Reset` | no more attempts than configured; no lock-out without cause |
| Scheduler (`scheduler.go`) | the local variables of one poll | poll traffic and online users, poll services | polls never undo a change made meanwhile; cached states come right |
| Service manager (`systemd.go`, `handlers/services.go`) | cached service states | status, restart, reload under a timeout of six seconds | the cache follows systemd |
| System metrics and history (`handlers/system.go`, `system_metrics.go`, `network_*.go`) | the last network and packet sample, snapshots | live metrics, history grouped into buckets, a collector every three seconds | rates are averages over real intervals; grouping keeps the newest point of each bucket |
| Client artifacts (`hysteria_access.go`, `hysteria_config_manager.go`, `hy2.go`) | none: made from the settings, `HY2_DOMAIN` and the user's overrides | share URI, client YAML, sing-box outbound, parameters, subscription links | all formats make one connection; a user who was accepted can be exported; a link dies with the update of its user |
| Hysteria API client (`hysteria.go`) | none | traffic and connections by name, over HTTP | (input of the traffic poll) |
| QR codes, CSRF and header middleware, environment, web interface, installer, certificate script | none that other parts depend on | | |

### 1.2 How they interact

A handler that changes a user calls, one after the other: the repository (under
its lock), the configuration file (read, no lock), the repository again (list the
enabled users), the file (write, no lock) and `systemctl restart`. Each call can
fail, the client can disconnect between any two (the request's context is then
cancelled, and the repository and `systemctl` refuse; file writes do not look at
it), the panel can die, and other requests run in between. On an error the handler
writes the record back and synchronises once more.

Every goroutine of the panel (requests, the two polls, the metrics collector, the
goroutine that touches a session) and every `bootstrap-admin` command shares the
repository and its lock; the login limiter and the two metrics samples each have a
mutex in memory.

### 1.3 What is hard

* three copies of the user list (records, file, running server) with no
  transaction around them;
* rollbacks that write a record read before the lock was taken, racing other
  requests and other rollbacks;
* contexts that are cancelled half-way and make the rollback itself fail;
* file writes that return an error after they took effect;
* numbers drawn from a counter file that is saved before the record it numbers;
* work that continues after the request that caused it (touching a session);
* a clock read before the mutex that orders the attempts it is used for;
* a configuration file owned by two parties: the panel and an operator's editor;
* polls that put together answers of the server, of systemd and of the repository
  that were given at different moments, and write them later still;
* readings of the kernel's counters taken before the mutex they are kept under;
* two layerings of the same options, one in the query of a URI and one in the
  fields of a profile, which four output formats read back.

`PROJECT.json` lists these hazards at the lines where they bite, with the
properties that cover them.

## 2. Modules

| Module | Models | Size of its checked instance |
|---|---|---|
| `ManagedUsers` | the user directory as a function from identifiers to records, the uniqueness scan, and the authentication section derived from it (`managedAuth`) | (operators used by the next two) |
| `HysteriaAccess` | handlers, start-up, rollback, configuration file and running server, one action per repository operation, file access or `systemctl` command | 2 users, 2 names, 2 passwords, 1 or 2 requests |
| `AccessPromise` | what a request promises: all or nothing in the three copies, and what each failure says | refined by `HysteriaAccess` |
| `PanelStore` | counters and numbered files, write by write | 2 goroutines, 2 programs |
| `HysteriaConfig` | the configuration file between the settings form and an operator: parse, normalize, validate, rebuild, merge | 23 known and 7 unknown keys, each absent, blank or with a value; 2 edits |
| `AdminSessions` | accounts, sessions, the middleware, the login limiter | 2 requests, 2 accounts |
| `PanelProcess` | the context the jobs run under, and the clock of outside events | (extended by the next two) |
| `TrafficPoll` | the poll of traffic and connections beside requests that create, rename, disable and delete users | 2 users, 2 names, a counter of one byte |
| `ServiceCache` | the stored service states: the poll of systemd and the handlers that ask, act and store | 2 services, 1 client |
| `PanelJobs` | both in one process that is shut down, dies and is started again | 3 events |
| `SystemSamples` | the readings kept for rates, between the collector and the live page | collector and 1 request, 4 rounds of readings, 4 instants, 1 failure |
| `SystemTrend` | selection and grouping of snapshots for the history page, beside what the page is promised | all stored sequences of the next module |
| `SystemHistory` | the two composed: the collector stores what the page reads | 27 queries at each snapshot stored |
| `ClientProfile` | the profile of a user and the four artifacts made of it, and what a client makes of each | (operators of the next module) |
| `ClientExport` | the exports of a user over time: updates, settings, subscription links | 2 administrators, 4 domains, 3 settings, 6 overrides, 3 seconds |
| `MC...` | the constants of a run: sets of model values, symmetry | |
| `...Proofs` | theorems and their proofs, one module for each specification that is run | for all values of the constants |
| `FiniteSums` | lemmas on sums over finite sets, for the limiter's proofs | |

Definitions marked *Variant* just before a definition are mistakes the code could
contain (a dropped guard, a missing reset); `PROJECT.json` "mutants" names, for
each property, one that the property detects. No specification uses them.

### 2.1 HysteriaAccess

*State.* `users` is the directory of user files; `issued` the identifiers drawn so
far (`uuid.NewString` never repeats one); `config` the YAML file, reduced to its
`auth` section and to whether `Validate` accepts the rest; `live` what the server
loaded when it last started; `pc` and `job` the next call and the local variables
of each goroutine; `crashes` counts for the bound.

*Actions.* `Create`, `OpenUpdate`, `OpenToggle`, `OpenDelete`, `SaveSettings` and
`ApplySettings` start a handler. `Update`, `Toggle`, `Remove` and `Undo` are its
repository operations: each runs to its end under the repository lock, so each is
one action, with three outcomes (done; failed without effect; failed after the
effect, when the directory's fsync or the removal of the snapshots fails).
`FaultKinds` says which calls may fail in a run: one that reads, writes or restarts
without effect, or a write that is torn, reporting an error after its effect: of a
record (`"torn"`), of removing one (`"torn removal"`) or of the file (`"torn file"`).
`ReadConfig`, `Inject`, `SaveConfig` and `CheckConfig` are the steps of `Sync` and
of the settings handlers that touch the file; `Inject` lists the enabled users
under the lock, but after the file was read and before it is written. `Restart` is
`systemctl restart`; a command killed at its timeout may or may not have restarted
the server. `OnError`, `OnSynced` and `AfterSync` say where each handler goes next:
they are the branches of `hy2.go`, of `hy2_settings.go` and of `server.go`. `Respond`
is what creating and updating do once they are published: read the record again and
generate the artifacts that are answered. When that fails the change stays, and the
answer is an error that says what could not be read (`"unread"`), not that the change
was rolled back (`"failed"`).
`Disconnect`, `Crash`, `ServerRestart` and `HandEdit` are the environment. An edit may
come at any moment, between a read of the file and the write too; `edited` in a job
notes that one did, for the properties that cannot hold then.

*Abstractions.* A name and a password stand for their normalized forms; notes and
client overrides are left out, as nothing in the file depends on them. Two
sequences of calls that no other party can observe apart (reading the request's
body, auditing, logging) are no steps. Updates choose any new name and password,
which includes the values a partial update takes from its stale read.

*Fairness.* Weak fairness of `Step(p)`, the next call of a goroutine: every call
returns, since files are local, the lock is held for one operation at a time, and
`systemctl` runs under a timeout. New requests, crashes, disconnects and edits are
never required to happen.

### 2.2 PanelStore

*State.* `meta` is `meta.json`, `files` the numbered records by kind, `states` the
service states, `opening` how far each program is in opening the repository,
`lock`, `pc` and `op` the operation that holds the lock and its next write.

*Actions.* `OpenStore` and `CreateMeta` are `New` and the branch of
`loadMetaNoLock` that creates the counters, which `New` runs without the lock.
`InsertAuditLog`, `InsertSystemSnapshot`, `InsertHysteriaSnapshots` and
`UpsertServiceState` take the lock and compute the number; `SaveMeta`,
`WriteRecord`, `WriteState` and `Prune` are the file writes that follow, each of
which may fail before or after its effect. `Crash` drops the lock, as the kernel
does. `CloseStore` is the end of the `bootstrap-admin` command.

`FirstStartsApart` says that no two programs create the counters at the same time.
The installer guarantees it (it runs `bootstrap-admin` to its end before it starts
the panel); without it one program can reset counters the other has already used.

### 2.3 AdminSessions

*State.* `clock`; `admins` and `sessions`, the files; `issued` tokens; `attempts`,
the limiter's map, and `admitted`, a history variable the limiter is judged by;
`pc`, `req` and `touches`, the requests and the goroutines they leave behind.

*Actions.* `Login` reads the clock as `Allow` does before it waits for the mutex;
`Allow`, `Compare`, `Reset` and `CreateSession` are the remaining steps of the
handler; `RequireAuth`, `Serve` and `Logout` those of an authenticated request;
`Touch` the asynchronous touch; `BootstrapAdmin` the command; `Crash` loses the
limiter. `sessions[t]` stands for the session of the token `t`, which the code
finds by the token's hash.

### 2.4 HysteriaConfig

*State.* `file`, the configuration file as a function from the paths of its scalar
leaves to values; `form`, the settings in the administrator's browser; `users`, the
`userpass` map the records stand for; `answer`, whether the last step wrote the
file; `edits`, for the bound.

*Operators.* `Parse`, `Normalize`, `Generate`, `Build`, `Merge`, `ValidSettings` and
`ValidConfig` are the functions of `hysteria_config_manager.go` of like name;
`Inject` is `InjectManagedAuth`, and `Canonical` the two fields a save rewrites (the
listen address gets its colon, a bandwidth its unit). `None` is a key that is absent,
`Blank` one that is there with nothing in it (an empty string or mapping, a false flag,
a zero), which `Read` takes for absent as `toString` does. A section is present if a key
under it is, blank or not, which is what decides between `nil` and a pointer in the code;
so an empty section may still make a mode or a type. A mode the panel does not know
(`AskedModes`) becomes the one of ACME.

*Actions.* `LoadForm` and `SaveForm` are the two handlers, `Sync` that of
`HysteriaAccess` from another side: there the file is a section and a mark and the
calls interleave, here the file has its keys and a handler is one step. `EditForm`
changes one value, mode or switch of the form; `EditFile` sets, blanks or removes one
key of the file, known or not, or breaks its syntax; `ChangeUsers` replaces the users.

*Abstractions.* Fields the code treats alike (the sizes of QUIC, the flags, `up` and
`down`) have one representative each; authentication by `http` and `command` is
parsed like `password` and, like it, replaced by the managed one. A value stands for
its class: the canonical one, one that normalizes to it, one that fails its check.

### 2.5 PanelJobs

*State.* `running`, whether the context of the jobs is uncancelled; `events`, a clock
that advances with whatever reaches the panel from outside. `users`, `snaps`: the
records (with the last visit) and, of each user's snapshot directory, the newest
snapshot and how many there are; `api`, the server's counters; `poll`, the local
variables of the traffic poll. `unit`, what systemd says; `cache`, the stored states;
`call`, the local variables of the service poll and of the requests; `answer`, what a
client was told last.

*Actions.* `FetchTraffic`, `FetchOnline`, `List`, `Touch` and `Insert` are the calls of
`pollHysteria` in their order, `GivesUp` the returns on an error; `Insert` may stop
after any of its writes. `Show`, `ShowFailsJob`, `Version` and `Upsert` are those of
`pollServices`; `Open`, `Command`, `Show`, `ShowFails` and `Upsert` those of the service
handlers and the live page, which drop the error of the upsert. `Create`, `Update`,
`SetEnabled` and `Delete` are the repository operations of requests; how handlers
string them together is in `HysteriaAccess`.

*Abstractions.* Two instants with no event between them cannot be told apart, so the
number of events serves as the time of a last visit and as the age of a state. The list
of a poll has no limit (the code asks for 10000 users). Snapshots are counted up to
`MaxKept`. The loop over online users takes them in any order.

*Fairness.* Each poll is one goroutine that starts again at a tick of its timer, and
each call it makes returns: HTTP calls and commands have timeouts, the repository is
locked for one operation at a time. So each poll is weakly fair, by itself, and so is
each request once it has begun. Events are never required; they are finite in number,
which is the premise of the liveness properties ("when requests, traffic and failures
cease"), and so is the restart of a panel that was shut down (`<>[]running` is a
premise of both).

*For TLC* the two jobs are followed one at a time, `watched` saying which. They share
only `running` and `events`, and each property speaks of one job only. All the other job
does is to use up events: that spaces the times in what the followed one stores, and the
properties compare times by their order alone.

### 2.6 SystemHistory

*State.* `net`, `packets`, `cpu`, `usage`: `networkSample`, `protocolSample`,
`lastCPUSample` and `hasLastCPU`, in memory; `pc`, `read`, `taken`: local variables;
`snaps`: the times of the stored snapshots in the order of their numbers. `told[c][t]`
counts the rates in which the tick `t` of counter `c` was counted, and `back[c]` the
times that a reading replaced a greater one; they are history variables.

*Actions.* `Start` is a tick of the collector or the arrival of a request; `ReadCPU`,
`KeepCPU`, `SetUsage`, `ReadMemory`, `ReadNet`, `StampNet`, `KeepNet`, `ReadPackets`,
`StampPackets`, `KeepPackets` and `Insert` are the accesses of one goroutine to `/proc`,
to the clock, to the mutexes and to the repository, in the order of the code: the
readers of the network and of the packets take the clock after they have read the file,
and another goroutine may read both in between. `Restart` loses the memory.

*Abstractions.* The kernel's counters grow by one each tick and the clock with them, so
a reading of the counters says when it was taken; that they never go back is what the
kernel promises of each interface, and their sum is taken to do the same (when an
interface is removed the code counts nothing until the next reading). A snapshot is its
time; its other fields are copied. Errors of a reading stand for the missing file as
well as for the file that does not parse.

*Operators.* `Selected` and `Trend` follow the loops of `ListSystemSnapshots` and
`toSystemTrendSamples`; `RightFor` says what the page is promised without them: the
points are the newest of their step among the newest snapshots the limit admits, each
step is there, and they are in the order of time.

### 2.7 ClientExport

*State.* `domain`, `HY2_DOMAIN`, given for good; `settings`, as saved; `user`, the one
user, with overrides and the second of the last update; `request[a]`, the step and the
local variables of a handler; `link`, the stamp a subscription link has signed, and
whether the user was updated since and when.

*Actions.* `Create`, `Update`, `SetState` and `Delete` start a handler, which reads the
user and checks the draft under the settings of that moment (`Accepts`); `StoreDraft`
is its repository operation, `Synced` and `RollBack` what follows the synchronisation.
`SaveSettings` and `HandOut` are the other handlers; `Serves` is the answer to a link.

*Operators.* `DefaultProfile`, `MergedQuery`, `ApplyClientOverrides`, `ValidProfile`,
`ClientURI`, `ClientYAML`, `ClientParams` and `SingBoxOutbound` are the functions of
like name. `ByURI`, `ByYAML`, `ByParams` and `BySingBox` are what a client makes of each
artifact, and `Intended` the connection a user should make, said without the profile.

*Abstractions.* Hosts, passwords and pins are values with the classes the checks tell
apart (a host that is none, `.`, a pin with or without colons, one that is no hash);
ports are a sequence, ranges are left out. One user and one link are enough for
properties that speak of one user; the other users do not enter its exports. The clock
does not go back. Bandwidth, QUIC, SOCKS5 and HTTP settings are copied by the code and
left out. `SettingsAssumption` is what the validation of settings lets through (shown by
`HysteriaConfig`); `DomainAssumption` excludes a domain that names an obfuscation
without its password, which nothing in the code checks. sing-box has no pin, so its
connection is compared without it.

*Several ports.* When `HY2_DOMAIN` is a `hysteria2://` URI and the server listens on
several ports, the code puts the ports into the URL and then parses it with
`net/url`, which refuses a list of ports: all exports fail (`Parses`). The properties
are claimed where there is one URL (`OneURL`).

## 3. Runs

| Run | Question | Bounds, and why they suffice |
|---|---|---|
| `access_serial` | Is each request a transaction, any one of its calls failing? `FileAgrees`, `ServerAgrees`, and `KeepsPromise`: `HysteriaAccess` implements `AccessPromise` | one request at a time, one failing call per request (reads, writes, restarts, a torn write of the file, a torn removal): with two, the rollback may fail too, and the code does not promise more; after a torn write of a record the code answers without synchronising, which start-up repairs (next but one); two users and names show name conflicts and the empty list |
| `access_concurrent` | What holds when two requests interleave call by call? `UniqueNames`, `GoneStaysGone`, `UpdatesKeepEnabled` | two requests, restarts that fail, so that rollbacks race requests and each other |
| `access_startup` | What does a success mean under crashes, disconnects, torn writes and edits by hand, what does a delete leave behind, and does start-up repair? `SuccessPublishes`, `RemovedIsOut`, `PanelWritesValid`, `StartupRepairs`, `RequestsEnd` (under fairness) | one request, one crash, one torn write in each request, three edited files, put there at any moment (between the read of the file and its write too): authentication removed, a stranger added, a section `Validate` insists on removed |
| `access_drift` | Does the file follow the users when two requests overlap? `FileAgrees` fails | finding, section 5 |
| `access_disconnect` | Is a disabled user out of the file when the client goes away? `DisabledNotInFile` fails | finding, section 5 |
| `panel_store` | Are numbers used once, do services keep theirs, does pruning keep the newest, and is the number of snapshots bounded? | two goroutines, two programs, one fault, one crash, five snapshots with a pruning every two: two prunings, one of which can fall out |
| `admin_sessions` | Do sessions end for good, speak for one address, and does the limiter admit and deny as configured? | two requests, a burst of two in a window of two ticks, four instants, one restart |
| `config_form` | Does a save write what the form says and leave an operator what it does not? `SavedAsAsked`, `IdleSaveKeeps`, `SavedIsStable`, `AcceptableIsAccepted` | two values edited in the form or in the file after the installer's file, in any order with loads, saves and synchronisations: every pair of fields, and every key appearing, changing or becoming blank between load and save; two generated passwords, which are interchangeable (symmetry) |
| `panel_jobs` | What do the polls do beside requests, failures, shutdown and restarts? `RecordsKept`, `LateSnapshots`, `LiveAnswersFresh`; under fairness `ViewsSettle` and `CacheSettles` | three events: the shortest ways to a wrong view or state (rename and transfer between the calls of a poll, a restart of a service between asking and storing, a failure on top) take two |
| `system_history` | What do the rates count twice or leave out, and does the page show the right points for every query? `ToldTwiceForCause`, `LostInGaps`, `HistoryRight` | four rounds of readings (two for each goroutine, or more of one), four instants, a failure or restart, one request beside the collector: readings overtake one another with two goroutines, growth is left out with three rounds and counted twice with four, and three snapshots exceed the limit of two and fill a step of two; limits, windows and steps that are absent, too small and too large |
| `client_export` | Does what a user is given agree, stay and end? `ArtifactsAgree`, `ExportsStay`, `LinksFollow` | each domain, setting and override is there for a layer it adds or a check it fails; two administrators, so that a rollback races another writer (the theorems cover any number); three seconds put an update into the same second and into a later one |
| `config_alias` | Does the form switch the speed test off? `SpeedTestOff` fails | finding, section 5 |

Types are checked as invariants for `HysteriaAccess`, `PanelStore` and
`AdminSessions`, and are proved for every specification (section 4).

`SnapshotsBounded`, `RateLimited` and `DenialsJustified` state exact bounds: lowering
the bound of the first two by one makes TLC find a counterexample.

`RateLimited` allows one attempt beyond the burst for each further request that can
read the clock before another's attempt and be counted after it: `Allow` reads the
clock outside its mutex, and drops from the list what is older than *its* reading.

Deadlock is checked for `HysteriaAccess` and `HysteriaConfig`. It is checked for
`PanelJobs` too, where the polls go on for ever. `PanelStore`, `AdminSessions`,
`SystemHistory` and `ClientExport` stop at their bounds (numbers, ticks, tokens, a
deleted user), so their configurations switch it off.

`ToldTwiceForCause` allows the network's and the packets' ticks to be counted once
more for each reading that went back, because the code has that: it stores a reading
without looking whether a younger one is there, and keeps a failed reading of the
packets as zero. It shows that there is no other cause, and that the processor's
reading, which the code compares first, is exempt. `LostInGaps` is its counterpart. The
code does leave growth out: a reader that takes the counters first and the clock last
may be stored before one with greater counters and an earlier clock, and then that one
makes no rate but is kept (`system.go:195-207`), so that what lies between the two
readings is in no rate. `LostInGaps` says that this is the only loss, bounded by the time
a reader spends between file and clock. `LateSnapshots` likewise allows the
one snapshot that the poll under way writes for a user deleted meanwhile.

## 4. Theorems

Proved with TLAPS, for every value of the constants that satisfies the named
assumptions. `PROJECT.json` "theorems" lists them with the properties they state.

### 4.1 HysteriaAccess, any number of requests

The inductive invariant is `TypeOK /\ UniqueNames /\ JobShape /\ StoreShape`.
`UniqueNames` alone is not inductive: a rollback writes a name back, and must be
known to have scanned for it. `JobShape` says what the local variables hold at each
label (the record a rollback restores exists and was read; a stored record's
identifier was issued; what a request is about to write was validated), and `StoreShape`
that only issued identifiers are in use. From it follow, for any number of concurrent
requests, faults and crashes, where TLC checks two requests:

* `TypeCorrect`, `NamesUnique` (invariants);
* `NeverResurrected`, `EnabledKept`, `OnlyValidWritten` (action properties).

### 4.2 HysteriaAccess, one request at a time

`SuccessIsPublished` (`SuccessPublishes`) and `RemovedUsersAreOut` (`RemovedIsOut`)
assume `OneRequest`, the set of request processes having one element, and nothing of
failures: calls may fail before or after their effect, clients leave, operators edit and
the panel crash. Both speak of requests during which nobody edited the file; what was
edited before does not matter. The invariant adds `Alone` to the one above: what each
label of the request relies on of the copies (the users injected are still the users
there are, a user about to be removed is disabled and, unless the file was edited, the
file read is still the file). It needs that no other request moves, and that start-up is
over.

`FileFollows`, `ServerFollows` (`FileAgrees`, `ServerAgrees`) and `PromiseKept`
(`KeepsPromise`) assume `Serial`: one request process, at most one failing call in a
request, no torn write of a record, no crash, no disconnect, no edit by hand. That is
what the code promises, and what `access_serial` checks: two findings of section 5 are
behaviours with a second request and with a disconnect that leave the file wrong, a crash
leaves it wrong until the next start, a second failure can stop the rollback, and a torn
write of a record is answered as a failure without rollback or synchronisation, so that
record and file differ until the next one. The invariant adds `Serves`:
the records were in agreement with file and server before the request (`Before` puts
the record it holds back into the directory), they differ from that by the
request's own change only, and once a request rolls back it has had its one failure, so
that nothing stops the rollback.

`PromiseKept` is the refinement. The accounts of `AccessPromise` are mapped to the
records as they were when the request began; so the start of a request is `Asked`, each
of its calls is a stutter, and its answer is the step of the promise that it stands for:
`Created`, `Updated`, `Switched`, `Removed`, `Unchanged`, or `LeftDisabled` of a delete
that stopped after it disabled the user. The answer is part of the step: `Created` and
`Updated` may answer `"unread"`, when what is answered could not be read after the
publication (`hy2.go:114-123`, `531-535`), and nothing else answers it, so this error
tells that the change is in all three copies. `"failed"` says that none of it is, except
of a delete: `Removed` answers it too when the snapshots of a removed user could not be
removed, and `LeftDisabled`. All of these have the status 500; it is the text of the
error that tells a rolled back create from a published one. There is one lemma for each answer, and `Maps` ties the mapping to `Serves`.

### 4.3 PanelStore

The inductive invariant conjoins the types with: the holder of the lock is the only
worker with an operation; the repository was opened; the counters on disk cover all
records on disk (`CountersAhead`), and the number an operation is about to write is
above every record of its kind and within the counters once they are saved; services
have distinct numbers. `CountersAhead` is not inductive without the last two: a write
must be known to be covered by a save that happened before it. From it:
`CountersStayAhead`, `NumbersOnce`, `NumbersKept` and `TypesHold`, each under the
assumption `FirstStartsApart`.

`SnapshotsStayBounded` needs to know how many snapshots there are at any number of the
counter, not only after a pruning: `Pruned` says that there are at most
`MaxFiles`, plus one for each number drawn since the last multiple of the period, plus
one period for each failed write or crash so far, and follows an operation from the
save of the counters to its pruning. `PruningKeepsNewest` (`PruneKeepsNewest`) follows
from what the action removes and from the two invariants.

### 4.4 AdminSessions

`TypeCorrect`, `EmailsUnique`, `NoSessionReturns`, `SessionsSpeakForOne`,
`LoginsLimited` and `DenialsAreJustified`: each safety property of the run, for any
number of requests, accounts, tokens and addresses, any window and any burst.

`LoginsLimited` (`RateLimited`) is the hard one. The clock is read before the limiter's
mutex is taken, so an attempt may be counted for an instant that the limiter has
forgotten already. The inductive invariant says of each window, identified by its last
instant: either the limiter still remembers every attempt admitted in it (`Remembered`);
or the clock has passed it, and the attempts admitted in it together with the requests
that read the clock by then and have not been counted yet are at most the burst and the
number of requests less one (`Overtaken`). A window can only leave the first case for
the second when a request with a later reading is counted, which is why one is
subtracted; in the second case an admission takes one request out of the pending ones.
The sums are over sets of instants, so `FiniteSums` proves what is needed of the
library's `SumFunctionOnSet`: its equation, monotonicity, the effect of one
increment, the sum over a subset. The library defines it by choosing elements one by
one; each lemma is proved by taking a smallest set for which it fails.

`NoSessionReturns` (`GoneForGood`) has a second invariant, `Fresh`: the token a login is
about to store is stored nowhere and no other login holds it; it is what makes a
purge or a logout final although touches are still under way.

### 4.5 HysteriaConfig

`SavedShown`, `SavedStable`, `AcceptableAccepted` and `IdleSaveKept`: each property of
`config_form`, for any users, passwords, generated secrets and number of edits.

The state invariant is small (types, and `FromForm`: a file that was just saved is the
rendering of the form by a save that was accepted); the proofs are about the operators.
`Normalize` is computed leaf by leaf; `Drawn` says what each leaf of the merged file
holds and `After` what the parser makes of it, section by section (certificate,
authentication, obfuscation, masquerade, QUIC, the plain leaves), whatever the file held
before the merge. That the composition of normalize, generate, build, merge, inject and
parse is the identity on what was accepted (`SavedShown`) then gives that saving
again is accepted (`AcceptableAccepted`) and changes nothing (`SavedStable`).

`IdleSaveKept` (`IdleSaveKeeps`) goes the other way, from the file to the form and back:
what the sections of certificate, obfuscation and masquerade say reaches the form
(`SaidIsLoaded`), is not among what the managed authentication, normalizing and
generating drop (`ManagedKeepsNormal`, `LoadedIsReady`), so that the sections are written
and the unknown keys in them find their place (`UnknownUnder`). A section that says
nothing the panel knows is dropped with the unknown keys in it; the property is stated
for the others.

### 4.6 PanelJobs

`TypeCorrect`, `OneLateSnapshot` (`LateSnapshots`), `NoOldStateIsLive`
(`LiveAnswersFresh`) and `PollsKeepRecords` (`RecordsKept`), for any number of users,
names, services and clients; both jobs at once, where TLC follows one at a time. The
invariant adds: no visit is later than the moment a poll is about to store; a user for
whom a poll may still write after its deletion has had no late snapshot before
(`LateOnce`, without which "at most one" is not inductive); and what a client asks
systemd about began no earlier than when it asked (`AskedBefore`).

### 4.7 SystemHistory

The inductive invariant says of each counter that a tick is told at most once more than
readings went back, and not yet that often if the reading kept is from before it
(`Bounded`), that nothing is told before a reading is kept (`Untold`), and of each
reading that its clock is not before its counters (`Timed`). `ToldTwiceForCause` is not
inductive alone: it does not say where the next rate begins. The lemmas `BoundedTell` and
`LeftTell` carry the argument: one reading takes the place of another, whichever is
younger. From it: `ToldTwiceForCauseTheorem` and `LostInGapsTheorem`, for any number of
requests and rounds.

### 4.8 ClientExport

What was accepted once under some settings is valid under all (`AcceptedForGood`), by
the cases of a plain profile and of a URI; the invariant carries it through what
handlers have read and are about to store, rollbacks included. Of a link it says that
the stamps of user and link are in the order of the updates. From it:
`ExportsStayTheorem` and `LinksFollowTheorem`, for any domains, settings, overrides and
number of administrators.

`ArtifactsAgreeTheorem` (`ArtifactsAgree`) needs no more of the state than the types: it
is proved of the operators, format by format, that what a client reads from each
artifact of a valid profile is the connection `Meant` by the profile, and that this is
the one `Intended` by the overrides over `HY2_DOMAIN` over the settings.

### 4.9 Assumptions on the constants

Each is an `ASSUME` that TLC evaluates on every run of its module. Three kinds occur:

* a value that stands for "none" is none of the values it stands beside;
* bounds are natural numbers, and sets that are counted are finite (`RequestsAssumption`:
  the limiter's bound speaks of the number of requests in flight);
* what the code guarantees of its inputs: a generated password is not empty
  (`SecretsAssumption`, `randomHex`), the `userpass` map always has somebody in it
  (`ManagedAuthAssumption`, the bootstrap entry), saved settings passed
  `ValidateSettings` (`SettingsAssumption` of `ClientExport`), overrides went through the decoder
  (`OverridesAssumption`). `DomainAssumption` is one that nothing checks (section 2.7).

`FirstStartsApart`, `OneRequest` and `Serial` are no assumptions on constants that the
code justifies: they are hypotheses, written in the theorems that need them.

### 4.10 Only model-checked

* `StartupRepairs`, `RequestsEnd`, `ViewsSettle`, `CacheSettles`: liveness under
  fairness is beyond the prover.
* `HistoryRight`: the page's points are made with `SelectSeq` and `SetToSortSeq`, which
  take an operator as a parameter and are defined by recursion and by a choice among
  permutations. What they compute for sequences of any length needs an induction under
  such a parameter, which the provers do not instantiate.
* The properties of the three runs that fail (section 5) are false.

## 5. Findings

* `access_drift`. `docs/architecture.md:41` says that injecting the managed
  authentication on save and apply prevents drift. Two overlapping requests can
  leave the file with an older list: a settings save lists the users, another
  request disables one and publishes, the save then writes its list. Nothing
  synchronises again until the next change.
* `access_disconnect`. `hy2.go:527` says that a disabled user is not present in the
  server's configuration. If the client goes away after the record was changed, the
  synchronisation fails on the cancelled context, and the rollback, under the same
  context, fails as well: the record says disabled, the file keeps the user.
* `config_alias`. The reader of the file takes the speed test from `speedTest` or
  `speedtest` (`hysteria_config_manager.go:652`); the schema knows the first only. A
  save with the speed test off therefore keeps a `speedtest: true` as an unknown key,
  and the next load shows the flag on again, against what
  `hysteria_config_manager_test.go:363` expects of a save without it.

## 6. Not modelled

CSRF and header middleware (checks of a single request), the decoding of the server's
JSON and of `/proc` (input), password hashing and tokens (fresh values and equality),
the environment, the web interface, the installer and the certificate script. Of the
modelled components: listing and searching users, kicking a user, the header of usage on
a subscription (they read, or pass a call on); authentication by `http` and `command`;
ranges of ports, bandwidth, QUIC, SOCKS5 and HTTP sections of a client's file;
percent-encoding and the drawing of QR codes; counts of sockets and of memory. See the
notes of the components in `PROJECT.json`.

## 7. Plan

In order of what matters to an administrator:

1. `HysteriaAccess`, `AccessPromise` and their proofs (done).
2. `PanelStore` and its proofs, `AdminSessions` (done).
3. `HysteriaConfig` (done).
4. `PanelJobs`: the two polls beside handlers that change what they read; the stored
   state of a service settles once the service does (done).
5. `SystemHistory`: the readings behind the rates, and the grouping of the history
   against a reference definition, with proofs (done).
6. `ClientExport`: what a user is given, over time, with proofs (done).
7. Proofs for `AdminSessions`, `PanelJobs` and `HysteriaConfig`, and the refinement of
   `AccessPromise` (done).
8. `RepositoryLock`: the mutex and the file lock with the context checks around
   them, implementing the single lock the other modules assume.
