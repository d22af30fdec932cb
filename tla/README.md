# casspeed in TLA+

casspeed is a self-hosted speed-test server: one Go process, a SQLite file, an
HTTP server with a WebSocket per running test, and an admin panel. This
directory models the parts of it whose correctness depends on the order in
which things happen. TLC checks each model on a small instance, and TLAPS
proves most of the safety properties for every value of the constants.

Paths below are relative to the Go source tree (`src/` of the repository).

## 1. Inventory

| Component | State | Operations | Interacts through |
|---|---|---|---|
| Speed-test session (`server/handler/speedtest.go`, `server/service/speedtest.go`) | a channel of ten progress updates, four goroutines, the request's context, one row | `TestStatus`, `RunTest`, `testDownload`, `testUpload` | channel, WebSocket, store, context |
| Rate limiter (`server/server.go`) | `ipTestCount` under `ipMutex` | `rateLimitMiddleware` | wraps every handler |
| Admin setup (`admin/setup.go`, `admin/setup_handler.go`) | `setupToken`, `setupCompleted` in memory, `setup_complete` and `admins` rows | `SetupCompleteHandler`, token functions, start of the process | store, memory shared by all handlers |
| Admin login and sessions (`admin/admin.go`) | `failed_attempts` and `locked_until` of an account, session rows, cookie | `Login`, `Logout`, `RequireAuth`, the pages and what they link to | store, the browser's cookie jar |
| URL and header middleware (`server/middleware/security.go`) | none | normalise, refuse `..`, set headers | in front of every route: its redirects meet those of the handlers |
| Result store (`server/store/sqlite.go`) | the tables, one connection | single SQL statements | called by all handlers; closed by `Shutdown` |
| User API and tokens (`server/handler/user.go`, `auth.go`) | user, device, token and session rows, the `session` cookie | register, log in, log out, list, add, remove | store |
| Share images (`server/handler/share_image.go`, `speedtest.go`) | `share_views` of a row | page, PNG and SVG of a shared result | store |
| Server lifecycle (`main.go`, `server/server.go`) | listener, signal channels, store handle | `New`, `Start`, `Shutdown` | all of the above, PID file |
| PID file (`pid/`) | one file | `CheckPIDFile`, `WritePIDFile`, `RemovePIDFile` | other processes of the program |
| Configuration and mode (`config/`, `mode/`) | `server.yml` | load, put flags and environment over it, validate, save once | other starts of the program |
| Paths (`paths/`) | directories | `Detect`, `Ensure` | startup, backup and restore, which ask for them with different overrides |
| Update (`update/`) | the binary, its backup, the download | check, download, verify, replace | the file system; other updaters |
| Backup (`backup/`) | plain archive, encrypted archive, decrypted archive, the data directory | archive, encrypt, clean; decrypt, extract | the file system; a server that writes there |
| Scheduler (`scheduler/`) | tasks, counters, cron jobs | add, enable, disable, run, retry, stop | goroutines; not started by `main` |
| Web client (`server/static/js/app.js`) | `isRunning`, the current socket | `startTest`, message and close events | the session's updates |
| Tor, GeoIP, TLS, metrics, email | a mutex-protected struct each | start, look up, record | not wired into the server, or read only |
| Logging, debug, theme, i18n, swagger, graphql, service manager, CLI client | read once, or none | pure functions and I/O | none |

Where the difficulty is, and what makes each component correct:

* **Session.** The tickers are not waited for, the channel is closed by one of
  its several senders, its bound blocks them, the receiver may leave, and the
  INSERT shares a context with the handler that may have returned. Correct
  means: updates in order, no result told before its INSERT returned, a panic
  of a late ticker loses nothing, goroutines end.
* **Rate limiter.** Check and increment by concurrent requests, a slot given
  back on every way out. Correct means: the count is the number of requests
  inside, within the limit, starts apart, full only for a time.
* **Setup.** Four steps, three places for the same fact, and a process that can
  die between any two. Correct means: success is durable, no lock-out, no
  token after completion, one admin unless something went wrong.
* **Login.** Read, think for tens of milliseconds, write back. Correct means:
  locks are earned, and they end.
* **Lifecycle and PID file.** Shutdown order, a check followed by a write, exit
  paths that skip the clean-up. Correct means: one instance, no stale file in
  its way, no row lost by a graceful stop.
* **Admin panel.** Its addresses are written down in four places: routes,
  redirects, links, scripts. The cookie that is cleared is not the one that was
  set. Correct means: redirects end, nobody is let in with a session that was
  logged out or has run out, the right token leads on.
* **Store and user API.** Handlers of two statements, UNIQUE columns, one
  connection, answers that overtake each other. Correct means: views are
  counted, a session is its owner's, a cookie is alive, the connection comes
  back.
* **Scheduler.** The task record is shared by cron, manual runs and retries.
  Correct means: bounded retries, a disabled task does not run, an enabled one
  does.
* **Startup, update and backup.** Processes that share files and can be killed
  between any two operations on them. Correct means: some working binary is
  left, what is reported as done is done, and no start or command fails because
  of what an earlier one has left.
* **Web client.** Two updates with stage `complete`, and events of the previous
  socket. Correct means: the share code shown is the one of the test that ran.

`PROJECT.json` lists the components one by one, and under `hazards` each of
these at its line.

## 2. Modules

### TestRun and SpeedTestSession

`TestRun` is the promise: the outcome of the INSERT is decided once; only then
may the client be told its test id and share code, while its connection is
open; a row lost to a *cancelled* request belongs to a connection that had
closed. `SpeedTestSession` is the code, and `ImplementsTestRun` is the
refinement (`outcome <- row`, `told <- Told`, `open <- handler # "returned"`,
`dead <- crashed`).

| Code | Model |
|---|---|
| `progressChan`, capacity 10 | `log` (everything ever sent), `rd` (received), `Room`; capacity `Cap` |
| the producer goroutine: `RunTest`, then the INSERT, the final update, `close` | `pc`, actions `Emit`, `FinishStage`, `InsertRow`, `CloseChannel` |
| `endTime` of a stage | `over`, action `StageDeadline` |
| the ticker goroutines of `testDownload` and `testUpload` | `ticker`, actions `Tick` (sample or return), `SendTick`, `SendOnClosed` (panic) |
| `for update := range progressChan` and `WriteJSON` | `handler`, `got`, actions `Receive`, `WriteOK`, `WriteFails`, `Drained` |
| the peer | `client`, action `ClientMoves`: reads, stalls, resumes, disappears |
| `middleware.Timeout` and the cancellation at the handler's return | `ctx`, `ContextDeadline`, `HandlerReturns` |
| `CreateSpeedTest` | `row`: stored, refused by the store, or failed with the context's error |

A ticker that is stopped leaves an open, empty channel behind (Go 1.23 and
later; go.mod says 1.24), so no tick arrives once the stage's function has
returned. A refused row stands for a store closed by `Shutdown` and for a
second row with the empty `share_code` (the column is UNIQUE). The hijacked
connection has no write deadline, so a stalled client blocks `WriteJSON` until
it resumes or disappears.

Measured speeds, message texts and the workers' byte counters are left out.

### RateLimiter (MCRateLimiter)

One action per way through the middleware: `Pass`, `Admit`, `Refuse`, `Return`.
A request's key is the text of `RemoteAddr`: the connection itself (address and
port), or the client's address when a proxy header made `RealIP` replace it.
`Limited` stands for the two literal paths of the code and `TestWS` for the
route the tests are mounted on. The clock counts in units in which
`MinInterval` is given; `LongAgo` is Go's zero time.

### AdminSetup

`SetupCompleteHandler` as the steps between which others can run: `Check`,
`CreateAdmin`, `MarkComplete`, `SaveComplete`. `Start` is `server.New` (loads
the flag) and `main` (generates a token if it is not set); `Stop` is any death
of the process. A step that talks to the store may fail. `disturbed` is a
history variable: a step failed, a process died under a request, or a request
started while another was inside.

### AdminLogin

The row of one account and any number of clients, each with one request at a
time: `Lookup` reads the row, `JudgeRight`/`JudgeWrong` compare the password,
and what follows (`CountFailure`, `LockAccount`, `ClearFailures`,
`OpenSession`) is computed from what was read. Errors the code ignores are
alternatives that leave the row alone. `locked_until` is kept as the time left.

### Scheduler

One task ID, and the `Task` objects that are added under it one after the other.
`current` is `s.tasks[ID]`, `jobs` the objects whose closure gocron runs; a run
(`at`, `of`) keeps the object it was started with. `AddTask`, `RemoveTask`,
`EnableTask`, `DisableTask`, `Start` and `Stop` are the methods of that name. A
run begins by `CronTick` or `RunTaskNow`, looks at `Enabled` (`Enter`), and ends
with `Succeed` or `Fail`; a failure that has retries left goes on as the
sleeping `retryTask`, which `Wake` lets look at `FailCount` and call `runTask`.
Both reads are made without the mutex, so they are steps of their own.
`RemoveTask` does nothing about runs and sleepers, nor does `Stop`: they end by
themselves or not at all, which is what two of the liveness properties are
about. `FailCount` beyond `MaxRetries` makes no difference and is not counted.
An ID that is taken or not found, or a schedule gocron refuses, changes nothing.

### Lifecycle

Any number of processes of the program on one machine, each started at most
once. `pc` is where `main` is: `CheckPIDFile` and `WritePIDFile` (`ReadFile`,
`Judge`, `RemoveStale`, `CreateFile`, `FillFile`, one file operation each),
`Notify`, `OpenStore` (`server.New`), `AwaitSignal` (`Start`'s select), then
`CloseStore`, `CloseListener`, `DrainDone` (`Shutdown`) and `RemovePIDFile` (the
deferred function). `Bind` is the goroutine in `ListenAndServe`; the port is the
machine's. `Die` is a kill, a crash, or `os.Exit` after a failed step of the
start; `ListenFailed` and `DrainTimeout` are the other two ways to `os.Exit`.
All three leave the PID file behind. PIDs of ended processes are given out
again. `linked` tells whether the file a process has open for writing still has
a name: a reader that finds it empty removes it as corrupt. The processes of one
user are meant: one of another user's answers the signal with EPERM and counts as
not running (pid_unix.go:23).

Two starts that overlap can both get through `WritePIDFile`, so the file's
properties are stated for starts that do not (`calm`); the port then stops one
of the two, which leaves a file with either PID. A signal that comes after
`main` has registered its own channel and before `Start` has registered another
is swallowed: it changes nothing, and `Signal` is about later ones.

### ResultStore and PublicApi (MCPublicApi)

`ResultStore` is the store as far as the public handlers use it: the tables are
sets of rows, a statement is an operator that has its constraints as conjuncts,
and `conn` is the one connection, which only a query of many rows keeps for more
than a step. `PublicApi` is the handlers. A request is `idle`, `asked`, `found`
(between the first and the second statement of a login or a view), reading
`rows`, or `done` with its answer under way; `Ask` chooses what it asks for.

| Code | Model |
|---|---|
| `Register`, `CreateDevice`, `DeleteDevice`, `CreateToken`, `RevokeToken`, the INSERT of a test | `Register`, `AddDevice`, `DropDevice`, `AddToken`, `RevokeToken`, `StoreTest` |
| `Login` of `auth.go`: `GetUserByUsername`, the password, `CreateSession` | `FindUser`, `WrongPassword`, `OpenSession` |
| `Logout` of `auth.go` | `EndSession`; the cookie in `Answer` |
| `GetShare`, `GetSharePNG`, `GetShareSVG` | `FindShare`, `CountView` |
| `ListDevices`, `ListTokens`, `GetHistory` with `defer rows.Close()` | `OpenRows`, `CloseRows` |
| one SELECT and an answer | `Read` |
| a bad body, a failed validation | `Reject` |
| any failed statement | `Fails` |

What the model shows of the code and no property is about: the routes under
`/users` have no `{id}` (server.go:203), so what asks for it gets the empty
string, a profile is never found and devices and tokens belong to nobody
(`Nobody`). The foreign keys of the schema are not enforced, as SQLite does not
unless asked. Nothing reads the expiry of a user's session.

### AdminSite (MCAdminSite)

The panel as a browser with several tabs and one cookie jar meets it. `Routes`,
`Offers` (links, forms and scripts of a page) and the `RedirectTo`s of handlers
are the three lists of addresses, each translated from where it is written;
`AdminPath` is the configured path, which only the first of them follows. A tab
is resting on a page or loading an address; `Normalize`, `NoRoute` and the
handlers (`LoginPage`, `LoginFails`, `LoginSucceeds`, `Logout`, `SetupToken`,
`SetupWizard`, `SetupComplete`, `TurnAway`, `Admit`) are what the server does
with it, `Type`, `Follow` and `TurnPage` what the user does. `left` is what is
left of a session's `expires_at`. `RequireAuth` is two steps, the SELECT
(`Admit`) and the UPDATE of the activity with the page (`TouchAndShow`).
`AdminLogin` has the login in its statements and `AdminSetup` the setup; here
each is one step.

What it shows: after a login, `/server/admin/` is redirected to `/server/admin`
by the normalisation, which is the login page, so the dashboard's route is never
reached; the links of the settings page and the setup pages' forms lead to
addresses without a route; a logout clears a cookie of path `/server/admin`
while the login set one of path `/`, so the browser keeps the cookie and only the
deleted row keeps it out (`NobodyOutstays`) — and if that DELETE fails, nothing
does.

### Paths, Commands, Updater, Backup, Startup, Installation (MCInstallation)

`Installation` is the files of one machine under any number of processes of the
program. Each is one command of `main`; `Commands` is what they have in common:
`at` (the step a process is at), `hurt` (an operation of the system has failed
it) and `clash` (it shared a file's name with another). `Die` kills a process
between any two steps, and every step that reads or writes has an alternative in
which that fails (`Fault`).

| Code | Model |
|---|---|
| `paths.Detect`, `Ensure`, the tables of the systems | `Paths`: `Detect`, `Ensured`, `MkdirAll`, one operator per table |
| `main` from its flags to a running server: `mode.Detect`, paths, `config.Load`, overrides, `Validate`, `Save`, `WritePIDFile`, `server.New` | `Startup`: `DetectFlags`, `Ensure`, `Load`, `Validate`, `Save`, `Empty`, `Fill`, `WritePIDFile`, `OpenDatabase`; then `ServeAndWrite`, `StopServing` |
| `CreateBackup`, `createArchive`, `encryptFile`, `cleanOldBackups` | `Backup`: `CreateTar`, `ListFiles`, `WalkFile`, `CloseTar`, `Encrypt`, `Seal`, `cleanOldBackups`, `ReportBackup` |
| `RestoreBackup`, `decryptFile`, `extractArchive` | `ChooseBackup`, `Decrypt`, `WriteDec`, `OpenDec`, `ExtractFile`, `CopyFile`, `ReportRestore` |
| `CheckForUpdates`, `downloadBinary`, `verifyBinary`, `replaceBinary` | `Updater`: `CheckForUpdates`, `CreateTemp`, `Fetch`, `VerifyBinary`, `Executable`, `MoveAside`, `CreateBinary`, `CopyBinary`, `Undo`, `Tidy` |

Names and files are told apart where the code depends on it: `bin` maps names to
binaries, and a process goes on running a binary (`exe`) that has been moved or
has lost its name. `os.Executable` and the refusal to open a running file for
writing are as on Linux. A directory walk reads the directory first and the
files after it; a file is created empty and filled in a later step.

What the model shows of the code:

* In a container the backups are in the data directory (paths.go:289), so the
  walk meets the archive it is writing. The first backup always fails on it
  (`archive/tar` refuses more bytes than the header said) and leaves its plain
  `.tmp`; a later one fails or not with what is still in the writer's buffers.
* Any failure of the walk, and a kill, leaves the plain archive
  (backup.go:47). No property claims otherwise.
* The deferred `Close` calls of the archive (backup.go:86) write its last bytes
  and drop their errors, so a truncated archive can be encrypted and reported.
  AI.md:36801 and 36819 ask for a verified backup; there is no verification. The
  history variable `lost` marks the case.
* When the clock has been set back, the newest backup does not have the last
  name and `cleanOldBackups` may remove it first.
* Downloads are named for the second (update.go:137): an updater may empty,
  replace or remove what another has verified. `clash` marks it.
* Updates that overlap. `os.Executable` (update.go:178) gives a name, and the
  rename that follows (update.go:187) takes whatever has that name by then. Let B
  have read the name, and A move the binary aside and create an empty one in its
  place: B moves that one over the only good backup. If both die there, two
  updaters, with a download each, have left no binary that works. `stray` marks
  that a binary was renamed which its updater does not run. The same is left when
  an updater is started from a binary whose own updater has still to remove the
  backup (`nested`): that removal takes the backup of the second.
  `LoneUpdateIsSafe` says that updates which do not overlap leave a working
  binary, and `BinarySurvives` that the two which do leave one too, but for the
  marked cases; it says nothing once three have met. TLC, with two processes that
  only update, finds a state without a working binary for each mark that is
  dropped, and none with three processes when only the limit of two is.
* The mode bits of a new binary are set by name, from a download that is found by
  its name (update.go:237, 242). When either name is gone the copy has failed and
  the backup is moved back; were the error ignored, two updaters could leave no
  binary that works.
* Two first starts may both find no `server.yml` (main.go:238) and both write it
  (config.go:282), one over what the other has written.
* `MODE=dev` is taken by `mode.Detect` and refused by `config.Validate`;
  `DATABASE_DIR` moves the directory that is created, not the one `server.New`
  opens; the first start saves its flags in `server.yml`; `--maintenance`
  ignores every directory override. These are the reasons in `Reason`.
* `windowsPrivilegedPaths` is never chosen: `isRunningAsRoot` is false on
  Windows.

## 3. What TLC checks

| Run | Instance | Result |
|---|---|---|
| `session` | `Cap` 2, two ticks per stage | 3 invariants, the refinement, 2 liveness properties hold |
| `session_told` | `Cap` 10, one tick | `ToldIsStored` fails: the client holds codes of a row that was not stored |
| `rate_limiter` | three connections of one client, limit 2, interval 1, clock to 2 | 3 invariants and `FullIsTemporary` hold |
| `rate_limiter_perip` | the same | `TestsPerIp` fails: three tests of one address run at once |
| `admin_setup` | three requests, two usernames, three starts | 4 invariants and `DoorStaysShut` hold |
| `admin_login` | two clients, threshold 3, lock of 2 ticks, five wrong passwords | 2 invariants and `RightPasswordGetsIn` hold |
| `admin_site` | two tabs, two session ids, sessions of two ticks | `SiteTypeOK`, `NobodyOutstays` and `RedirectsEnd` hold |
| `admin_site_setup` | one tab, one session id | `TokenLeadsToWizard` fails: the right token gets a 404 |
| `store` | two requests, two names, three random ids, one view of a result | 5 invariants hold |
| `scheduler` | two task objects, two goroutines, three retries | 3 invariants, `OnlyCurrentStarts` and 2 liveness properties hold |
| `lifecycle` | three processes, two PIDs, one request in flight | 3 invariants and `TermStops` hold |
| `installation` | two processes of any command, in a container or not, two files with two values, two backup names of which one is kept, two releases, four names for a binary, two for a download, five settings | 2 invariants, `ReportsAreTrue` and `FailsForAReason` hold |

`store` has 1.4 million distinct states, `installation` 1.1 million, `admin_site`
94 thousand; each run takes less than two minutes.

Why the bounds are enough to be interesting. Two places and two ticks fill the
channel at every point of the script, let a ticker be blocked across the end of
its stage and across the close, and leave every send with a receiver that is
ahead of or behind it. Three connections exceed a limit of two; the clock
passes the interval twice. Three requests can overlap pairwise while a third
comes later; three starts include one after a recovery. Two clients suffice for
a lost update, and five wrong passwords allow a lock, its end and the lock that
one more wrong password brings. Two tabs let one log out between the two
statements of another's request, and two ids let a session be opened while the
cookie of another is kept. With two requests and three ids a name is registered
twice, a login is overtaken by a registration or a logout, and two visitors read
the same row; for more of them there are the proofs. Two goroutines let a cron run and a retry of
one object, or a retry of a removed object and a run of its successor, go side
by side, and with three retries a task can fail twice and have one left.
Three processes with two PIDs have two of them start, serve or die side by side,
and the third come after a kill with a PID that is in the file or is not. Two
processes of an installation are every pair of commands, one after the other,
overlapping, or the second after the death of the first at any of its steps;
two backup names with one kept have a backup cleaned away.
Two updaters with two names for a download reach every mark that `BinarySurvives`
excepts; the theorem `TwoQuietUpdatersAreSafe` is about any number of processes.

Bounds that are not in the code: `MaxTicks` (50 in 10 s at 200 ms),
`MaxTime`, `MaxStarts`, `MaxWrong`, the number of `Run`s,
`MaxBusy`, the numbers of `Process`es, `Proc`s, `Request`s, `Tab`s and `Id`s,
`MaxViews`, `Stamps`, `Second`, `Depth`, that an operator writes to
`server.yml` once and while nothing runs, and that a task object is
added once. The others are the code's
parameters with smaller values (`Cap` 10, `Threshold` 5, `LockTime` 15 min,
`MaxConcurrent` 3, `MinInterval` 5 s, `Life` 30 days, `MaxBackups` 4).

`store` takes ids, names and requests for alike, and `installation` processes,
files, values and seconds: only safety properties are checked there, and no
definition depends on which of them is which (the initial values that are
chosen are replaced before they are read).

`session`, `admin_setup`, `scheduler`, `lifecycle` and `installation` do not
check deadlock: a session is over at some point, the bounded requests, starts
and processes run out, and a stopped scheduler has nothing to do. The others
check it.

### Fairness

* `SpeedTestSession`: weak fairness of the producer and the handler (a goroutine
  that can run does) and of the deadline of a running stage (the clock). Nothing
  is assumed of the tickers, the client or the context. Go serves the senders
  blocked on a channel in order, and only finitely many ticks compete, so weak
  fairness is enough.
* `RateLimiter`: a request on a limited path returns. No route is mounted on
  these paths, so what is behind them answers at once. Nothing is assumed of
  other requests or of the clock.
* `AdminLogin`: every handler step and the clock are weakly fair. Strong
  fairness is assumed of a client that keeps trying with the right password and
  of the store not refusing every session; the property is about such clients.
* `AdminSite`: the server answers a request it has been sent, and a browser
  follows a redirect. Nothing is assumed of the user or the clock.
* `Scheduler`: goroutines run, sleepers wake, a handler returns (its context ends
  after five minutes), and the schedule of a job is due again and again. Nothing
  is assumed of those who add, remove, enable, disable or stop.
* `Lifecycle`: `main` and the listener's goroutine run. Requests need not end:
  `HTTP.Shutdown` has its own deadline.
* `PublicApi` and `Installation` assume none; their properties are safety.

### Disagreements between the code and what it says of itself

Three are runs that fail:

1. **A result that is told and not stored** (`server/handler/speedtest.go:79`).
   The error of `CreateSpeedTest` is dropped. IDEA.md:64 and 78 promise that
   share codes are valid and results can be retrieved.
2. **The limit is not applied to tests** (`server/server.go:619`). The paths it
   compares with are not the ones the tests are mounted on, and the key
   contains the port. config.go:123 says per IP.
3. **The setup token leads to a 404** (`admin/setup_handler.go:251`). The page
   posts to `/admin/setup/token`, where nothing is mounted. AI.md:31074 says it
   redirects to the wizard. What `SetupTokenHandler` redirects to, and what the
   wizard's script posts to, is not mounted either.

Three more have their property in the module but no run of their own; TLC
refutes each when it is named in the configuration:

4. **A producer is left behind** (`server/handler/speedtest.go:94`;
   `NoStrandedProducer` of `SpeedTestSession` with `Cap` 10). When
   `WriteJSON` fails, the handler returns and nobody drains the channel.
   AI.md:551 asks for capped goroutines and leak-free code.
5. **A setup token although an admin exists** (`main.go:290`;
   `TokenOnlyWithoutAdmins` of `AdminSetup`). AI.md:2269 says
   the token is generated if no admins exist.
6. **A stale PID file that blocks** (`pid/pid.go:31`; `StaleNeverBlocks` of
   `Lifecycle`). A process that is given
   the PID of the killed one whose file it finds takes itself for the running
   instance and does not start. In a container the PIDs are the same after
   every restart and the file is on the data volume. AI.md:10937 and 11101 ask
   that a stale file is removed.

## 4. What is proved

All theorems hold for every value of the constants that satisfies the ASSUMEs:
`Cap` at least 1 and `MaxTicks` natural; a finite set of connections, a limit of
at least 1 and a natural interval (what `Config.Validate` accepts);
`MaxStarts` natural; `Threshold` and `LockTime` at least 1; `MaxRetries`,
`MaxBusy`, `MaxViews` and `Depth` natural; the empty string not an id, a name or
a request; some release and some second, and what is no file, no release or not
a process told apart from those that are; some file and some name for a backup,
of which at least one is kept (`BackupAssumption`); settings as `main` reads them,
any flags, environment and directories (`StartupAssumption`); any of the systems
that `paths.go` has tables for, in a container or not (`HostsAssumption`); and
typed addresses that are addresses (`TypedAssumption`).

| Module | Theorems | Along which argument |
|---|---|---|
| SpeedTestSessionProofs | `TypeCorrect`, `UpdatesInOrder`, `AtMostOneStraggler`, `NeverToldTooSoon`, `CrashLosesNoRow`, `Refinement` | `SessionInv`: nothing is sent before the producer reaches the point that sends it (`SentByPc`); a ticker samples only while its stage runs, and one that has sent a straggler is not about to send again (`TickersInv`); the context is cancelled only by the handler's return and the INSERT's outcome is known from its step on (`OutcomeInv`) |
| RateLimiterProofs | `LimiterTypes`, `SlotsAreAccounted`, `NeverOversubscribed`, `StartsAreSpaced` | `LimiterInv`: `activeTests` is the cardinality of the holders, so a slot given back is one that was taken; `lastTest` is never behind the start of a request inside (`EntriesInv`) |
| AdminSetupProofs | `SetupTypes`, `SuccessDurable`, `LockoutImpossible`, `TokenGone`, `OneAdminWhenCalm`, `DoorIsShut` | `SetupInv`: where a request must have been (`RequestsInv`); memory is never behind the database while the process runs (`FlagsInv`); an undisturbed setup has one request inside at most, which found no account (`CalmInv`) |
| AdminPanelProofs | `LoginTypes`, `LocksAreEarned`, `SiteTypes`, `NobodyStaysTooLong` | `LoginInv`: every number read from the row, in the row or in a request, is bounded by the wrong passwords since the row was cleared (`CountsInv`). `SessionsInv`: a session that has time left was not ended, and what it has left and what it has lived are together no more than `Life` |
| SchedulerProofs | `SchedulerTypes`, `RetriesAreBounded`, `NoRetryIsLost`, `StartsAreCurrent` | `SchedulerInv`: every retry started has raised the failure count (`RetriesInv`); gocron holds no job but that of the registered object (`JobsInv`); a run turns back only for a task that was disabled or has not failed (`EnabledInv`), because only a task that was added is ever at work (`UsedInv`) |
| LifecycleProofs | `LifecycleTypes`, `InstancesKeptApart`, `FileIsTheServers`, `NoStaleFile` | `LifecycleInv`: while starts do not overlap, a process that has found the way free is alone, and one that has read the PID of the instance still has it when it judges it (`StartInv`) |
| PublicApiProofs | `ApiTypes`, `NoViewIsLost`, `SessionsAreTheirOwners`, `CookiesAreLive`, `ConnectionComesBack` | `ApiInv`: an id that has not been drawn is in no row and was never counted (`FreshInv`); the account a login has found is still there when it opens the session (`RequestsInv`, `AccountsInv`); a session on its way to the browser is in the store and was never in the cookie, so no logout can have been sent for it (`LoginsInv`) |
| InstallationProofs | `InstallationTypes`, `UpdaterTypes`, `LoneUpdatesAreSafe`, `TwoQuietUpdatersAreSafe`, `ReportsHold`, `FailuresHaveReasons` | see below |

`Installation` takes six invariants, of which `WholeInv` is the conjunction of
the first five.

* `TypeOK` needs that the directories that were made are a tree, and so that the
  tables, the overrides and `MkdirAll` give paths whose prefixes are there.
* `InstallationInv`: while updates do not overlap, the binary moved aside works
  for as long as the new one may not and the download is still the one that was
  verified (`WorkInv`); no binary has two names, and one that a process has not
  created yet has none (`NamesInv`); an updater that has not moved its binary
  finds a working one, or nothing, under the name its own had last
  (`SourceInv`), which is the name it has read (`WorkInv`), because nobody who
  is at its check runs a binary whose name is being written (`BesideInv`).
* `ArchiveInv`: two that work with one backup know of it (`SoleInv`), so what a
  backup has put into its archive, and what a restore has read from one, is
  there for its next step (`BackupWork`, `RestoreWork`); the last backup is never
  one to clean (`LastInv`).
* `ReleaseInv`: an updater that has met no other holds what it downloaded, and
  puts it where it found the binary (`UpdateWork`).
* `StartInv`: what a start has loaded is valid unless there is one of the
  reasons that `Reason` lists, and the directory of the database is there once
  `Ensure` is past (`ServeWork`).
* `SurvivalInv`: two updaters at most are past their checks (`MeetInv`), each with
  a download of its own (`OwnTempInv`); whoever runs, runs a version, and nobody
  runs what is being written (`CodeInv`). When the second moves its binary, the
  first still has its names to itself (`AloneInv`), so the second moves another
  binary, from another name. From then on their names overlap in one way only,
  the backup of one being the name the other installs to (`JointInv`): each of
  the two has its name to itself unless the other has moved a binary there, and
  its backup unless the other installs there. That leaves a working binary that
  is not among the names the next step of either takes away (`KeepsOne`).

None of the safety properties is inductive by itself; each module's header says
what the strengthening adds and why. Some theorems (`AtMostOneStraggler`,
`CrashLosesNoRow`, `SlotsAreAccounted`, `TokenGone`, `NoStaleFile`) are about
definitions no run names: they are consequences or parts of the invariants, for
which the proof is the check.

The proofs have corrected the model in three places. `Reason` looked at the
settings of another start than the one that failed, which was so only because
TLC gives every process the settings it tries first. The cases of `paths.Detect`
overlapped for a container, and TLC took the first; in the code, and in the model
now, the container is looked at first. And `BinarySurvives` did not except `stray`:
the proof could not show that what an updater renames is the binary it runs, and
TLC then found the state that two updaters leave.

Only model-checked: the liveness properties (`SteadyClientIsTold`,
`AbandonedHandlerEnds`, `FullIsTemporary`, `RightPasswordGetsIn`, `RedirectsEnd`,
`RemovedComesToRest`, `EnabledRuns`, `TermStops`), which need
fairness and ENABLED, out of the prover's reach here. Every invariant and every
action property of the passing runs is proved. The failing properties are shown by
their counterexamples. `TablesAssumption` of `MCInstallation` is evaluated by TLC
for all systems; `ReportsHold` and `FailuresHaveReasons` do not rest on it.

## 5. Plan

The components whose state outlives a request or a process are modelled. What is
left, in this order:

1. The safety half of the liveness properties, where it says something of its
   own: that a chain of redirects has a bound (`RedirectsEnd`), and that what a
   step waits for is never held by one that has ended.
2. The page's script, composed with the updates that `SpeedTestSession` sends:
   the share code shown is the one of the test that ran.

## 6. Not modelled, and why

* The page's script (`app.js`). What reaches it, and in which order, is
  `SpeedTestSession`'s; what it makes of a second `complete` or of a late close
  event is a matter of one browser.
* HTML, JSON, images, logging, styles, translations, unit files, metrics and
  debug output, the API documentation, the command-line client: pure output, no
  order to get wrong.
* Password hashing, random tokens, encryption: data the properties do not tell
  apart; a token is identified by the start that generated it, a backup's key is
  right or wrong.
* Tor, GeoIP, TLS, metrics, email: not wired into the server. Their hazards are
  local and sequential.
* SQLite itself: one connection, so every statement is one step that succeeds or
  fails. Store methods nothing calls (`UpdateSpeedTest`, `DeleteUser`,
  `DeleteExpiredSessions` and others) are left out, and so is `AuthMiddleware`,
  which is mounted nowhere.
* Settings other than the mode: `Startup` lets the mode stand for what a flag or
  the environment puts over `server.yml`, and `--data` and `DATABASE_DIR` for
  the overrides of directories. What a container's archive holds of the backup
  directory is not told apart.
* Power cuts: nothing is synced, but a killed process loses no write.
* The PID file on Windows, where `isProcessRunning` passes a PID to a call that
  takes a handle and so sees no running instance; the replacement of a running
  binary there.
* Connections hijacked for WebSockets, which `HTTP.Shutdown` does not wait for: a
  running session ends with its process.
* Clock adjustments: Go compares monotonic readings in the limiter and the
  session; the lock of an account is wall-clock time and assumed to run forward.
  Names of backups are drawn in any order.
