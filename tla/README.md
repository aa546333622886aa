# A TLA+ verification project for the Cloud Assistant agent

The agent (`aliyun_assist_client`) runs on a cloud instance, learns of tasks from
the server, executes them in a pool of workers, schedules periodic ones, keeps
sessions open, enforces state configurations, watches over plugins and over its own
load, and replaces itself when an update is due. The modules here model the concurrent
and the crash-prone parts of that program; TLC checks them on small instances, and TLAPS
proves the main safety properties, and two refinements, for instances of any size.
Paths are relative to `src/`.

## 1. Inventory

| Component | State it keeps | Operations | Talks to | Module |
|---|---|---|---|---|
| Dispatch (`agent/taskengine/scheduletask.go`) | `_periodicTaskSchedules` under its lock | run and stop jobs, schedule, cancel | factory, pool, timers, tasks | `TaskEngine`, `CronTask` |
| Task factory (`taskfactory.go`) | map of live invocations by task id, under a mutex | add, get, contains, remove, "anything running?" | dispatch, callbacks, workers, updater | `TaskEngine`, `FetchUpdate` |
| Task pool (`taskpool.go`) | a channel of 50 task functions, 10 workers | `RunTask` (blocks when full), `slave` | runs `Task.Run` | `TaskEngine` |
| Task (`basetask.go`, `taskengine/host`, `util/process/process.go`) | `canceled`, output, command, script file | `Run`, `Cancel`, `IsCancled`, reports | server over HTTP, the operating system | `TaskEngine`, `TaskOutput`, `HostScript` |
| Task in a container (`taskengine/container`, `taskengine/docker`, `taskengine/cri`) | the processor and what it found, the connection, the command | detect, check, execute, inspect | docker and the runtimes behind CRI | `ContainerTask` |
| Timer (`timermanager/timer.go`) | channels `quit`, `refreshTimer`, `skipWait`; `isRunning` | `Run`, `Stop`, `RefreshTimer`, `SkipWaiting` | one goroutine per timer, one per callback | `Timer` |
| Schedules (`timermanager/*scheduled.go`, `thirdparty/cronexpr`) | creation time and period, or instants | `nextRun`, `NoNextRun` | timer | `Schedules`, `CronExpr` |
| Fetch (`scheduletask.go`) | `FetchingTaskLock`, `FetchingTaskCounter`, `_startupFetched`, an enabling flag | `Fetch`, `EnableFetchingTask` | server, dispatch, sessions, files | `FetchUpdate` |
| Sent files (`taskengine/sendfile.go`, `fetchtask.go`) | files, their modes and owners | request, check, write, chmod, chown, answer | fetches, server | `SendFile` |
| Updater (`agent/update`, `common/update`) | `_criticalActionRunning`, CPU flag, the version directories | check, prepare, `executeUpdateScript` | the fetch lock and counter, factory | `UpdatePrep`, `FetchUpdate` |
| Channels (`agent/channel`) | active channel, gshell and websocket connections, a cool-down, a ring of message times | start, choose, switch, `OnRecvMsg` | start a Fetch, kick handlers | `ChannelMgr`, `KickLimit` |
| Server (`common/requester`, `common/apiserver`, `util/hostfinder.go`) | the selected provider, domain, region and its file, certificates | `GetServerHost`, `GetRegionId`, `HttpGet` | an executable, files, the network | `ApiServer` |
| Sessions (`taskengine/session*.go`, `agent/session`) | session factory, cancel flag, connection of the session, connection to the target | start, stop, reconnect, forward | websocket, shell and port plugins | `SessionTask`, `SessionChannel`, `PortForward` |
| Session client (`agent/session/plugin`) | the channel that ends it, its connection, `real_connected`, the first chunk of input | read, write, resize, end each other | agent's data channel, terminal or local connection | `SessionClient` |
| State manager (`agent/statemanager`) | timers of state configurations, cached configurations | refresh, enforce, report | timers, server, performance monitor | `StateManager` |
| Inventory (`agent/inventory`) | hashes of what was sent, in memory and in a file | gather, optimize, send, send again, keep the hashes | state manager, server, file | `Inventory` |
| Heartbeat (`agent/heartbeat`) | counters, scheme, retry quota | ping, retry | timer, server | `Heartbeat` |
| Plugin health (`agent/pluginmanager/pluginmanager.go`) | last reports, intervals | scan, pull, report | timers, plugin processes, server | `PluginHealth` |
| acs-plugin-manager (`agent/pluginmanager`) | database of installed plugins, directories, file locks | migrate, install, execute, remove | other processes of itself | `PluginStore`, `PluginInstall` |
| Encrypted data (`agent/cryptdata`, `agent/ipc`) | key pairs and secret parameters with expiry | create, remove, use, clear | commands over IPC | `CryptData` |
| Hybrid registration (`agent/hybrid`) | the files of a registration | register, deregister | server | `Hybrid` |
| Performance monitor (`agent/perfmon`) | counts of overloads, cgroup | sample, check, end the agent | factories, state manager | `Perfmon` |
| Log files (`common/logrotate`, `thirdparty/file-rotatelogs`) | a file for each day, a link, lock files | write, rotate, purge | other processes of the agent | `RotateLogs` |
| Service commands (`rootcmd.go`, `thirdparty/service`, `agent/install`) | the unit, job, script or entry of the service, links, a pid file | install, remove, start, stop | the system's service manager | `ServiceControl` |
| Last panic (`agent/checkagentpanic`) | a file of standard error, or marks in the journal | read, mark, empty, report | journal, server | `LastPanic` |
| The rest | | diagnostics, metrics, flags, libraries | see `components` in `PROJECT.json` | none |

How the parts interact: a message on a channel starts a goroutine that calls
`Fetch`; `Fetch` asks the server for tasks and dispatches each of them in that
goroutine. A non-periodic task is registered in the factory and put in the pool.
A periodic one is registered with a timer, whose callback registers and enqueues
an invocation each time it fires. A worker runs a task, reports and removes its id from
the factory. The updater prepares a new version in half-hourly checks, polls factory and
fetch counter, and takes the fetch
lock, before it runs the script that kills the process. Heartbeat, plugin health, state
configurations and the update check are callbacks of timers of the same kind. A session is
a task outside the pool with a data channel of its own. The commands of the data encryption,
of acs-plugin-manager and of the registration are processes that share files, or the agent's
IPC server, with the agent.

### What is hard, and what makes each part correct

* *Dispatch.* Several fetches at once dispatch the same id; check and act on factory
  and schedules are separate critical sections; a name removed may stand for
  another object; a cancel may hit an object before, during or after its run.
  Correct means: a non-periodic task runs once, is known while it is in hand,
  and ends with a report; a stop is acknowledged; no timer outlives its
  registration; invocations of a periodic task do not overlap; the completion event
  of a cron task is sent once, after the last invocation.
* *Pool.* A bounded channel that dispatchers block on while they hold up the
  updater. Correct means: every job and every task ends.
* *Task output.* A goroutine reports while the command writes; a cancel reads the same
  buffer. Correct means: every byte is reported once or counted as dropped, within the quota.
* *Task script.* The file of a script outlives the agent and is how it knows that it has begun a task.
  Correct means: a task that runs once is started once over crashes and deliveries, and whole.
* *Task in a container.* What was found when the task was created is used at each invocation; the
  container and its runtime come and go. Correct means: a command runs in the container that was asked
  for, and every invocation ends, with an exit code only of a command that has ended.
* *Fetch and update.* No lock is held during a fetch; the updater relies on a
  counter, a sleep and a double check. Correct means: the script runs alone, the
  startup fetch happens once, and neither side starves the other.
* *Update preparation.* A check may fail, time out or crash at any step and leaves files
  behind. Correct means: what is executed is whole and validated, and an update succeeds at last.
* *Timer and schedules.* Callback goroutines race on `isRunning`; cap-1 channels; the
  arithmetic of a period. Correct means: a callback does not overlap itself, a stopped
  timer ends, a refreshed one does not wait for its old interval; every instant of a schedule is run once.
* *Channels.* A stale active channel, late readers, a cool-down, a frequency limit in a ring
  buffer. Correct means: a working channel at last, and a limiter that lets through what it promises.
* *Server.* Callers find the server, the region and the executable at the same time, under five
  locks. Correct means: one provider names server and headers, one region, and no circle of locks.
* *Sessions.* Reconnections against closes; a cancel flag that two parties set; a rendezvous
  without a buffer. Correct means: one reader, an open channel is heard, a session that is
  cancelled ends, a session that runs is known.
* *Session client.* Five goroutines end each other by closing one channel; input comes before the
  agent has answered. Correct means: nothing is lost or swapped, and who ends takes the others along.
* *State manager.* Timers replaced inside their own callbacks, stale definitions.
  Correct means: one application at a time, a changed definition is applied at last, a deleted one is not.
* *Inventory.* Hashes stand for contents, in a file that is cut off by a crash, against a server that
  may have lost what it had. Correct means: no change hides behind a hash, and the server catches up.
* *Heartbeat and plugin health.* Retry quotas, fall-back between schemes, laziness, reports
  recorded before they are posted. Correct means: few misses in a row, http tried again, every change told.
* *Plugins.* Processes and kills between database, directory and lock. Correct means: what is
  recorded is whole, what runs is not removed, nothing is migrated twice or lost.
* *Encrypted data.* Expiry against use, from several commands. Correct means: a key in
  use is not replaced, and what has expired is cleared.
* *Hybrid registration.* Crashes between a request and its files. Correct means: the agent
  never signs with another instance's key, and a machine can be freed.
* *Log files.* Processes open, link and remove the same files. Correct means: what was logged
  lately is in a file that exists, and the link names it.
* *Service commands.* Five systems, and commands that fail or are killed half-way. Correct means: what
  is called installed comes back at every boot, what is called stopped stays down, and what is left half
  made can be repaired.
* *Last panic.* The one who reports a panic may panic, be killed or be cut off as well. Correct means: no
  panic is passed over while a search may find it, or emptied away unread.
* *Performance monitor.* Overlapping checks and tasks that start during one. Correct means:
  the agent ends itself only for overloads in a row, and then it does.

The hazards are in `PROJECT.json`, each at its line, with the properties about it. Where the code
breaks such a property, or a property holds only under an assumption that leaves out a part of the
hazard, a note says so and section 5 has the counterexample. Section 6 lists further hazards that
no property is about.

## 2. Modules

A component is a module of its own. TLC reads the modules whose names begin with `MC`: each of
them puts together the components of one area. Those about which there are theorems it extends, so that a
run and a theorem speak of the same definition; the others it instantiates (`INSTANCE ... WITH`), some of them
twice, with the constants that suit a safety and a liveness property. `TaskEngine` and `FetchUpdate` are
checked as they are.

| Module | Models |
|---|---|
| `TaskEngine` | dispatch, factory, pool, tasks, periodic schedules and their timers |
| `OnceTask` | the abstract life of a non-periodic task; `TaskEngine` implements it |
| `Timer` | one timer with its callback goroutines, refreshed, skipped and stopped |
| `CronTask` | `Timer` (EXTENDS) composed with the invocations of a cron task and `onFinish` |
| `Schedules` | the next runs of rate, at and cron expressions, and a timer that follows them |
| `CronExpr` | the fields of a cron expression, the days they mean, the search for the next instant |
| `TaskOutput` | the output of one task, its running reports, its quota, and a cancel |
| `HostScript` | the script file of a task, over deliveries, crashes and troubles of the disk |
| `ContainerTask` | a task in a container, with docker and with CRI, whose containers come and go |
| `RotateLogs` | the log files of each day, shared by processes, with their link and locks |
| `FetchUpdate` | `Fetch`, the startup fetch, kicks, and `executeUpdateScript` |
| `UpdateGate` | fetches against the script, without locks; `FetchUpdate` implements it |
| `UpdatePrep` | the checks for updates, up to the script, with failures and crashes |
| `ChannelMgr`, `KickLimit` | selection of a channel and its readers; the frequency limit of gshell |
| `SendFile` | the request for tasks and the files that come with them, over fetches side by side |
| `ApiServer` | which server, region, headers and certificates, found by concurrent callers |
| `SessionTask`, `SessionChannel`, `PortForward`, `SessionClient` | a session as a task; its data channel; port forwarding; the user's end |
| `StateManager` | state configurations: refresh, timers, enforcement |
| `Inventory` | collections of what an instance has, sent whole or as hashes |
| `Heartbeat`, `PluginHealth` | heart-beats; the two health checks of plugins |
| `PluginStore`, `PluginInstall` | the database of plugins; installation, execution and removal |
| `CryptData` | keys and secret parameters, the commands that use them, and the clearing timer |
| `Hybrid` | registration and deregistration |
| `Perfmon` | samples, checks, cgroup, self kill |
| `ServiceControl` | the commands that install, remove, start and stop the service on five systems |
| `LastPanic` | the panics an agent leaves in the journal or a file, and the next one that reports them |
| `MCTaskLive` | two instances of `TaskEngine` |
| `MCTimers` | `Timer`, `CronTask`, `Schedules`, `CronExpr`, `TaskOutput`, `HostScript`, `ContainerTask`, `RotateLogs` |
| `MCSessions` | `SessionChannel`, `SessionTask`, `PortForward`, `SessionClient` |
| `MCChannels` | `ChannelMgr`, `KickLimit`, `Heartbeat`, `ApiServer`, `SendFile` |
| `MCInstall` | `UpdatePrep`, `Hybrid`, `PluginStore`, `PluginInstall`, `PluginHealth`, `ServiceControl`, `LastPanic` |
| `MCAgent` | `StateManager`, `Inventory`, `Perfmon`, `CryptData` |
| `TaskEngineProofs`, `FetchUpdateProofs`, `TimerProofs`, `SessionProofs`, `ChannelProofs`, `InstallProofs`, `PluginInstallProofs`, `AgentProofs` | the theorems of section 4 |

A step is, everywhere, what one goroutine or process does between two operations on state
that another can reach: an atomic variable, a map, a file, a section under a lock.

### TaskEngine and OnceTask

Each method of `TaskFactory` holds its mutex throughout and is one step; a section
under `_periodicTaskSchedulesLock` is one step up to the next operation on the
factory, which other goroutines reach without that lock. `cancelPeriodicTask` is the
one function that calls the factory inside the section, so `schedLock` records
who is in it; all others enter and leave in one step.

* Dispatchers (`pc`, `jid`, `jnew`, `jold`) execute `dispatchRunTask` and
  `dispatchStopTask`: `getTask` and `getPeriodic` are the two lookups, `addTask` and
  `runTask` the path of a non-periodic task, `schedule` the path of a periodic
  one, `cancelPeriodic`, `cancelGet` and `cancelTask` the three parts of
  `cancelPeriodicTask`, `stopGet` and `cancelOnce` the stop of a non-periodic task.
  A quiet cancel is one with a new version in hand (`jnew # NoTask`).
* Timers (`timer`, `quit`, `cb`): the goroutine of a timer waits, fires and
  computes its next run; a fired timer starts its callback unless one is running.
  `select` chooses freely between `quit` and the clock, so a stopped timer may
  fire once more.
* Workers (`wpc`, `wtask`) take from the queue and execute `Task.Run`: refused or started,
  then the command starts, fails, times out or exits, `IsCancled`, the report, and
  the removal from the factory.
* `sent` holds the reports of an object. Finished, failed, timeout, error and invalid
  are one kind, `"ended"`: the properties are about whether, not what, is
  reported. A report is a request that may fail after its retries; what is modelled is
  that it was sent.
* A Task object is an element of `Tasks`, reused once nothing references it
  (`Free`), as memory is. So behaviours are unbounded while the state space is
  finite. An `"ended"` report is forgotten with the invocation, since the object
  of a periodic task is reused.
* A `panicked` process takes no more steps. The agent keeps no task across a
  restart, so a restart is a behaviour of its own.

Abstracted: what reports say (`TaskOutput` has their lengths), the arithmetic of
schedules (`Schedules` has it; here a timer may fire, and may come to its end, at any time), the
container processors (`ContainerTask` has them), `RunTaskNextRebootOnly` and `EveryReboot` (dispatched like
`RunTaskOnce`). Every error of `Prepare` is taken as one of the classified ones,
which `Run` reports; the host processor returns no others.

`OnceTask` has one variable of places per id, `life`, and the reports of the task that lives
there. The mapping `ImplementsOnceTask` computes the place from where the registered object is:
with a dispatcher, in the queue, with a worker.

### Timer, CronTask, Schedules, CronExpr

`Timer` is one timer: its goroutine, up to `Callbacks` callback goroutines, and the three channels of
one element. Time is relative: `remain` counts down the wait of `time.NewTimer`.
`runTimer` reads and sets `isRunning` in two sections; the constant `Prompt` says that a
goroutine started by a firing gets through both before the next firing, and
the first of the timer's disagreements in section 5 drops it. What `CallbackExclusive` says of
`isRunning` holds without it: the flag is only set while some callback runs, so no race leaves it
set and every later firing skipped. `CronTask` adds the worker that ends an invocation and reads
`isNoNextRun`, and the completion event. `Schedules` keeps the numbers: a `Duration` has
`Width` bits, the product of a rate wraps, the division is Go's, a division by zero is a
panic. A number, a unit and a set of instants arrive. There the clock
runs steadily and gets on between a firing and the next computation.

`CronExpr` is where the instants of a cron expression come from. A field is a sequence of entries
(`*`, `5`, `5-20`, `*/2`, `L`, `LW`, `15W`, `5L`, `5#3`, ...); `Parse` makes sets of them as the field
handlers do, `ActualDaysOfMonth` the days of a month, and `NextYear` ... `NextSecond` are the mutually
recursive functions of the same names. The calendar is that of package time, from 1970 to 1973 in
the run, where February 1972 has 29 days; hours, minutes and seconds run from 0 to 2. The reference,
`NextIsClosest`, says for each entry which days it means, without tables or offsets. Numbers have
no leading zeros, and the clock has no local times that a change of the clock skips or repeats.

### TaskOutput

Bytes are counted (`written`, `buffered`, `output`, `sended`, `droped`), since every reader takes
them in order. Run, the goroutine of running reports and a cancel are processes; a cancel that
reads `task.output` while it grows may see any length it has meanwhile. `Chunk`, `Pre` and
`DefaultQuota` keep the order of 2048, 6000 and 12000.

### HostScript, RotateLogs

`HostScript` is `Prepare`, `SyncRun` and `Cleanup` of the host processor: the directory, `SaveScriptFile`
with its file created, written and made executable in three steps, the shell that is looked up, the
command, its last report. Between any two of them the agent may crash; the file stays. The server
delivers a task until it has its last report, and a schedule fires again. `RunsOnce` says nothing of
a disk that fails: then the content itself becomes the command, no file is left, and
after a lost report the task runs again. The removal of a secret's file stands in `Cleanup`, which `Run`
does not reach when the shell is not found.

`RotateLogs` is `Write` under the mutex of one process, with every file operation of
`rotate_nolock` a step of its own, since other processes take only the `_lock` file. Removals are left to
a goroutine. `LinkIsCurrent` excludes crashes and Writes that span midnight: a `_lock` that a crash left, or a link
that a late process makes, stays until the file of the next day.

### ContainerTask

A task names a runtime, an id and a name, each of which may be missing. `Detect` chooses the
processor when the task is created; `Invoke` begins an invocation, `CheckDocker` and `CheckCRI` are
`PreCheck`, `Search` tries one endpoint of CRI after another, and the rest is `SyncRun`: for docker create,
attach, stream, inspect up to five times; for CRI one synchronous call. The environment
(`Changes`, `ProcessEnds`) stops, removes and starts containers and their runtimes at any time. A
request that fails or is late may have been carried out. An id stands for one container on the
machine, as the comment in `getRuntimeService` has it; how a name occurs in another is the constant `PartOf`.

### FetchUpdate, UpdateGate, UpdatePrep

One step is one operation on an atomic variable, on `FetchingTaskLock` or on the
factory. Kick goroutines and the main goroutine execute `Fetch`
(`entry`, `tryLock`, `unlock`, `gap`, `reason`, `fetch`); `gap` lies between the
release of the lock and the increase of the counter. What a fetch dispatches is the
set `tasks` of non-periodic ids in the factory. The updater executes the loop
of `executeUpdateScript`; the double check is two steps, because it reads the
counter and then the factory. The script may return (`ScriptReturns`); that it
kills the agent is the end of the behaviour.

The updater sleeps five seconds between taking the lock and the double check.
`SlowGap = FALSE` is the assumption that a goroutine gets from `Unlock` to
`Add` in that time; `SlowGap = TRUE` drops it. `UpdateGate` says what the lock, the counter and
the double check are for: a fetch begins, or the script starts, in one step.

`UpdatePrep` is what precedes: `safeUpdate` and `checkLocalDirectory` over a disk on which each
file of each version is absent, half written or good. Every step may fail, time out or be the last before a crash.
Nothing in the repository writes the hash file, so a package is taken to bring it.

### ChannelMgr, KickLimit

`ChannelSetLock` serialises who selects: main, the timer, a `SwitchChannel` per reader that
gives up, and `openOtherChannel`. Readers do not take it. A reader of the websocket is
identified by the connection it was started for and reads whatever `c.wskConn` is. The one
duration that matters is named `Prompt` and assumed for `Recovers` only. `KickLimit` has the ring
as the code indexes it, against the history of all messages.

### ApiServer

A caller executes `GetServerHost`, `GetRegionId` or `HttpGet`; `stack` holds where it goes on when a
provider, the transport or the executable has answered. Locks are not variables: who holds one
follows from where the callers are. The machine (`site`) is in one of two networks, has an
executable, a registration, an environment variable or none of them, and a file of the region from an
earlier run, its own or another machine's. A caller of the three fails when no server
answers, and may call again. The executable may fail once, and then no one asks it again before the next start; one that
answers without a domain is selected for all that, with an empty one, and the agent then has no server.

### SessionTask, SessionChannel, PortForward, SessionClient

`SessionTask` has the task, the factory, the plugin and its watcher, the cancel flag, the kick
that stops a session and the three-hour timeout. The process takes no step after a panic that
nothing recovers. `SessionChannel` has the connection with a reader and a pinger for each
`Open`, reconnection, and the timer of idle input. `PortForward` has the pump, the handler and
`Execute` with their channel without a buffer. Each takes the others as environment, in the
words of its header.

`SessionClient` is the program a user runs: a writer, in one of two forms, `readLoop` with the
goroutine it starts for each message, `termsizeLoop` and `Loop`. Of input the order counts, of output
the number, so chunks are numbers and messages are kinds. The writes of a goroutine are steps of
their own, as is the look at `poison`, which is a variable that only becomes true; a second
`close` of it is recovered from. `Warm` is the wait of three seconds for the agent's connection.

### StateManager, Heartbeat, PluginHealth

In `StateManager` time is the number of definitions the server has changed, which is all that
the comparisons of update, report and checkpoint times distinguish. The refresh, the job of each
configuration and the performance monitor's look at the timer are processes; a restart
keeps the cache file only. A request may fail (`FetchFails`), or be answered by `ServiceNotSupported`:
then the interval becomes a day and the timer of the refresh is cancelled and made anew
(`NotSupported`), and the next answer of another interval does the same before anything is used.
A region that goes back and forth between the two would keep every answer from being used, so
`DefinitionApplied` and `DeletedStops` are about one that offers the service from some time on
(`Offered`). `Heartbeat` has both pingers (main and the timer) over the
shared counters, which appear as their difference, and a `setting`: whether the instance is
registered in hybrid mode, the schemes that always work and those that do now and then. In `PluginHealth` `Tick` passes one unit of time
when nothing is due; the scans and pulls take none or some of it.

### Inventory

`Gathers` is a run that begins, with the gatherers that fail; `Loads` reads the file of hashes; `Sends` is
a request, the optimized one or the whole one after a mismatch; `UpdateContentHash` and `Writes` keep the
hashes, with the file empty between them. A hash is identified with its content. The server
accepts a hash alone only for what it has; it may lose what it had, and its answer may be lost after it has
accepted. Runs follow one another, for the callbacks of state configurations take turns.

### PluginStore, PluginInstall

Processes open, lock, read and write the database in one step per operation, as bolt
does; file locks follow from where a process is, and a kill releases them. A version's directory
and the download file are absent, partial or whole and of some version.

### CryptData, Hybrid, Perfmon

`CryptData`: each operation of the two `sync.Map`s is a step; a stored key is its
expiry. `Hybrid`: each file is created, written or removed in a step of its own, and each such step, and
each request, may fail; a command may be killed between two. `unwritten` (history) has the registrations
of which a file could not be written, since `Register` goes on without it. `Perfmon`: each check is a
process that may overlap the next, and `dead` is its decision to end the agent.

### ServiceControl, LastPanic

`ServiceControl` has the platform as a variable that never changes. A command is asked for, takes one
step for each file or command of the system, and may be killed between two; a half-written unit stays. Of
the service manager (external) it says that it restarts an agent that fails and starts what is
installed at boot; of the script for System V, which is the agent's own, all steps on the pid file. An
agent that runs as a daemon (`--daemon`) is not known to any of them and is not modelled, nor are the limits on
restarts (`StartLimitBurst`, `respawn limit`), after which a manager gives up.

In `LastPanic` the journal is a sequence of entries with seconds; a panic may come at any
point, so also between a search and the mark that ends it. A search that runs out of its ten
seconds or its 50 KB is a trouble that leaves some of what was to be found, which is then in `lost`. A file
that standard error goes to is that of Windows: elsewhere see section 5. Reading it, opening it,
which empties it, and making it standard error may each fail, the last when the file is empty already.

### SendFile

What is at a path is a content, a mode, an owner and the task that wrote it last. Each call on the
file system is a step: `FileExist` and `WriteFile` are two, and `WriteFile` is the creation and the
writing, so a kill leaves a part. What is wrong with a task (`flaw`) is the first check it fails.
`Apart` says that no two fetches have a task for one path in hand; `FetchingTaskLock` does not see to it,
since it is released before the request.


## 3. Runs

| Run | What moves | Properties |
|---|---|---|
| `once` | 2 non-periodic ids, 3 objects, 2 dispatchers, 2 workers, queue of 1 | `OnceKnownOnce` (`TypeOK`, `OnceRegistered`, `OnceExclusive`), `OnceReported`, `StopOnceAcknowledged`, `ImplementsOnceTask` |
| `periodic` | 1 periodic id, 2 versions, 2 objects, 2 dispatchers, 1 worker | `NoOrphanTimer`, `PeriodicExclusive` |
| `task_live` | 3 non-periodic ids with 1 dispatcher; or 1 periodic id with 2 | `TasksEnd` (`OnceEnds`, `JobsEnd`) |
| `fetch_update` | 2 kick goroutines, the main one, 2 tasks, 4 messages | `ScriptRunsAlone`, `StartupOnce`, `ImplementsGate`, `NeitherStarves` (`UpdateGetsThrough`, `FetchesReturn`) |
| `timers` | a timer; a cron task; a rate, at or cron schedule; 14 cron expressions at 4 clocks and 5 starts; the output of one invocation, and of two; a script over 3 deliveries, 2 crashes and 2 troubles; a task invoked twice in one of 3 containers, with 2 changes; the log of 2 processes over 4 days | `CallbackExclusive`, `NoStaleWait`, `OneInvocation`, `ScriptIsSafe` (`RunsOnce`, `RunsWhole`, `SecretsGone`), `EveryByteOnce` (`OutputAccounted`, `WithinQuota`, `SilentAfterFinal`), `RightTimeAndPlace` (`NextIsEarliest`, `OnceEach`, `NoneMissed`, `NextIsClosest`, `RunsInTheOne`, `ReportsTheEnd`, `RecentIsKept`, `LinkHolds`, `LinkIsCurrent`), `NobodyIsStuck` (`StopEnds`, `CallbackRecurs`, `InvocationEnds`, `RunEnds` of two modules) |
| `sessions` | a data channel with 2 breaks and 3 connections; 2 sessions of one id, kicked or not; a port session; a client of each mode with 3 chunks of input and 2 messages | `OpenIsHeard`, `OneReader`, `RunningIsKnown`, `HandlerIsAwaited`, `InputKept`, `SessionsEnd` (with `OutputKept`; `DeafEnds`, `PluginEnds`, `ClientEnds`, `NobodyStays`) |
| `channels` | channels in ECS, of a managed instance, and with troubles that end; the limiter; both heart-beats; 2 callers on 9 machines who look for the server; 2 fetches that write one file, 1 fetch of 4 tasks on 3 systems | `NeverOrphaned`, `LimitIsExact`, `BeatsArrive` (`FewMissed`, `HttpTriedAgain`, `HybridIsHttps`), `FilesArrive` (`SuccessIsThere`, `AllAnswered`, `OnlyAsAllowed`), `RightServer` (`ProvisionedOnce`, `HeadersOfServer`, `OneRegion`), `ServerIsReached` (`Recovers`, `NoCircle`) |
| `install` | 3 offers of updates; one user who registers, and files that cannot be written; 3 processes on the list of plugins; 3 on one plugin; the health checks; the commands of the service on 5 systems with 2 failures; 2 panics in the journal, 3 in the file | `WhatRunsIsWhole` (`ScriptIsWhole`, `CurrentIsWhole`), `MigratedOnce`, `RunningKept`, `InstanceIsKept` (`KeyOfInstance`, `NoneReplaced`), `RecordsAreTrue` (`RecordedIsWhole`, `OneLive`, `MigrationKeeps`, `OkIsInstalled`, `OkIsStopped`, `SilenceIsKnown`, `KeptApart`, `NonePassedOver`, `NoneEmptied`), `AttemptsSucceed` (`Updates`, `Deregisters`, `LoadEnds`, `ChangesAreTold`, `Repairs`) |
| `agent` | one configuration with 2 jobs, with 1 and a restart, and with the monitor at the refresh timer; 2 types of inventory with 2 changes and 2 troubles; 1 check of the load at a time, and 2 that overlap; 2 commands on one key, 1 on a key that expires | `StatesInStep` (`OneEnforces`, `TimersFollow`, `CallbacksOwned`), `KillIsEarned`, `KeyNotReplaced`, `SettledInTheEnd` (with `CompliantIsKnown`; `DefinitionApplied`, `DeletedStops`, `OverloadEnds`, `MemoryEnds`, `ExpiredAreCleared`, `ServerCatchesUp`) |
| `overlap`, `nil_schedule`, `update_prep_invalid` | the smallest instance that shows it | section 5 |

A property with brackets is a conjunction of the properties, in brackets, of the components, most of
them with their type invariants; each of them is stated and explained in its own module. A property
without brackets is the component's own: an `MC` module extends the components about which there are
theorems (`MCTimers`: `CronTask`, and `Timer` with it, `HostScript`, `TaskOutput`; `MCSessions`:
`SessionChannel`, `SessionTask`, `PortForward`, `SessionClient`; `MCChannels`: `ChannelMgr`,
`KickLimit`, `Heartbeat`, `SendFile`, `ApiServer`; `MCInstall`: `PluginStore`, `PluginInstall`,
`UpdatePrep`, `Hybrid`; `MCAgent`: all of its four) and instantiates the others.

*The variable `focus`.* The components of one area share no state here, so a run does not interleave
them, which would multiply their states and show nothing more: `Init` chooses with `focus` which
component, in which instance, moves in a behaviour, and the others stay in an initial state. The
states of the run are the sum of those of its instances. A property of a component that does not
move holds trivially; where two instances share variables, a property about one of them is guarded
with its `focus`. A fairness condition is restated with the `focus` of its instance, since it says
nothing about behaviours of another. Components that do interact are composed for real: timers and
invocations in `CronTask`, which extends `Timer`; factory, pool, dispatch and timers in
`TaskEngine`; fetches, factory and updater in `FetchUpdate`.

*Bounds.* Two dispatchers race for one id and two ids exclude mix-ups of ids; a queue of one is both
empty and full within a few steps; two objects per id let an old and a new version live at once, and
the third one in `once` lets a duplicate be fetched while two tasks are in hand. Four messages let
each kick goroutine fetch twice, before and after an attempt of the updater. Three versions and
three offers let an update be superseded and withdrawn, three failures let one follow the repair of
another. Three processes let one install, one execute and one remove; two kills leave a directory
and then a record behind. `MaxConns`, `MaxOpens` and `MaxBreaks` stop the environment, not the
agent: the next dial or open fails, or no more connection breaks. `Width` bits, `Limit` and `Values`
are chosen so that the products of a rate fit, are refused, and wrap; `Chunk`, `Pre` and
`DefaultQuota` keep the order of 2048, 6000 and 12000, with `Pre + Chunk` within the quota as in the
code. Two troubles let a hash that was not kept meet a request that failed; a container that stops
after the task was created, or an API that goes and comes back while a command runs, takes two
changes. Four days are one more than the three after which a log file is removed in `RotateLogs`;
three deliveries let a task be found half written, and then whole. Three heart-beats stand for the
1440 of a day and three overloads are three. The names of ids, objects, dispatchers and workers
carry no meaning, which justifies the symmetry of `once` and `periodic`; no run with a liveness
property uses any.

*Deadlock.* It is checked in `channels` and in `update_prep_invalid`. The others say `CHECK_DEADLOCK
FALSE` because something in them may rightly stop: a panicked process, an idle agent that gets no
more messages, a session or a forwarding that is over, processes that have loaded or been started as
often as the bound lets them, an agent that has ended itself.

*Fairness.* Goroutines are scheduled, so steps that stay possible are taken (weak fairness); a
command ends or is killed by its timeout. A Go mutex in starvation mode and a channel send serve
waiters in order, hence strong fairness for what locks or enqueues: dispatchers, callbacks, the jobs
of state configurations, `SelectAvailableChannel`. A `select` chooses at random among what is ready,
hence strong fairness for each branch of a timer's `select`. The command of a cron invocation ends
whatever its timer does meanwhile, hence strong fairness of `RunReports`, whose guard excludes the
moments at which the timer computes. `flock` retries until it gets the lock. Nothing is assumed of
the server, the network or the user, except what a property says: `UpdateGetsThrough` is about
messages that stop (`MaxKicks`), `Recovers` about a network that comes back (its troubles are
bounded), `Updates` about an offer that stays and troubles that end, `Deregisters` and `Repairs`
about a user who tries again, `ServerCatchesUp` about contents that settle and a timer that fires,
`DefinitionApplied` and `DeletedStops` about a jitter that ends and a region that from some time on
offers the service.

*Assumptions of single components.* `Prompt` in `Timer` and `CronTask`, for that callbacks and
invocations do not overlap: a goroutine gets through the two sections of `runTimer`, and past its
report, before the timer's next firing. `SlowGap = FALSE`:
see `FetchUpdate`. `PluginHealth`: posts arrive (`PostsLost` drops it) and a pull does not change
the interval of the scans (`PullSetsScan`). `PluginStore`: no access fails, for `MigrationKeeps`.
`Hybrid`: one command at a time. `SendFile`:
no two fetches write one path at once (`Apart`). `UpdatePrep`: packages bring the hash file, and are
for this machine (`Invalid`). Each of these has its counterexample in section 5. So have the two
exceptions that a property makes: `KillIsEarned` of `Perfmon` for the check that has set up the
cgroup and one that overlaps it, `RunningIsKnown` of `SessionTask` for a run whose entry another one
of its id has taken over or taken out.

Each property of a passing run has a mutant in `PROJECT.json`: an operator, beside the definition it
mutates, that makes of it what a plausible slip would (an ignored error, a missing unlock, a check
left out); with it, TLC finds the property violated.

## 4. Proofs

A theorem has the assumption on the constants of its component as its hypothesis (`EngineAssumption`,
`TimerAssumption`, `HybridAssumption` and so on: what is a number, what is Boolean, which names
differ), and TLC evaluates it for the constants of each run. What a theorem assumes besides, such
as `Prompt` or one command at a time, is said below. Each inductive invariant contains the types of
its component, and there is a theorem for each of these too.

*TaskEngine.* The theorems hold for any number of ids, objects, dispatchers and workers, and any
queue capacity, from `EngineAssumption` alone: non-periodic and periodic ids are disjoint, `nil` is
neither a task nor an id, versions are numbers, the capacity is positive. The inductive invariant
`EngineInv` is `TypeOK`, `OnceRegistered` and `OnceReported` together with

* `JobInv`: the locals of a dispatcher agree with the place it is at;
* `IdInv`: an object is registered, or held, under its own id, and only objects of periodic tasks
  have a live timer or callback;
* `FreshInv`: nobody but its dispatcher knows the object of a run job, until it is handed to the
  pool or registered. It is why an object is never enqueued twice;
* `WorkerInv`, `PlaceInv`: a worker has a task exactly while it is busy, and the object of a
  non-periodic task is in one place. `OnceRegistered` alone is not inductive: the removal of an id
  by one worker preserves it only because no second worker or queue entry has the same object;
* `AckInv`: a canceled non-periodic task was reported as canceled, since only periodic tasks are
  cancelled quietly. It is what `OnceReported` needs when `Run` stays silent.

`OnceKnownOnce` is `TypeOK`, `OnceRegistered` and `OnceExclusive`. `OnceIsExclusive` follows: two objects in
hand with one id are both the entry of that id, hence equal, hence in one place.
`StopOnceIsAcknowledged` follows from `AckInv`. `TimersAreOwned` has an invariant of its own shape:
a step that deregisters a schedule sets `quit` in the same critical section, and a schedule is
registered only where there is none.

`PeriodicIsExclusive` is about the ids whose schedule was never deregistered: an object that was may
still have a callback or an invocation under way when a new one of the same id begins, as the run
`overlap` shows. For the others the schedule names the only object that can be `Busy` (`OwnerInv`),
an invocation of it is in one place (`OnePlace`), and its callback, which looks the task up in
`TaskFactory` before it adds it, goes on only when the worker has removed the last one
(`Registered`). So nobody has to count invocations.

*OnceTask.* `EngineImplementsOnceTask` shows that every step of `TaskEngine` is a step of the
abstract life of each non-periodic task, or changes nothing of it. Besides `EngineInv` it needs
`UnsentInv`: an object that no worker has run yet carries no report but that of its cancellation,
without which an abstract task could begin with a report it never sent. There is a lemma for each
kind of step: those of dispatchers, of workers, and those that touch no non-periodic task.

*Timer, CronTask.* `runTimer` looks at `isRunning` in one critical section and sets it in the next.
That `isRunning` is set only while some callback runs needs nothing of the scheduler (`FlagIsHeld`):
whoever sets it is in the callback until it clears it, and an overlapping one can only clear it too
early. The rest of `CallbacksExclude` and `CronInvocationsExclude` need `Prompt`, in the property or
as a hypothesis: then at most one goroutine is between the two, and the timer can
neither fire nor be skipped while one is (`OneStarts`). That needs in turn that only the first wait
may be zero (`WaitsLater`). From it follows `OneRuns`: at most one is in the callback and
`isRunning` says so. `WaitIsCurrent` needs no `Prompt`. A step of `CronTask` is a step of `Timer`
(`CronStepIsTimerStep`), so the invariant of the timer holds there; `OnePlace` adds what is known
between the look at the factory, the addition and the queue.

*FetchUpdate.* `CounterInv` says that `FetchingTaskCounter` is the number of goroutines in `reason`
or `fetch`, and who holds the lock; from it and the places of the updater follows `UpdateIsSafe`,
under the hypothesis `~SlowGap`, for any number of fetches and tasks. `StartupIsOnce` needs no
hypothesis. `UpdateImplementsGate` shows, from the same invariant and hypothesis, that the lock, the
counter and the double check implement `UpdateGate`: the script starts in one step in which nobody
fetches and no task is known.

*SessionChannel.* `ReadersHandOver` proves `OneReader`: the connection has one reader, through any
number of reconnections, and `OpenHasReader` that an open channel is read. The inductive invariant
`Handover` says which of the readers is responsible: the reader that reconnects is the last one
opened, and is the one that closes and opens, so that two never work at a time. `Types` is not about
types alone: the errors a reader has counted are bounded by where it is, and an opening finds the
places of its goroutines as they were at first (`Unopened`).

*SessionTask.* `RunningSessionsAreKnown` is for any runs, whether each has an id of its own or all
have one. `FactoryInv` is `RunningIsKnown` and the types it rests on. The factory has only runs
between `AddSessionTask` and `RemoveTask`, under their ids, so none that is over keeps its entry; and
a session that runs is there, unless another of its id is there instead or has removed the entry when
it ended. The second is what `ContainsTask` and `AddSessionTask` in two sections come to: `Checks`
lets a second run of an id pass only while there is no entry, and the one that is refused removes the
entry all the same (`SessionsAreSeen`, section 5). With ids of their own the exception is empty.

*HostScript.* `ScriptRunsSafely` holds for any number of deliveries, crashes and failures of a step.
A delivery starts nothing that an earlier one has started because the file of the first attempt is
found (`FoundAgain`): where `starts` is one there is a file, or the last report has been
acknowledged. `WrittenWhole` is that a part of a script is on the disk only while it is being
written, or after a crash; `SecretKept` that without failures `Cleanup` is always reached.

*TaskOutput.* `OutputIsAccounted` holds for any quota and output, any reports that are lost, and a
cancel at any point. That what Run has read is what was reported, what waits and what was dropped
(`ReadCounted`) needs who reads at a moment: the goroutine of the running reports, and `Run` only
when that has closed its channel (`ReaderWaits`, `SentCounted`). `DropsJustified` is that nothing is
dropped while there was room, which the last report relies on when it cuts from the left (`LastFits`).
The assumption is `Pre + Chunk <= DefaultQuota`, 8048 and 12000 in the code.

*PortForward.* `HandlersAreAwaited` needs besides the types that the flag of the reconnection is set
only while the pump waits for the handler, which takes it back (`ReconnectMeansWait`).

*SessionClient.* `InputIsKept` is about each of the three writers, any number of chunks, and any
order of the server's messages. It follows what the writer has taken from `Handled`, all but the
chunk in hand, to what was sent: of a terminal or a local connection all of it while the connection
is open (`SentStraight`), of a pipe the first chunk, in `resend_buff` or sent (`FirstKept`).

*KickLimit.* `VerdictsAreExact` says of every count and period, and of any sequence of messages and
of changes of the two, that the ring gives the verdict which counting all messages would give.
`Remembers` says what the ring holds, from `start` backwards; `EndsAt` that `end` is the place after
`start`, so of the oldest, once it is full; `Begun` that it is empty only before the first message.

*ChannelMgr.* `OrphansAreNoticed` proves `NeverOrphaned` by `Noticed`: while no channel works some
goroutine is selecting or about to, or the last selection has given up. There are three steps after
which both may be silent: the reader of the websocket starts a switch in the same step; that of
gshell has started one, which waits until it leaves (`SwitchWaits`); and the timer closes the
websocket because gshell worked a moment ago, and if it has failed since, a switch is waiting
(`StopIsCovered`). The last holds only because the lock is held by who selects (`OneSelects`) and a
switch that is started has not run before (`Fresh`).

*Heartbeat.* `BeatsDoArrive` holds for any number of attempts of the main goroutine, any quota of
retries and any period after which http is tried again, provided it is more than one heart-beat. That
at most three heart-beats fail in a row, while some scheme works, is no invariant by itself: the two
pingers share what is to be used next without a lock, so one may spoil what the other has found out.
It follows from a sum that no step lets grow past three (`RiskIsBounded`): the heart-beats that were
lost, those that have failed and were not counted yet, those at a request over a scheme that fails,
and, while such a scheme is the next one (`NextBad`), those that still have to choose. `HttpSoon` is
`HttpTriedAgain` at every place of a pinger.

*SendFile.* `FilesDoArrive` is for any fetches, tasks and systems, under the hypothesis `Apart`. What
a task has reached is described from its check to its answer (`Accepted` to `Done`); what it found or
wrote at its path stays so because no other fetch in hand writes there (`HandsApart`). `FileTypesHold`
does not need `Apart`.

*ApiServer.* `ServerIsRight` is for any callers, machines, failures and restarts. Calls are nested up
to four deep, and three kinds of callers pass through the same provider and transport; so the
invariant starts with which stacks a caller has at which place (`Frames`), and a step is followed
through a jump, a call, a return or an end (`FrameStep`, `Arrivals`). Then one caller at a time runs
the executable, while nobody has (`OneRun`); `domain` is one that the selected provider gives
(`NamedBy`) and cannot change under a request (`Requested`), since a caller selects only while none is
known (`OneSelecting`). `OneRegion` needs the region that the machine settles (`RightRegion`: that of
the file if its server is reached, else that of the machine): while no request has failed, it is what
every caller has found when it tries a server (`Sought`) and what the provider and the file then have
(`Located`), though several callers look for it at once and the file is empty for a while.

*Perfmon.* `KillsAreEarned` holds however many checks overlap. A check counts the memory in one step,
so its count is that of the overloads in a row (`MemoryCounted`). The count of the processor is no
more than that except from the setting up of the cgroup to the reset of the count (`Limiting`, in
`CpuCounted`); the one end that is not earned is decided there, and section 5 has it. Of the check
that finds no cgroup to be had, and ends the agent for that, one check at a time is assumed in the
property itself: another may have counted a sample without overload meanwhile.

*CryptData.* `KeysAreKept` needs of `CryptInv` only the types and that the set the timer clears
holds keys while it clears keys; what it says is that `GenRsaKey` stores by `LoadOrStore` alone and
every deletion is a step of its own, so no interleaving of requests and the timer goes from one key
to another. That a deletion may hit a key that has not expired is another matter
(`DeletedKeyExpired`, section 5).

*StateManager.* `StatesKeepStep` holds for any number of configurations, jobs, changes and crashes.
`OneEnforces` follows from the lock, which a callback in `enforce` holds alone (`OneInside`).
`TimersFollow` says that the timers are those of the known configurations but while a refresh is at
them, which it leaves only after it has done them all. `CallbacksOwned` says that the timer of a
callback that is owned is still there and has started no other, which needs that a callback has its
configuration to its end (`JobsKnow`) although refreshes replace what it was started from.

*Inventory.* `CompliantRunsAreKnown`: a request that is accepted leaves on the server what was
collected, whether it went whole or as a hash (`AcceptedIsKnown`), for any types, changes, crashes,
and answers that are lost. Besides the types it needs that hashes wait only while they are being
kept.

*PluginStore.* `MigrationIsOnce`: of all processes ever, one creates the database with `O_EXCL`, so
one may migrate, and has not yet as long as it may (`OneMigrator`); who is inside holds the lock of
the file alone (`Locked`). `MigrationIsKept` is about accesses that do not fail (`MaxFaults = 0`),
for otherwise the plugins may be lost: then the one that may migrate is on its way to it, and nobody
else creates the file (`OnTheWay`).

*PluginInstall.* `RunningIsKept` holds for any processes, whatever they install, execute and remove,
from files or the service, and wherever they are killed. `RemovesAlone` is that `flock` gives the
plugin's lock to one writer or to several readers; `RunningIsThere` that a program that runs was
there when it started and is there still. The invariant also needs that the locals of a process
agree with its step (`Agree`), and that it holds no key of the database which is still to be given
out (`KeysAreOld`). `FindPlugin` takes the least key that fits; that there is one is shown by
well-founded induction on the keys.

*UpdatePrep.* `WhatRunsStaysWhole`: what is prepared is not the version that runs
(`PreparesAnother`), so nothing that happens to its directory, nor the removal of older ones, is
about the directory of the running one (`CurrentIsWhole`); a package is good once its checksum was
compared (`PackageIsGood`), so an extraction writes good files only (`ExtractedIsGood`), and what is
validated and executed was extracted to the end (`ReadyIsWhole`).

*Hybrid.* `InstanceHasItsKey` and `RegistrationIsKept` hold for any crashes, requests that fail and
files that cannot be created, written or removed, when one command runs at a time. That the key lies
there before `instance-id` names its instance needs what each file holds while `Register` is at the
next one (`Registering`, `BeforeInstance`), and that `UnRegister` only removes files of the instance
it has told the server of (`Unregistering`). `InstanceStays` puts the two together, as the run does.

*Only model-checked.* Liveness, which needs fairness and `ENABLED`. Of `RightTimeAndPlace` the
search of `CronExpr` is recursive, so what it computes would need induction over data; so would the
counts of messages in `OutputKept`. `RecordedIsWhole` and `OneLive`, parts of `RecordsAreTrue`, are
false in general: two versions installed from files at once leave two records, and a removal then
one of them without its directory (section 5); the run has the cases in which they hold, and a proof
would be about those few processes. `NoCircle`, in `ServerIsReached`, is stated with `ENABLED`. The
rest of `RecordsAreTrue` and `RightTimeAndPlace` join properties of components that have no proof
module, small finite protocols that TLC explores whole; `MigrationKeeps`, in `RecordsAreTrue`, is
proved.

## 5. Where the code and its comments disagree

The first three have a run. The others were found in the same way: the property, in its module, is
violated with the constants given here and, if none are given, with those of the runs.

*Tasks.*

* `PeriodicNeverOverlaps` of `TaskEngine` (run `overlap`), `taskengine/scheduletask.go:331`.
  taskengine/scheduletask.go:377 says "Invocations of periodic task is not allowed to overlap, so
  Task struct for invocation data can be reused." The code checks ContainsTaskByName and then
  ignores the error of AddTask (line 331), and the end of an old version's invocation removes the
  new one's name (line 344): two invocations of an id run at once, after a new version or a stop was
  fetched.
* `NoNilSchedule` of `TaskEngine` (run `nil_schedule`), `taskengine/scheduletask.go:505`.
  taskengine/scheduletask.go:493 says "1. Check whether task is registered in local storage", but
  the check acts only if the cancel is not quiet: dispatchRunTask calls cancelPeriodicTask quietly
  for a task it found in TaskFactory, whose schedule a stop may have deregistered, and
  periodicTaskSchedule.timer dereferences nil.
* `StopPeriodicAcknowledged` of `TaskEngine` (`Tasks` of 2, one dispatcher, 2 workers, otherwise as
  `periodic`), `taskengine/basetask.go:457`. taskengine/scheduletask.go:476 says "Cancel periodic
  task. If quietly is false, notify server the task is canceled." If the invocation found in
  TaskFactory was cancelled quietly before (its version was replaced), Cancel returns at once and
  the server is not notified.
* `CanceledNeverStarts` of `TaskEngine` (one id, one worker), `taskengine/basetask.go:163`.
  taskengine/basetask.go:453 says "Cancel the task invocation. If quietly is false, notify server
  the task is canceled." Run never looks at canceled before it starts the command, so a task that is
  cancelled while it waits in the pool is reported as canceled and starts afterwards.
* `OutputAccounted` of `TaskOutput` (`Rounds = 2`, `MaxBytes = 8`), `taskengine/basetask.go:486`.
  taskengine/scheduletask.go:377 says "Invocations of periodic task is not allowed to overlap, so
  Task struct for invocation data can be reused". getReportString sets task.droped only when
  something is dropped and nothing resets it: after an invocation whose output exceeded the quota,
  every later one, however short its output, reports those bytes as dropped.
* `RunsWhole` of `HostScript` (`ranPart => FALSE`; one crash),
  `agent/taskengine/host/processor.go:147`. A script of a schedule whose writing a crash cut off is
  taken for the script at the next firing, and executed.
* `target # None => wanted.name \in {None, NameOf[target]}` of `ContainerTask`,
  `agent/taskengine/docker/processor.go:87`. The comment at
  `agent/taskengine/docker/processor.go:57` has a name validated "to be conform to the requirement";
  asked for a name alone the API of docker returns the containers whose name contains it, and the
  names are compared only when an id is given too. So a command for "web" runs in "web-db" when that
  is the only one.
* `outcome = "invalid" => the container does not run` of `ContainerTask`,
  `agent/taskengine/docker/processor.go:175`. The comment at
  `agent/taskengine/docker/processor.go:159` has `PreCheck` continue the checks; it looks at the
  state the container had when the task was created, so a periodic task whose container was stopped
  then is refused for good, and one whose container has stopped since is not.
* `outcome = "timeout" => process # "runs"` and `canceled ~> process # "runs"` of `ContainerTask`,
  `agent/taskengine/docker/processor.go:283`. `agent/taskengine/basetask.go:453` has "Cancel the
  task invocation", and line 309 "Terminated command process due to timeout"; neither processor ends
  the command that is cancelled, and that of docker does not end the one that is late.
* `OnlyAsAllowed` of `SendFile` (`Apart = FALSE`), `agent/taskengine/sendfile.go:237`. A task
  without `overwrite` returns `EFileAlreadyExist` for a file that exists; two fetches that both find
  none both write it.
* `agent/taskengine/sendfile.go:161`. The comment at line 160 has a file in the place of the
  directory reported by the invalid interface; `MkdirAll` at line 153 fails first, so
  `ECreateDirFailed` goes to the finish interface, and line 162 is not reached.
* `agent/taskengine/sendfile.go:213`. An owner or group that does not exist is reported as invalid,
  as is what is rejected before anything is written; the file has then been written, and lies there
  with the owner it had. A repeated task without `overwrite` finds it, and so does one whose answer
  was lost or whose agent was killed half way.

*Timers and schedules.*

* `EntersWhenNotRunning` of `Timer` (`Prompt = FALSE`, no stop, no refresh),
  `taskengine/timermanager/timer.go:118`. taskengine/timermanager/timer_test.go:90 says "runTimer
  should not execute callback when isRunning indicator is true". runTimer reads isRunning in one
  critical section and sets it in another: the run has two goroutines, started by a firing and by
  SkipWaiting, that both read FALSE; the second one executes the callback while the first one's
  setRunning(true) is in force.
* `CompletionIsSent` of `CronTask` (as in `timers`), `taskengine/scheduletask.go:446`.
  taskengine/scheduletask.go:450 logs "Sent completion event for cron task on last invocation
  finished". An invocation reads NoNextRun when it has sent its last output, but leaves the factory
  only after Cleanup and SideEffect; a last firing in between is skipped as overlapped (line 324),
  NoNextRun is set too late for the invocation that just ended, and the completion event is never
  sent.
* `CompletionIsLast` of `CronTask` (as in `timers`), `taskengine/scheduletask.go:446`.
  taskengine/scheduletask.go:450 logs "Sent completion event for cron task on last invocation
  finished". The last firing starts a callback goroutine and sets NoNextRun; the previous
  invocation, reporting at that moment, reads it and sends the completion event, and leaves the
  factory before the callback looks: the last invocation then starts after the event, and sends a
  second one.
* `PeriodIsBounded` of `Schedules` (`Values` with 17 and 31),
  `taskengine/timermanager/ratescheduled.go:61`. taskengine/timermanager/ratescheduled.go:26 refuses
  what "is too large, i.e., larger than 1,000 days". The number may be any int64 and is multiplied
  by its unit before it is compared: the product wraps, and a period that is negative or small
  passes; a multiple of 2^55 seconds gives 0, by which scheduleNextRunTimeFrom divides.
* `NextIsClosest` of `CronExpr` (without its condition that no list is empty),
  `thirdparty/cronexpr/cronexpr_parse.go:434`. `thirdparty/cronexpr/cronexpr.go:64` has `Parse`
  return an error "if a malformed cron expression is supplied"; a range in the reverse order is
  accepted as an empty list of hours, minutes, seconds or months, whose first element `Next` reads:
  a panic. The weekdays `5-7` are such a range, for 7 is read as 0: an expression that is refused as
  expired.

*Updates.*

* `ValidatedRuns` of `UpdatePrep` (run `update_prep_invalid`), `update/routine.go:200`.
  update/routine.go:392 says "7. Validate agent executable file format and architecture", before the
  update script is executed. Validation comes after the extraction and leaves the directory there;
  the next check, half an hour later, finds the directory of the target version, compares it with
  the hash file the package brought, and executes its script without validating the agent: a package
  for another machine is refused once and installed the second time.
* `TwoVersions` of `UpdatePrep` (`MaxOffers = 2`, `MaxTroubles = 1`), `update/routine.go:337`.
  update/routine.go:335 says "Remove old versions, only preserving no more than two versions after
  installation". RemoveOldVersion removes the versions older than the one that runs; a newer one
  that was extracted by a check that failed later, and then superseded, stays: three versions after
  installation.
* `DownloadIsBounded` of `UpdatePrep` (`Elapsed = {35}`), `update/routine.go:245`.
  update/update.go:40 says "A timeout of zero means no timeout". The timeout of the download is what
  remains of the preparation, less five seconds, and is refused when negative: when exactly five
  seconds remain it is 0 and the download is not bounded at all.
* `ScriptRunsAlone` of `FetchUpdate` (`SlowGap = TRUE`), `taskengine/scheduletask.go:101`.
  update/routine.go:481 says "ENSURE: Mutex lock acquired and no running tasks". Fetch releases the
  lock before it increases the counter (scheduletask.go:99-106): a goroutine suspended between the
  two for longer than the updater's sleep is neither behind the lock nor counted, and fetches tasks
  while the script runs.

*Sessions.*

* `OverIsClosed` of `SessionChannel` (as in `sessions`), `session/channel/sessionchannel.go:115`.
  session/channel/websocketchannel.go:142 says "Close closes the corresponding connection." RunTask
  closes the channel when the session is over; a reader that is reconnecting at that time finds it
  closed, dials, and sets IsOpen: the connection of a session that is over stays open, with a reader
  and a pinger, until it breaks, and the reconnection of its last reader starts over.
* `CancelEnds` of `PortForward` (`MaxConns = 1`, `ClientLeaves = FALSE`, fairness as in `LiveSpec`),
  `session/port/port.go:124`. util/cancelflag.go:45 says "the go routine wakes up the running job".
  Execute answers by sending to reconnectToPortErr, which has no buffer (port.go:51) and is received
  from only in onError: while the pump is reading from an idle target, or is done, the send blocks,
  and a port session that was stopped or timed out goes on until its three hours are over.
* `WaitIsSeen` of `PortForward` (as in `sessions`), `session/port/port.go:207`.
  session/port/port.go:182 says "Waiting for reconnection to port!!". The handler tells the pump
  that it has reconnected before it sets reconnectToPort to false; if the new connection fails in
  between, the pump sets it to true and the handler to false: the next message does not reconnect,
  and the pump waits for good.
* `PluginEnds` of `SessionTask` (one session, `MaxKicks = 1`), `session/shell/shell.go:94`.
  util/cancelflag.go:45 says "In the go routine, once Wait returns, if the return value indicates
  that a cancel request has been received, the go routine wakes up the running job." The watcher
  ignores the value and asks State() twice; when it is Completed at the first question (is it
  Canceled?) and Canceled at the second (is it Completed?), because the timer of the channel fires
  after a kick, the plugin is not woken and its shell goes on.
* `SessionsAreSeen` of `SessionTask` (`Duplicates = TRUE`), `taskengine/session.go:176`.
  perfmon/perfmon.go:150 says "没有任务执行时才监控性能" (the load is watched only while no task runs), and asks
  GetSessionFactory().IsAnyTaskRunning(). A second run of a session id is refused as
  Session_id_duplicate, but RunTask then removes the id, which is the entry of the first run: the
  session that runs is no longer counted, nor found by a kick that stops it.
* `LateKickIsHarmless` of `SessionTask` (one session, `MaxKicks = 1`),
  `kickvmhandle/sessionhandle.go:26`. kickvmhandle/sessionhandle.go:29 logs "stop session failed"
  for a session that is not there. Between ContainsTask and GetTask the session may end: GetTask
  returns nil, its second result is ignored, and StopTask dereferences nil in a goroutine that does
  not recover: the agent ends.
* `PanicIsContained` of `SessionTask` (`FlowLimits = {0, 8191, 8192}`), `session/shell/shell.go:49`.
  session/port/port.go:82 says "Panic in session port plugin SHOULD NOT disturb the whole agent
  process". A flow limit from 1 to 8191 makes flowLimit / 8 / sendPackageSize zero (below 16384 for
  a port session, port.go:55), and the division panics in NewShellPlugin, called by the goroutine of
  DoSessionTask, which does not recover: the agent ends.
* `sent = [i \in DOMAIN sent |-> i]` in the mode `raw` of `SessionClient`,
  `agent/session/plugin/client.go:469`. The log at `agent/session/plugin/client.go:457` says "agent
  ready resend user input". Until the agent has sent its first output only the first chunk is kept,
  the others are dropped; and the one that is kept is sent with the next input, so never when the
  input ends first.
* `mpc = "done" /\ running ~> wpc = "done"` of `SessionClient`,
  `agent/session/plugin/portforward/portforward.go:166`. The line prints "connection ... closed"
  when `Loop` returns, but nobody closes the local connection: the writer waits in its read, and a
  local program that only listens waits for good.
* `running \/ mpc = "done"` of `SessionClient` (a speed below 8192),
  `agent/session/plugin/client.go:316`. The comment at line 310 has this set the rate of sending,
  and line 312 looks for a speed of zero; the quotient is zero below one package a second, and the
  division panics in `readLoop`, which does not recover: the terminal stays raw.

*Channels and heart-beat.*

* `ActiveIsUsed` of `ChannelMgr` (`Overload = FALSE`, `MaxConns = 3`),
  `channel/channel_manager.go:64`. channel/channel_manager.go:28 says "ActiveChannel   IChannel
  //current used channel". When SelectAvailableChannel finds a channel that works, because
  IsSupported of gshell has just started it, it returns success without setting ActiveChannel: the
  switch reports "success: Current channel is 2" for a websocket that is closed, until
  checkChannelWorker runs within half an hour.
* `OneReader` of `ChannelMgr` (`MaxConns = 3`), `channel/channel_websocket.go:148`.
  vendor/github.com/gorilla/websocket/doc.go:124 says "Connections support one concurrent reader and
  one concurrent writer." A reader whose connection was closed by StopChannel sleeps a second before
  it looks at Working again; when openOtherChannel, which does not wait, starts the websocket within
  that second, the old reader goes on with c.wskConn and two goroutines read from the new
  connection.
* `LiftingIsHarmless` of `KickLimit` (`Counts = {0, 2}`), `channel/channel_gshell.go:247`.
  channel/channel_gshell.go:26 says "limit gshell kick_vm to occur up to gshellMaxFrequencyCount
  times in gshellMaxFrequencyPeriod second" with "0 means no limit". The count is compared with 0
  before the mutex is taken; when the answer of the service sets it to 0 in between, the reader
  takes a remainder by 0 or stores into a nil slice, and it has no recover: the agent ends.
* `HttpTriedAgain` of `Heartbeat` (`Settings` with `steady = {}`, `flapping = {"https"}`, not
  `hybrid`), `heartbeat/heartbeat.go:132`. heartbeat/heartbeat.go:261 says "If HTTP protocol is not
  accessible use HTTPS. Actively try the http protocol" after 24 * 60 heart-beats, and :50 "record
  the _sendCounter value when http ping failed". The value is also recorded when the retry of an
  https heart-beat succeeds, so over a network that loses an https request now and then http is not
  tried for any number of heart-beats.
* `category = "vpc" => site.vpc` in `ApiServer` (no `vpc`, an empty file, one restart),
  `common/apiserver/general.go:87`. `common/networkcategory/networkcategory.go:23` has the category
  "determined when detecting region id"; in the classic network it is `classic` after the first
  start and `vpc` after the next, which reads the region from the file the first one wrote.
* Certificates, `agent/util/httputil.go:72`. The message at `agent/util/httputil.go:73`,
  "certificate error, reload certificates and retry", and the test `agent/util/httpsutil_test.go:83`
  have a request that fails for an unknown authority reload the certificates and succeed. The error
  is compared with `x509.UnknownAuthorityError{}`, and an error that names its certificate is not
  equal to it; were it, the client of the request, made once, would keep its old transport; and
  `HttpPostWithTimeout` would send the second request as a `GET` without its data. So `ApiServer`
  has no such retry.

*Plugins.*

* `MigrationKeeps` of `PluginStore` (`MaxFaults = 1`), `pluginmanager/installeds.go:82`.
  pluginmanager/installeds.go:71 says "Now migrate data from old existed JSON file to the new BoltDB
  file". The file exists from its creation on and the insertion is a later step: a kill, or an
  insertion that fails and only closes the database, leaves an empty file, which step 1 of every
  later load takes for a migrated one, so the plugins of the JSON file are never seen again.
* `ListComplete` of `PluginStore` (`MaxFaults = 0`), `pluginmanager/installeds.go:93`.
  pluginmanager/installeds.go:92 says "done the migration. Simply fallback to general opening
  procedure." of another process that is doing or has done it. While it is being done the other
  process can have the file's lock first, for the creator takes it only after os.OpenFile, and reads
  an empty list.
* `RunsWhole` of `PluginInstall` (`MaxStarts = 5`, no kill),
  `pluginmanager/acspluginmanager/acspluginmanager.go:716`.
  pluginmanager/acspluginmanager/acspluginmanager.go:727 says "Double-check if specified plugin has
  been installed by another", and only the path that installs does so. A process that found the
  plugin installed in its first query takes the plugin's shared lock and executes it without a
  second look: in between it can have been removed, and be half unpacked by another process that
  holds the shared lock as well.
* `VersionsUnmixed` of `PluginInstall` (two processes, each installing another version from the
  service), `pluginmanager/acspluginmanager/acspluginmanager.go:962`.
  pluginmanager/acspluginmanager/acspluginmanager.go:947 logs "Check MD5..." before it unpacks, and
  :955 "Md5 not match, onlineInfo.Md5[%s], package file md5[%s]" is what a wrong package ends in.
  The file that is checked is named for the plugin while the lock is per version: a process that
  installs another version replaces it between the check and the unpacking, and its version lands in
  the directory and under the record of this one.
* `RecordedIsWhole` of `PluginInstall` (two versions installed from files, and a removal;
  `Persistent = FALSE`), `pluginmanager/acspluginmanager/acspluginmanager.go:338`.
  pluginmanager/acspluginmanager/acspluginmanager.go:272 says
  "直接删除相应的目录并将installed_plugins中对应的插件标记为已删除" (the directory is deleted and the plugin marked as
  removed). Two versions that are installed at once both find no record and both insert one; the
  removal marks the first, deletes the directory of both, and the other version stays recorded as
  installed.
* `RemovesWhatItRead` of `PluginInstall` (two versions installed from files, and a removal),
  `pluginmanager/acspluginmanager/acspluginmanager.go:284`.
  pluginmanager/acspluginmanager/acspluginmanager.go:273 says "删除之前先调用插件的 --stop和 --uninstall" (the
  plugin's --stop and --uninstall are called before it is deleted). The record is read before the
  lock is taken: an update that ends in between has replaced the version, and the removal stops,
  uninstalls, marks and reports the old one before it deletes both directories.
* `KeysAreInserted` of `PluginInstall` (one process installing, two removing),
  `pluginmanager/installeds.go:312`. pluginmanager/installeds.go:299 says "Would PANIC if key is out
  of range." Update is a Put: with the key of a record that has been deleted since it was read, it
  makes the record again, and nothing panics.
* `NoPanic` of `PluginInstall` (two processes installing one file),
  `pluginmanager/acspluginmanager/acspluginmanager.go:518`.
  pluginmanager/acspluginmanager/acspluginmanager.go:813 says "Could not found local package [%s]"
  of a package that is not there, and :525 returns that error. When the installer it waited for has
  failed, the callback of the shared lock first writes EnvPrePluginDir to fetched, which is nil, and
  the process panics.
* `KeptApart` of `PluginHealth` (`PullSetsScan = TRUE`), `pluginmanager/pluginmanager.go:409`.
  pluginmanager/pluginmanager.go:41 says "pluginHealthPull 与 pluginHealthScan
  的相距时间需要大于avoidTime，避免短时间内重复上报". The answer to a pull changes pluginHealthScanInterval without
  refreshing the timer of the scans, so until the next scan the pull computes the time that remains
  from an interval nobody uses and reports right before a scan.
* `SilenceIsKnown` of `PluginHealth` (`PostsLost = TRUE`), `pluginmanager/pluginmanager.go:381`.
  pluginmanager/pluginmanager.go:27 says "通过heartbeat判断插件状态后可以进行懒上报，只在插件状态变化时进行上报".
  lastPluginStatusRecord is overwritten before the report is posted and the post is not repeated, so
  a change whose post fails is never reported: the next lazy pull finds nothing new.

*Registration, states, load and keys.*

* `Deregisters` of `Hybrid` (`Refusals = {"code"}`, `Troubles = {"crash"}`), `hybrid/hybrid.go:190`.
  hybrid/hybrid.go:77 says "error, agent already register, deregister first". A deregistration
  killed after the server served it, and before instance-id is removed, leaves a machine that counts
  as registered. The server no more knows its instance; if it says so with a code, UnRegister keeps
  the files every time, and Register refuses: doing what the message asks never helps.
* `NoneReplaced` of `Hybrid` (two `Cmds`), `hybrid/hybrid.go:75`. hybrid/hybrid.go:77 says "error,
  agent already register, deregister first". instance-id is looked at before the request and written
  after it, without a lock: two commands that register at a time both pass, and the second
  overwrites the registration of the first, which the server keeps.
* `UnregisterOk` of `Hybrid` (`Troubles = {"request"}`), `hybrid/hybrid.go:184`.
  hybrid/hybrid.go:182 reports "deregister request err" and goes on with ret = true; the empty
  response is no JSON, so line 200 prints "unregister ok", and the files with the only key are
  removed while the server still has the instance.
* `RegisterOk` of `Hybrid` (`Troubles = {"write"}`), `hybrid/hybrid.go:136`. hybrid/hybrid.go:151
  prints "register ok". The errors of the six WriteStringToFile before it are ignored: with a full
  disk the server has a registration that the machine has not.
* `DefinitionApplied` of `StateManager` (`Modes = {"ApplyOnly"}`, no crash),
  `statemanager/statemanager.go:253`. statemanager/statemanager.go:36 says "Agent will attempt to
  apply the configuration until it is successful before ApplyOnly takes effect." A report names the
  configuration and a time but not the definition that was applied: with the old definition applied
  and reported after the new one's DefinitionUpdateTime, hasApplied holds for the new definition,
  whose mode becomes Skip. (The model takes SuccessfulApplyTime to be the time of the last
  successful report, as the code's comparison does.)
* `AppliedOnce` of `StateManager` (`Modes = {"ApplyOnly"}`, no crash),
  `statemanager/schedule.go:93`. statemanager/statemanager.go:32 says "Agent applies the
  configuration and does nothing further". The callback takes the configuration, with its
  SuccessfulApplyTime, from the last refresh, and enforce never records its success there: every
  firing of the timer before the next refresh that returns the new time applies the ApplyOnly
  configuration again.
* `PerfReturns` of `StateManager` (`Intervals = {1, 2}`, `Monitored = TRUE`, one job),
  `statemanager/statemanager.go:342`. perfmon/perfmon.go:154 says "拉取并解析终态配置时、应用或监控终态配置时不监控性能"
  (performance is not monitored while state configurations are pulled). IsStateManagerTimerRunning
  tests _stateManageTimer before it takes the lock and not after; CancelStateManagerTimer, called by
  the refresh, holds that lock and sets the pointer to nil, and the check, in a goroutine without
  recovery, panics.
* `TasksSurvive` of `Perfmon` (as in `agent`), `perfmon/perfmon.go:212`. perfmon/perfmon.go:150 says
  of the check "没有任务执行时才监控性能" (the performance is monitored only while no task runs). The factories
  are asked once, at the start of a check that then reports over HTTP and ends with Fatalln: a task
  that started meanwhile dies with the agent.
* `CpuKillIsEarned` of `Perfmon` (two `Checks`), `perfmon/perfmon_linux.go:65`.
  perfmon/perfmon_linux.go:77 says "cgroup limit cpu not work, self kill". Every check is a
  goroutine of its own; one that waits for the report of the new cgroup does not stop the next one,
  which increases the same count. Between cpuCgroupLimit = true and the reset of the count on
  return, another check sees the limit reached with the cgroup in place, and ends the agent for
  overloads from before the cgroup.
* `DeletedKeyExpired` of `CryptData` (`Timeouts = {0, 2}`), `cryptdata/cryptdata.go:140`.
  cryptdata/cryptdata.go:139 logs "KeyPair[%s] has expired for %d second, so delete it". The key is
  found expired by one operation of the map and deleted, by id, in another: between the two another
  request deletes the expired key and GenRsaKey stores a new one under the id, and the delete
  removes that new, valid key.
* `CommandsExit` of `CryptData` (one command), `ipc/client/client.go:108`. ipc/server/server.go:60
  says "if return error, client will get a nil resp and lose the error code". When the call itself
  fails, RmRsaKeyPair of the client logs resp.Status of that nil response and panics instead of
  returning its error code 1.
* `OkIsInstalled` of `ServiceControl` without its exception,
  `thirdparty/service/service_sysv_linux.go:104`. `rootcmd.go:551` prints "install assist ok";
  `Install` for System V returns no error of the links for the runlevels nor of chkconfig, so what
  is called ok may not be started at boot. `Uninstall` leaves the links.
* `thirdparty/service/service_windows.go:418`. The timeout of `stopWait` is "the time before windows
  will kill the service" (line 424); its `break` only leaves the `select`, so the wait goes on until
  the service has stopped or the query fails.
* `NonePassedOver` of `LastPanic` for entries of the kind `fatal`,
  `agent/checkagentpanic/redirectstderr_linux.go:80`. `agent/checkagentpanic/redirectstderr.go:25`
  has "panic", "runtime", "fatal" and "unexpected" as the words that begin such a message, which the
  search of the file uses; that of the journal takes "panic:" alone, so "fatal error: concurrent map
  writes" is not found.
* `agent/checkagentpanic/redirectstderr_unix.go:50`. The comment at line 23 has `RedirectStdouterr`
  "redirect os.Stdout and os.Stderr to aliyun-service.err" with System V or upstart; the variable
  `os.Stderr` is assigned, while the runtime writes a panic to descriptor 2, which is not: the file
  has no panic, and none is reported. On Windows the handle is set.
* The mark of a search, `agent/checkagentpanic/redirectstderr_unix.go:64`, is deferred, so it is
  also put when the search timed out or failed: the next one begins there, and "Check last panic and
  report it" (`rootcmd.go:309`) does not hold for what this one should have found. `LastPanic`
  counts that as `lost`.
* `status = "compliant" => Collected # {}` of `Inventory`, `agent/inventory/inventory.go:57`. The
  message at `agent/inventory/inventory.go:22` has a policy "successfully applied but there is no
  inventory data"; this is also what a run says in which every gatherer failed, since line 47
  declares an error of its own, and the configuration is reported as compliant.

## 6. Not modelled, and what is left

Hazards that no property covers, and why:

* `util/process/process.go:62`: Cancel looks at command but not at command.Process, nil between
  exec.Command and Start. TaskEngine has the step (Cancel sets panicked); that it can happen is a
  known outcome of the model, no text of the repository promises otherwise.
* `taskengine/scheduletask.go:112`: _startupFetched is set before the startup fetch has succeeded;
  if the request fails the periodic tasks are not fetched again. The result of the request is not in
  FetchUpdate, as nothing in the code looks at it, and the server is not modelled.
* `taskengine/scheduletask.go:93`: A kick that was accepted is dropped when the lock cannot be had
  in two seconds; only a later message fetches its task. Depends on what the server does next, which
  the repository does not say; FetchTimeout has the step.
* `taskengine/timermanager/timer.go:100`: RefreshTimer blocks on a channel of one element once the
  timer's goroutine has ended; a callback that refreshes a stopped timer twice never returns. No
  timer of the agent is both refreshed by its callback and stopped: the heartbeat and plugin timers
  are never deleted.
* `cryptdata/cryptdata.go:155`: In the second in which a key expires loadKey still accepts it while
  CheckKeyList hides it and the timer deletes it. The difference lasts one second and breaks no
  promise of the code; LoadKey and Expired keep the two comparisons.
* `statemanager/statemanager.go:140`: Without a cache an answer that says nothing has changed leaves
  result nil; the dereference is recovered. The server is assumed to answer a request without a
  checkpoint in full; otherwise each refresh ends in the recovered panic.
* `pluginmanager/installeds.go:330`: Keys are little endian, so the order of the cursor is not that
  of the keys once there are more than 255. What is found first among several records of one plugin;
  the model has fewer keys.
* `heartbeat/heartbeat.go:369`: _sendCounter and _acknowledgeCounter are advanced by two goroutines
  without a lock, so an increment can be lost. Only the numbers that are reported would be off by
  one; the model has the differences that decide the scheme.
* `pluginmanager/pluginmanager.go:278`: The pull reads lastPluginHealthCheckTime under the mutex and
  pluginHealthScanInterval, lazyReport and the other variables without it, while a scan may set
  them. The model takes the pull's reads as one step unless it waits, and the fields as words: only
  a scan that starts and is answered between two reads would be missed.
* `pluginmanager/pluginmanager.go:140`: pluginInfoMap holds the address of the loop variable, which
  in Go 1.20 is one for all plugins: every plugin is started with the timeout of the last one in the
  list. No text of the repository says whose timeout it is, and nothing that is modelled depends on
  it.
* `channel/channel_gshell.go:144`: Errors of Read are ignored: a device that can no longer be read
  counts as working, and checkChannelWorker closes the websocket for it. Working is what the model
  means by a channel that works, as the code does; no text of the repository says what a device that
  is not read from should be.
* `channel/channel_manager.go:133`: Uninit takes an answer from the timer's goroutine and holds
  ChannelSetLock while StopChannel waits for a reader of gshell that never ends. StopChannelMgr is
  not called: its only call, in rootcmd.go, is commented out.
* `session/channel/websocketchannel.go:120`: Each Open starts a pinger; those of earlier connections
  go on when they find the channel open again within their minute. More pings than needed are sent;
  no property of the session depends on their number.
* `taskengine/session.go:154`: DoSessionTask runs the sessions of one answer one after another, the
  second when the first is over. The service sends one session in an answer; no text of the
  repository says they run together.
* `session/shell/shell.go:92`: errorCode is written by the watcher after it has woken Execute, which
  may have returned it. The codes in question, Ok, Timeout and Notified, are reported with one
  status, Success.
* `update/routine.go:539`: The version file names the new version before its script has run, or even
  while it waits for tasks. Nothing in the repository reads the file.
* `kickvmhandle/agenthandle_unix.go:37`: A kick starts the updator, which extracts and installs
  beside the checks of the agent, and is killed after ten seconds wherever it is. What the updator
  has done by then, and what the update script does when its parent is killed, is outside the agent;
  no text says what a second update should do.
* `taskengine/basetask.go:291`: data_sended grows by a chunk whether or not its report got through:
  what a lost running report held is neither in the last one nor counted as dropped. No text says
  that running reports are reliable; that they are lost is modelled (Posts), not that the server
  misses them.
* `taskengine/basetask.go:470`: Cancel copies task.output, a bytes.Buffer, without a lock while Run
  appends to it or resets it. The lengths it may see are modelled; a torn slice may also crash the
  agent, and no property is about what a canceled report says.
* `hybrid/hybrid.go:115`: A registration whose response is lost stays with the server and nobody has
  its key. The request carries no name of its own by which it could be repeated; only the server can
  tell, and nothing in the repository says what it does.

Not modelled: `RunTaskNextRebootOnly` and `EveryReboot` apart from `RunTaskOnce`; the parsing of
task lists and of times; the encoding of reports over HTTP; the wire formats of sessions, their acknowledgements and terminals; the merging of
state templates; the gatherers of the inventory, one-off diagnostics, metrics and flags, whose
code is I/O or data without concurrency of its own; generated, vendored and third-party code. The
reasons stand with each component in `PROJECT.json`.

The next theorems worth proving are the properties of `PluginHealth`, for any number of checks; the
next composition is `UpdatePrep` with `FetchUpdate`, whose `UpdateStart` stands for a check that ends in `ExecuteUpdateScript`.
