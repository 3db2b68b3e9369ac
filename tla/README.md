# laya-server: verification project

laya-server answers classification requests over HTTP with a fixed number of
ONNX Runtime sessions, and comes with scripts that install, switch and remove
it; its model is prepared, released and measured by a set of Python tools. This
directory holds TLA+ models of the parts that are hard to test, the TLC
configurations that check them on small instances, and TLAPS proofs of their
safety for every instance.

Paths below are relative to the repository (`src/scheduler.rs` is the Rust
file; in `PROJECT.json` and in comments of modules the repository itself has
the prefix `src/`).

## 1. The system

| Component | State | Operations | Talks to | What is hard |
|---|---|---|---|---|
| Scheduler (`src/scheduler.rs`) | `State` (accepting, waiting, inflight, driver waker, tasks) behind a mutex; a semaphore with one permit per session; the pool of sessions | `Client::system_one`, `Client::close`, `snapshot`, `Scheduler::run` | called by the HTTP handlers and the server; runs the engine on blocking threads | callers, blocking threads and the driver interleave; deadlines, disconnects, panics, close; the driver's future may be dropped |
| Server (`src/server.rs`, `src/main.rs`) | the select, the drain, the grace period, the exit status | start, stop signal, drain, forced exit | owns the scheduler's `run`, axum, the signals | order of shutdown, failures seen before, a hanging engine |
| HTTP API (`src/api.rs`) | none of its own besides the token | authenticate, check, parse, call, answer | scheduler, metrics | the client may leave between any two polls |
| Metrics (`src/metrics.rs`) | counters and histograms | observe a request, encode | API, engine, scheduler's gauges | one observation per request, whatever its end |
| Engine (`src/engine.rs`) | a session | one inference: sequence, model, postprocess | called on a blocking thread | may hang or panic |
| Sequence, postprocess (`src/sequence.rs`, `src/postprocess.rs`) | none | truncate, build rows, collate; choose temperature and option | engine | truncation limits, lost markers, padding, ties and bucket borders |
| Request parsing (`src/system_one*`) | none | parse, render | API | nesting depth, duplicate keys |
| Model loading, configuration (`src/model.rs`, `src/config.rs`) | none after start-up | verify, load, smoke test | ONNX Runtime | files used after they were verified |
| macOS command (`scripts/laya-macos.sh`) | lock, process record, transaction directory, current and previous configuration | install, start, stop, update, recover | the server process, other terminals | signals, kills and power loss between any two file operations |
| Linux installer (`scripts/install.sh`) | lock, releases, link, configuration, service, user | install, upgrade, rollback, uninstall | the service manager, the user database | any command may fail or be interrupted while files are exchanged one by one |
| Windows command (`scripts/laya.ps1`) | OS lock, transaction file, process record, current and previous configuration | the same as macOS | the server process | exceptions, Ctrl-C, kills and power loss between any two steps; a switch that also starts and stops the candidate |
| Model preparation (`tools/model-prep`) | the official files, the exported bundle, the validation report, the manifest, the golden fixtures | prepare, export, verify, record, fixtures | each tool reads what the ones before have left | a tool killed between two writes, tools repeated out of order, reports that outlive what they report on |
| Release tooling (`tools/release`) | the model archive, the packages, release.env | pack, build, release | the manifest of the preparation | archives and packages of different ages |
| Benchmark (`docs/validation/benchmark.py`, helpers of `docker-smoke.py`) | counters and rows shared by client threads, the sampler's stop event, reports, a container | measure a group, a configuration, a run; record a failure | docker, the server in a container | threads, a service that dies, an exception at any call, clean-up in finally clauses |
| Acceptance tests, container, CI | files | offline | all of the above | |

Correctness, in one sentence per component. *Scheduler*: every call gets one
answer in time, first come first served, no slot or session is ever lost, and
no failure is forgotten. *Server*: it always ends when it should, in time, and
its exit status tells the truth. *API and metrics*: a request is counted once.
*Engine and its pure parts*: what is cut, chosen or rejected is what the
reference says. *Installers*: at any moment, whatever was interrupted, there is
one consistent deployment, or a complete record to restore it from. *Model
preparation and release*: no report, fixture or release vouches for files that
were not tested. *Benchmark*: its limits hold, it ends, and what it writes and
exits with is what happened.

## 2. Modules

| Module | Models | Extends |
|---|---|---|
| `Scheduler` | `src/scheduler.rs` | |
| `Admission` | the contract of the scheduler (`docs/compatibility.md` 7.3), without its mechanics | |
| `SchedulerRefinement` | the mapping from `Scheduler` to `Admission` | `MCScheduler` |
| `SchedulerProofs` | theorems about `Scheduler`, and the refinement, proved | `SchedulerRefinement` |
| `Server` | `src/server.rs`, the handler of `src/api.rs` around the scheduler's call, the exit status of `src/main.rs` | `Scheduler` |
| `ServerProofs` | theorems about `Server` | `Server`, `SchedulerProofs` |
| `MacUpdate` | `scripts/laya-macos.sh` | |
| `MacUpdateProofs` | theorems about `MacUpdate` | `MacUpdate` |
| `LinuxInstall` | `scripts/install.sh` | |
| `LinuxInstallProofs` | theorems about `LinuxInstall` | `LinuxInstall` |
| `WindowsUpdate` | `scripts/laya.ps1` | |
| `WindowsUpdateProofs` | theorems about `WindowsUpdate` | `WindowsUpdate` |
| `Inference` | `src/sequence.rs`, `src/postprocess.rs`, and the official functions they must agree with | |
| `InferenceProofs` | theorems about `Inference` | `Inference` |
| `ModelPipeline` | `tools/model-prep` and `tools/release`, the tools that read each other's files | |
| `ModelPipelineProofs` | theorems about `ModelPipeline` | `ModelPipeline` |
| `Benchmark` | `docs/validation/benchmark.py`, with the container helpers of `docker-smoke.py` | |
| `BenchmarkProofs` | theorems about `Benchmark` | `Benchmark` |
| `MCScheduler`, `MCMacUpdate`, `MCLinuxInstall`, `MCWindowsUpdate`, `MCModelPipeline` | symmetry and views for the instances | |
| `MCInference`, `MCBenchmark` | values of constants for the instances | |

Definitions marked "Mutant" in a module are changed forms of the definition after
them, each a plausible mistake in that code. `PROJECT.json` pairs them with the
property they violate; no behaviour of a specification uses them.

### Scheduler

A *request* is one call of `Client::system_one`. Its state is spread as in the
code: `pc`, `left` and `outcome` are its future, `permit` and `ahead` its
acquire future, `task`, `ended` and `reply` the blocking task that works for
it and the channel back. `accepting`, `waiting`, `inflight`, `driver` are the
fields of `State`; `sessions` is the pool; `drv`, `joinWaker`, `failure` and
`reported` are the future of `run` and the `Dispatcher` that survives it.

*Atomicity.* The runtime is single-threaded (`main.rs:95-99`), so one poll of an
async function is one action, except that `execute` releases the state lock
between `acquire` and `spawn_blocking`: the phase `"admitted"`, in which only
blocking threads and the clock move (`AsyncIdle`). A blocking thread makes one
step per lock operation: the pop of a session, the engine, the close on a
panic, the count of the slot, the return of the permit, the send, the end of
the task. `Shared::close` is atomic although it takes the lock and then closes
the semaphore: every code path that looks at the semaphore looks at
`accepting` first, in the same poll and on the same thread.

*tokio.* The semaphore is modelled by its contract: waiters queue in the order
of their first poll, a returned permit is assigned to the first waiter before
that waiter is polled, a dropped acquire future leaves the queue or passes its
permit on, `close` empties the queue and leaves assigned permits with their
waiters. The `JoinSet` and the wakers are modelled as far as a lost wakeup
could come from them: `joinWaker` and `driver` are the wakers stored,
`"parked"` a future that nobody will poll until one of them is used.

*Time.* `left` counts down the ticks to the deadline a caller waits for;
`Elapse` takes one from each. `ClockMayOverflow` allows `checked_add` to fail.
A caller at a passed deadline may be polled late: nothing is assumed about the
order of polls.

### Server

`Server` adds the select of `serve`, the drain, HTTP, a connection per request
and the exit status. `Select` closes admission, drops the scheduler's `run` if
it had not returned, and calls it again; `SendStop` needs `run` to have
returned; `ForceExit` is the grace period's end with the drain still pending.
A poll of the drain that finds both results at hand returns even at the
deadline, as `tokio::time::timeout` polls its future first.

### Admission

The abstract service: `open`, a place per request, the queued requests before
it, its answer. A slot is assigned, worked on and handed to the first in the
queue; refusal `queue_full` is possible only when all slots are busy and at
least `Capacity` requests are queued *or assigned but not yet noticed*: the
code compares the limit with callers not yet polled since their permit came,
which the contract must allow. The gauge, the sessions, the
channel and the driver have no counterpart.

### MacUpdate

Every invocation of the command is a shell in a terminal. Shells share
`current.env` and `previous.env` (`current`, `previous`: the version they name),
`transaction/` (`transaction`: which of its files exist and what they say),
`process.env` (`record`: the process it names) and `operation.lock` (`lock`: who made
the directory, or that its maker is gone; `owner`: whether the file is in it). What a
shell believes, its variable `locked`, is separate from what the directory is.
`pc`, `job`, `after`, `version`, `wasRunning`, `child`, `locked` and `validated`
are the variables of a shell; `job` is the action with `--recover`, and becomes
`"recover"` when an update rolls back, because from there on it does the same.

*Atomicity.* One action per change of a shared file or process, so a signal, a
kill and another terminal come between any two: `mkdir`, `locked=1` and the owner file
of `acquire_lock` are three steps, and so are `rm`, `rmdir` and `locked=0` of
`release_lock`. A trapped signal is handled when
the command at hand has ended: `Signal` is a step of its own that sends the shell
to cleanup from wherever it is. In cleanup only the trap on EXIT is reset, so a
further signal ends the shell (`SignalAgain`). `Kill` ends a shell at once,
`PowerLoss` all shells and processes. A stale lock is renamed by the user
(`docs/macos.md` tells them how to make sure its owner is gone); an action that
finds a lock ends without effect and is not modelled.

*Abstractions.* A process is one value: PID, start time, executable and
directory together, which is what `owned_process` compares. Downloads, checks of
archives and the check of the API succeed or fail. `strays` is a ghost: the
processes whose shell was killed or gave up before it had recorded or reaped
them, or could not record them, of which no file can know. `hit` is a history variable
that no guard reads: whether a signal fell where the lock and `locked` disagree, while
the lock is made or removed (`"held"`), or between `rmdir` and `locked=0`
(`"released"`).

*A lost lock.* After the last of these, cleanup takes whatever lock it finds for its
own, removes its owner file and the directory, and reads and clears the record. The
model goes on from there: two shells may work on one deployment, commands meet what the
other has removed and fail (`WriteOwnerFails`, `RemoveLockFails`, `ForgetFails`,
`LaunchRefused`, `SwitchFails`; `Fails` says where `set -e` ends the shell and where it is off),
a transaction is renamed into another. Nothing is claimed of that world but its types:
the other properties say `~Misled`. Not modelled: the token, releases and models on
disk.

### LinuxInstall

One shell at a time, because the lock directory turns others away before they
have done anything. `server`, `token`, `manager`, `service`, `link`, `user` and
`owned` are the files and the user it works on: the value is the part that
matters for what is served (the port in server.conf, the token, the release and
port that the launch script of a directory was written with), or whether the file
exists. `Torn` is a file cut off by a write that failed or died. `enabled`,
`wanted` and `up` are the service manager's: started at boot, kept up, and what
the running process was started from. `new`, `old`, `work` and `switched` are
variables of the shell; `backups` are the directories of copies that outlive it.

*Actions.* One per command of `activate_version`, `rollback`, `uninstall_service`
and `cleanup` that changes one of these. `CommandFails` is `set -e` at any of
them, with the file at hand perhaps cut off; `Signal` is a trapped signal;
both go to `Abort`, which is `cleanup` with its look at `switched`. In cleanup
the traps are reset, so `SignalUntrapped`, like `Kill`, ends the shell and leaves lock and
copies. After `PowerLoss` the lock is gone with /run, and an enabled service
starts. `Crash` and `Respawn` are the process and the policy that restarts it.

*Abstractions.* The four service managers are one: stop and disable fail without a
service file, start leaves a running service alone. `service_remove` is two steps,
`Disable` and `RemoveService`. The last `rm` of a rollback is one step, `Removed`: it
may fail for each of its files, and as nothing looks at it, the removal is reported in any
case; every other command of a rollback ends it when it fails (`RollbackFails`). Not modelled: the directories
with their `.laya-installer` marks, the contents and permissions of releases and
models, the choice of tools. `before`, `good` and `report` are ghosts: what was
deployed when the shell began, what the last accepted API check used, and what
the user was told.

### WindowsUpdate

One operation at a time: the operating system lends `operation.lock` to one process and takes
it back when that ends, so a second invocation leaves before it has read anything and
there is no stale lock. `current`, `previous`, `transaction` and `record` are the JSON
files, each replaced as a whole (`Write-Json` renames); `reused` says that the PID on
record belongs to a foreign process, at which `Owned-Process` throws. `pc`, `job`,
`after`, `config`, `wasRunning` and `child` are the script: `job` is the action, and
becomes `"rollback"` in the catch of `Switch-Candidate`; `after` is what follows a call
of `Stop-Owned`, the one function called from five places. `validated` and `strays` are
ghosts: what this operation has seen answer, and servers whose operation ended between
`Start-Process` and the write of `process.json`, or could not reclaim them.

*Atomicity.* One action per change of a file or a process. `Fails` is an exception of
any command, `Throw` where it goes: to the rollback from inside the try of a switch, to
`Stop-Owned` from that of a start, out of the script otherwise. Ctrl-C runs finally
clauses but no catch, so it is a `Kill`: the lock is released, the transaction stays.

*Abstractions.* A server is its PID with its start time. A configuration is a release
with its settings. Why a check fails (another process on the port, among others) is left
open. Not modelled: the token, the directories of programs and models, access rights, the
VC++ runtime.

### Inference

One request: `New` sets the budgets, `Build` makes one row per question or
rejects the request, `CollateRows` pads the rows into a batch, `Run` is the model,
`Respond` checks the outputs and answers, `Fail` is its error. A token is known by where it
comes from (which question, option, position), so that a marker that is cut or shifted is
seen; a text by its number of tokens. A logit stands for the probability it becomes, an
integer in any unit, besides `NonFinite`, which no check lets pass, and `Large`, which is
finite and overflows when it is divided by the temperature; a row of the action head is a
distribution or not.

*Answers.* Each kind of question has its rule, as in `answer`: a choice is the first
greatest of its own options (`Best`), a score the expectation of its levels (`Expected`),
a proposition the probability of "true", the second option. The operators named
`Official` are a second definition, from `rl_common.build_sequence` as the oracle calls
it, from `fixtures.py` and from the official rules that `docs/compatibility.md` 5 writes down: signed
arithmetic, one cut of the whole sequence, `argmax`, `sum(i*p_i)` and `p[1]`. The
cut of an option at 48 tokens (`OptionText`) is shared by both and so not compared.
Rows of the batch and of the outputs are nested sequences; that the flat arrays of the
code are indexed alike is not checked.

`Run` gives any outputs, those of the padding too, or some of another shape (`<<>>`). Not
modelled: division by the temperature, exp and the order of sums, whose result is
the same number on both sides, the rounding and the confidence, the value of the action head, the
rendering of state and options as text.

The constants are assumed to be what validation and model guarantee: numbers of tokens
are natural, a question has two options or more (`TooFewOptions` in `build`). What the model computes
is checked by the code and assumed of nothing.

### ModelPipeline

The tools are run one at a time, each after those it needs have succeeded once
(`Before`, the order of `tools/model-prep/README.md` and CI), and any of them may be
run again. `machine` is the tool at work and its step; `bundle` the files of the
export (`graph`, `data`, `normalized`, `copied`); `validation`, `manifests`,
`golden`, `archive`, `runtime` and `release` what later tools write. A file is
known by its contents: a graph by the export that saved it and its form, the data by
its export. `tested` is a history variable: the bundles that have agreed with the
official model.

*Atomicity.* One action per write of a shared file. `Kill` is an exception or a kill
before any of them, with the file at hand torn. `Compare` may pass or fail: what the
numbers are is not modelled, what may be said after them is.

*Abstractions.* One platform's package stands for all four. The digests of the
downloaded files are "whole" or "short"; a connection that closes early gives a
short file its final name, which `Accept` refuses.

### Benchmark

`pc`, `conf`, `grp`, `raised`, `success`, `exit` are the main thread; `raised` is an
exception on its way through the finally clauses. `worker` and `reply` are the client
threads of a group, with the shared counters (`started`, `completed`) and what is
in requests.jsonl (`rows`, `last`, `clean`: how many, when the last one ended,
whether all are successes). `sampler` and `stop` are the sampling thread and its
event; `reports` and `failure` the summaries and failure.json of the configuration;
`service` and `removed` its container.

*Atomicity.* A client thread takes one step per lock section and one for the
request between them; the end of a request is read from the clock before the lock is
taken. The main thread takes one step per call of docker or phase of a group; each
may raise. `ServiceDies` can happen at any time; after it nothing but transport
errors comes back. `answered` and `sound` are history variables: what the service
really answered, what became of the configurations before.

*Abstractions.* Percentiles and sampled figures are left out, as is the warm-up but
for its outcome. A second is a tick, limits are constants.

## 3. Runs

| Run | Instance | What it shows |
|---|---|---|
| `admission` | 3 requests, 1 slot, 2 places, the clock may overflow | types, permits, gauges, limits; no idle slot and nobody overtakes; a session for every task; refused calls never run and the slot is back before the reply; close wins over the queue's deadline; `Scheduler` implements `Admission` |
| `slots` | 3 requests, 2 slots, no queue | nothing starts after a close between the two locks of `execute`, while another slot panics |
| `progress` | 2 requests, 1 slot, 1 place, `run` dropped once | no lost wakeup, no panic forgotten, done means drained; every caller is answered though the engine may hang; if it returns, slots come back, tasks are joined and a closed scheduler drains |
| `server` | 2 requests, 2 slots, no queue, HTTP may fail | a clean exit status is honest; HTTP stops only after the work; a drain ends within the grace period though engine and clients hang; a panic ends the service if the engine returns |
| `mac_safety` | 2 terminals, 2 releases, 3 processes, 1 signal, 1 kill | until a signal falls between `rmdir` and `locked=0`: one operation, one server, no record of a living server lost, only validated configurations committed, every unfinished switch recoverable; and always: a lock is left behind only by a kill or by a signal while it is made, removed or cleaned up |
| `mac_foreign_lock` | as `mac_safety`, no kill | violated: see section 4 |
| `mac_transaction` | as `mac_safety`, 1 signal | violated: see section 4 |
| `linux_install` | 2 releases, 2 ports and tokens, 2 signals, 2 kills | what is reported is served, a rollback restores, the configuration accepted last is never lost |
| `windows` | 2 configurations, 3 servers, 3 kills, any command failing | outside a switch one server, running what is configured; a switch ends whole: old or new, validated, running as before |
| `benchmark` | 2 configurations of 2 groups, of 1 and 2 clients; thresholds 1 second and 1 request, limits 2 and 2 | limits hold, every attempt has its row; what is written of a failed configuration counts what was answered; exit status 0 means that all was sound; the command ends |
| `pipeline` | 2 inputs, 2 cases, 2 versions, 2 exports, 2 recordings, 2 kills | a report is about the bundle that is there; golden fixtures and releases only of what was tested |
| `inference` | 1 or 2 of 7 questions, 3 states, 13 budgets, 2 calibrations; answers with 1 state, the default budget and 6 logit rows per length | rows and rejections, the places of options in the batch and the usage are the official ones; a request is answered exactly when the outputs keep their contract, and then each kind of question by its official rule |

*Bounds.* One slot and two places in the queue make three requests meet every handoff,
and two is the smallest queue in which order matters. Two slots without a queue, in
`slots` and `server`, let one slot fail while the other works or is being taken. In `server` the
engine's only result is "ok", besides a panic: nothing in `serve` can tell an answer
that is an error from another. One tick is enough to tell "before" from "after" a
deadline. `MaxDrops` bounds how often the future of `run` is dropped: once shows that
state survives, and the server never drops it twice. `Requests` is the number of calls
in a behaviour; clients that call again are further requests, as the code keeps no
trace of a finished call. For macOS, two terminals are a console that waits and an
operation that overtakes it; two releases are the old and the new; three processes are
the old one, the candidate, and the old one again after a rollback; one signal meets
every step of an operation, and one kill every step of its cleanup, where a second signal
would do no more than the kill does (`SignalAgain` and `Kill` both are `Vanish`, with one
in `hit` and the other in `kills`); that is enough to leave every intermediate state,
and the next operation starts from it. For Windows the second kill meets the recovery
of what the first one left, and the third the recovery of that. For Linux the second
kill meets the operation that works on what the first one left. `MaxSignals` and
`MaxKills` bound behaviours, not the proofs.

In the benchmark, two clients interleave on the shared counters, a group before shows
what is kept of it when the next one fails, and the second configuration what the
first one left; one second and one request below limits of two separate "too early",
"enough" and "at the limit". In the pipeline a second export and recording are those
that outdate the first; the second kill meets what the first one left. In the
inference, headers and options lie below, at and above every cut (48 tokens of an
option, 16 and 8 of the head, 4 of an option's share) for the budgets of the oracle,
each bucket of options is once overridden and once not, and two questions of
different length pad each other. The logits have their greatest value
first, last, twice or everywhere, and in their last place, which is padding for the shorter
question, a value that is not finite or overflows.

*Reductions.* Runs without liveness use symmetry over requests, terminals,
releases and processes: model values that only index the state or are compared.
`Seen` in `MCScheduler` identifies states that differ in entries of `ahead` that no longer
matter: a request never queues twice, so one that has left the queue is never
looked at in `ahead` again. `Seen` in `MCMacUpdate` drops `previous.env`, which
no step reads, and the variables of a shell that it will set before it reads them;
states with the same view have the same steps and the same values of the properties, and
no liveness run uses symmetry.

*Constraints* stop at states (TLC still checks the invariants there). In `mac_safety`:
`FewProcesses`, at three processes at once, of which two are strays; `OneLoss`, at a kill
besides a signal that the lock does not survive; `LittleMisled`, which keeps of what follows a
lost lock, of which nothing is claimed, as much as shows how commands fail there (in that
part the view is coarser than the state: `Fails` reads `job`). In `inference`:
`RunOnce`, which runs the model at the default budget and one state only, as the answers
depend on the logits alone.

*Deadlock* is checked everywhere but in `server`, `benchmark` and `inference`: the
process, the command and the request end.

### Fairness

* `CallerFairness` (in the specification of `progress`): the clock advances, and
  tokio polls a future it has woken. The semaphore, the timer and the channel each
  wake the caller's task when one of its actions becomes possible. Arrival and
  cancellation are not fair. `EveryCallerAnswered` rests on nothing else.
* `WorkFairness` (a hypothesis of `ClosedDrains` and `WorkIsCollected`): a blocking
  thread runs its closure to the end and the engine returns.
* `DriverFairness` (a hypothesis of `ClosedDrains` and of the joining in
  `WorkIsCollected`): the owner calls and polls `run`, as the documentation of
  `Scheduler` demands. Dropping it is not fair and bounded.
* `ServerFairness`: the clock, the polls of the select and of the drain, and
  those of handlers that are in a call. They share one condition, as none of them can repeat for ever
  and leave another out: calls, tasks, deadlines and stages only go forward. Clients, connections and the stop signal
  are free. `BackgroundFairness`, that the engine returns, is a hypothesis of
  `PanicStopsService` alone: `run` drains before it reports and the grace period
  begins only after the select has ended, so a panic in one slot while the
  engine hangs in another leaves a process that answers `unavailable` until it is
  stopped from outside.
* `FairSpec` of `Benchmark`: the main thread, the sampler and every client thread go
  on, because each call of docker and each request has a timeout. Nothing is assumed
  of the clock (a group also ends by its number of attempts), and the service need
  not die.

## 4. Where documentation and code disagree

Two are runs that check a sentence of the documentation and end in a counterexample.

* `mac_transaction`: `docs/macos.md:60` describes `transaction/` as complete while it
  exists. An interruption of its removal, after the commit, leaves it
  without some of its files; `update --recover` then cannot load the old
  configuration, or does not know what was running.

* `mac_foreign_lock`: `docs/macos.md:115` says that the script never removes a lock it does
  not know. `release_lock` (`laya-macos.sh:130`) clears `locked` after `rmdir`; a signal
  between the two makes cleanup remove the lock that another terminal has made since. What follows is why
  the safety properties of `mac_safety` speak of the time before: with the lock of an update
  removed, another operation may launch a second server beside the candidate, or take its
  record and its transaction away.

Seven more were met while modelling and are recorded here without a run.

* `docs/macos.md:112` says that a trapped signal releases the lock. One between `mkdir` and
  `locked=1` of `acquire_lock` does not, nor one between `rm` and `rmdir` of `release_lock`
  (the `rm` of cleanup fails and ends it), nor a second one in `cleanup`, which resets only
  the trap on EXIT (`laya-macos.sh:493`): `Window`, `Signal` and `SignalAgain` in
  `MacUpdate`. `LockIsReleased` says that these are all; the user has to rename such a
  lock like one left by SIGKILL.
* `docs/installation.md:45` says that a recovery that fails is never claimed as a success. The
  `rm -f` of link and manager file that ends the rollback of a first installation
  (`install.sh:291`) is not looked at; when it fails, the removal is reported, and the next
  run takes the link for a deployment whose service file it cannot copy (`Removed`, `Plan`
  and `Backup` in `LinuxInstall`). That no service is left, running or enabled, holds in any case:
  `RollbackRestores`.
* `docs/installation.md:42` says that repeating the command upgrades or repairs. An end
  between `useradd` (`install.sh:107`) and `touch user-owned` leaves a user that the
  installer refuses; an end between server.conf and token.env (397, 398), a
  configuration it refuses; a failure between link and service file (404, 405) of a
  first installation, a link without the service file it insists on copying:
  `CreateUser`, `MarkUser`, `Plan` and the actions of `Activate` in `LinuxInstall`.
* `docs/macos.md:99` says that after a candidate has failed the old version is started
  again. `launch` may fail after the fork, before the process is on record
  (`laya-macos.sh:372-375`); `stop_owned` of the rollback then finds no record, and the next
  `launch` overwrites `child_pid`: the candidate runs on beside the old version, or keeps
  its port from it, and no shell knows of it (`LaunchFails`, `Spawn` and `strays` in
  `MacUpdate`). `laya.ps1:436-440` reclaims the process in this case.
* `docs/mvp-validation.md:84-90` lets the clients stop sending once 60 seconds and 100
  requests are reached, and calls a group short of them failed. The clients stop by the
  clock (`benchmark.py:110`), the summary judges by the end of the last row
  (`benchmark.py:25`): when the last requests end just before the sixtieth second and their
  threads look at the clock just after it, nobody sends another, and a group that met
  the protocol is reported as one that did not. `ExitMeansMet` holds all
  the same, as the error is on the safe side.
* `docs/windows.md` says that the running state is preserved. `laya.ps1:567` asks for it
  before a download that may take minutes: a server that ends meanwhile, by Ctrl-C in its
  console, is started again by the update: `Install`, `ProcessEnds` and `Validated` in
  `WindowsUpdate`.
* `tools/model-prep/README.md:69` says that a repeated run downloads unfinished files
  again. A connection that is closed early without an exception ends the loop of
  `prepare.download`, and the short file gets its final name; the digest refuses it, and
  each repetition refuses it again without a download: `Fetch` and `Accept` in
  `ModelPipeline`.

## 5. Proofs

Eight modules hold theorems; all their obligations are proved by SMT, Zenon and the
temporal backend. They assume only what the named assumptions of the
constants say. The type invariant of each module is proved with the rest, and no run
repeats it but `admission`. Sets of requests, terminals and processes need not be finite: where
cardinalities are counted, the counted sets are shown to be finite by induction,
as every step adds at most one element.

### SchedulerProofs

For every set of requests, number of slots, capacity and timeouts, `Spec` implies
the safety invariants of the runs and the two action properties about close. They are
not inductive alone. The argument goes in layers, each inductive relative to
those before it:

1. `TypeOK` with the fact that no count is negative;
2. `Coherence`: what the caller's phase, its permit and its task can be
   together (a task exists only after admission, a waiter holds no permit, ...);
3. `PermitInv` and `GaugeInv`: `PermitsConserved` and `GaugesHold`, by the
   effect of every action on the sets that are counted;
4. `QueueInv`: no idle slot while somebody waits, nobody overtakes; `ahead` is
   an order on the queue, because a newcomer has the whole queue before it;
5. `DriverInv`, in three parts that are inductive each: the wakers of a parked run,
   that nothing begins once it has returned, and the failure it keeps and reports;
6. `LostInv` and `SessionInv`: sessions plus those in use plus those lost to a
   panic are the slots, and none is lost while admission is open and the permit
   not yet held back;
7. `OutcomeInv`: what a caller has been told against what it owns.

The refinement is the last part of the module. `SchedulerImplementsAdmission`: `Spec =>
ImplementsAdmission`, for any number of requests and slots and any capacity.
`PlaceMeaning` shows that the cases of the mapping exclude each other, because caller,
permit and task agree (`Coherence`); `CountedAlike`, that what the guards of `Admission`
count is what the scheduler counts (its permits, its gauge). Then one lemma per kind of
step says what it looks like through the mapping: a newcomer is refused, starts or
enters the queue; a permit given back is a handoff to the longest waiter; close is seen
once; everything else is not seen at all. The argument needs all layers above
(`SessionInv`, because a task that found no session would close admission and answer
"unavailable"; `LostInv`, because the abstract service says `task_failed` only after
close) and one more, `AdmissionInv`: a waiter of an open service is queued or has its
permit, and a closed semaphore has no queue.

### ServerProofs

For any number of requests and slots and any grace period:

1. `SchedulerStep`: between two selects, a step of the process is for the scheduler one
   of its own, or none. So the lemmas of `SchedulerProofs` about single steps keep
   `TypeOK`, `Coherence`, `PermitInv`, `GaugeInv` and `DoneInv`; `SelectKeeps` does so
   for the select, which closes admission, drops `run` and calls it again;
2. `KnownFailure`: the scheduler's own guarantee, that a joined panic is reported by
   the next return of `run`, ends with the select: `run`, called again, returns
   without the failure it reported before. It holds as long as the result of the select
   may still lead to a success, which is all the exit status needs;
3. `StageInv`, `ConnectionInv`, `HttpInv`, `ExitInv`: HTTP is told to stop after `run`
   has returned, ends when no connection is open, and a closed connection has no call
   under way. `StopComesAfterWork` and `ExitIsHonest` follow.

### MacUpdateProofs

For any number of terminals, releases, processes, signals and kills:

1. `TypeInv`: types, and what a phase of a subroutine says about its caller; inductive
   whatever becomes of the lock.
2. `LockInv`: a shell that works on the deployment has the lock, and `locked` says so.
   At most one shell is then in an operation, which the rest builds on. It holds until a
   signal falls between `rmdir` and `locked=0`, and so does what follows: each invariant is
   proved in the form `Misled \/ ...`, and `TrustLasts` says that a step into the time before
   came from it.
3. `RecordInv`: no living process is on record when a shell is about to write its
   own there or to remove the record. `RecordsAreKept` follows, and a late console cannot
   break it because it compares before it removes, under the lock.
4. `ReleaseInv`: the shell that made the lock knows so, and finds its owner file where it
   will remove it, until a signal hits while it makes or removes the lock or cleans up:
   `LocksAreReleased`, which has no exception besides.
5. `VersionInv`: at every phase, what is loaded is the old or the new version of the
   transaction, and validated where it is about to be committed: `CommitsAreValidated`.
6. `RunsInv`: the process on record runs the version that the phase is about:
   `SwitchesAreRecoverable`.
7. `ChildInv`: every process is on record, a stray, or the child of the shell at work:
   `ServersAreOne`.

### LinuxInstallProofs

For any number of releases, ports, tokens, failures, signals and kills:

1. `Values` and `ShellInv` together: which copies and choices a shell has at each phase;
2. `ServiceInv`: the process that is up was started from the link in place, nothing is
   up while link and configuration are exchanged, and nothing without a service file:
   with the check of the API, `ReportedIsServed`;
3. `BeforeInv`: the copies are those of the deployment found, and each step of
   rollback brings one more part of it back; a removal leaves no service, nothing up and
   nothing enabled, whatever becomes of link and manager file: `RestoredIsAsBefore`;
4. `GoodInv`: from the backup on, the accepted configuration is in a copy; a shell
   that ends without success hands it on in place or in what it leaves:
   `AcceptedConfigurationKept`.

### WindowsUpdateProofs

For any number of configurations, servers and kills:

1. `StartInv`, `StopInv`, `PhaseInv`: what an operation starts, stops and has validated
   at each phase. The fact that carries the rest: between two operations a transaction
   on file is all that is known, and every path from it goes through `Stop-Owned` and a
   validation of the old configuration;
2. `ServerInv`: a server that is no stray is on record or the child of the operation,
   and there is a child only while none is owned;
3. `RunsInv`: what the server on record runs when a configuration is committed or
   restored, and that none is owned where the deployment was stopped.

`CommittedIsServed` follows from 2 and 3, `SwitchesEndWhole` from 1 and 3 at the only
step that removes a transaction.

### ModelPipelineProofs

For any inputs, cases and versions, and any number of exports, recordings and kills:

1. `TypeInv`, and `Phase`: which tool a step belongs to, and that it runs because the
   ones before it have succeeded;
2. `Exported`, `Reported`: a finished export has left a graph in its final form; the
   report is gone while the bundle changes, and written only for a bundle that was
   compared: `ReportsAreCurrent`;
3. `Listed`: what is recorded was tested, and stays recorded as it was;
4. `Made`: the fixtures so far are of one recorded bundle, and what is missing is still
   to do: `GoldenIsTested`;
5. `Packed`: after a pack that succeeded, the archive of the recording at hand is whole;
   a release repeats the ids it compared: `ReleasesAreTested`.

### BenchmarkProofs

For any configurations, groups and clients, and any limits:

1. `TypeOK`, and `Flow`: where an exception can be on its way, when the client threads
   are at rest, and that a group leaves nothing behind;
2. `Tally`: attempts are rows and threads under way, answers are counted ones and
   threads that hold one; both sets of threads are finite by induction, as a step adds
   one thread at most. Both bounds of `LoadsAreBounded` come from it;
3. `Exact`, `Reported`: every report agrees with what the service answered, except the
   one of the group under way: `FailuresAreExact`;
4. `Closing`: whoever reaches the verdict has seen the service end by itself and the
   container go; the history of earlier verdicts is kept: `ExitZeroIsSound`.

### InferenceProofs

For any number of questions, of any length and with any number of options, any state,
calibration and logits. `Inference` computes with recursive functions over sequences
(concatenation, sums, maxima), and what such a definition computes for every input
needs an induction. The library's induction theorems take an operator as a parameter,
which the provers cannot instantiate; the module does without:

1. `NatSetInduction`: a *set* that has 0, and with each number the next, has every
   number. It follows from the least element of its complement
   (`NatLessThanWellFounded`, `WFMin`), and each induction is about a set comprehension.
   `Recursion` and `SameRecursion` show with it that a recursion along the naturals
   defines one function; one lemma for each recursive function of `Inference` then
   gives its equations (`ConcatRecursion`, `TotalRecursion`, `BelowRecursion`,
   `BestRecursion`; `ScoresAgree` for the two sums of a score);
2. by the same induction, what they compute: `ConcatLaysOut` (where each text lies in a
   concatenation), `BestIsFirstGreatest`, `BelowKeepsAll`, `WidestIsMax`, `CellsAreTotal`
   (the cells of a table of rows are as many as the sum of their lengths);
3. `WholeLayout`: where every marker is in the sequence of a question, and that nothing
   else in it is a marker; `OfficialLayout` says so for the reference;
4. `RowDecides`: the code saturates where the reference has signed numbers. They agree
   because the floors (4 tokens of an option, 8 of the header) hide every difference
   below zero, and because a marker that no longer fits is missing from one and an
   error in the other. This holds at any budgets; `Spec` takes those of the oracle;
5. `TokensAreCounted`, `CollatedBatchFindsOptions`: what padding and masks leave of rows
   that are built; `AnswerIsOfficial`: the answer of each kind, from the logits it reads; the
   checks of the outputs agree with their contract (`ValidIsOfficial`), because the widest question gives the
   columns of the batch;
6. `InferenceInv` says what a request has at each stage (rows of its first questions, the
   rows collated, outputs of another shape or with a value for each column, the answers) and is inductive:
   `RowsAreAlwaysOfficial`, `BatchAlwaysFindsOptions` and `AnswersAreAlwaysOfficial`
   follow from it with 4 and 5.

### What is only model-checked

Every invariant and every safety property of a step that a passing run checks is stated
by a theorem. The liveness properties stay with TLC, as the prover has no rules for
`ENABLED`: `EveryCallerAnswered`, `ClosedDrains`, `WorkIsCollected`, `DrainEnds`,
`PanicStopsService`, `RunEnds`.

## 6. What is not modelled, and the plan

* The HTTP handler's parsing and error bodies, request parsing and JSON text, metrics
  and configuration: decided within one step from their input, without shared state.
* A row of the benchmark that cannot be written while its thread counts it.
* The numbers: the graph's arithmetic, temperatures, exp, rounding. The golden
  fixtures of the repository are about them.
* That an operation of `laya-macos.sh` ends: each of its waits has a bound of its own (grace
  and 15 seconds in `stop_owned`, a timeout in `validate`), and a step of the model is one of
  them; whatever way it ends, `LockIsReleased` tells what becomes of the lock.
* Model loading, build scripts, container, CI and the acceptance tests themselves.
* The trees of marked directories, permissions and service managers of the
  Linux installer.
