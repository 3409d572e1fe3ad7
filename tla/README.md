# Roche: a TLA+ model of the sandbox daemon

Roche runs untrusted code of AI agents in disposable sandboxes (Docker
containers, Firecracker VMs, WASM instances, Kubernetes pods, E2B sandboxes).
Clients reach the providers either directly (CLI, SDK direct mode) or through
`roched`, a gRPC daemon that keeps a pool of warm containers, sessions with
budgets, an idempotency cache for retried commands and an execution history.
The daemon is where the concurrency is: many handlers, four background tasks
and Docker all act on the same sandboxes. This directory models the daemon, its
five providers, the command line's use of it and the way a request becomes a
sandbox and its output an answer, checks the models with TLC and proves every
safety property of the concurrent parts with TLAPS.

Paths below are relative to `src/`. `D` is `crates/roche-daemon/src`, `C` is
`crates/roche-core/src`.

## 1. Inventory

| Component | State | Operations | Interacts with |
|---|---|---|---|
| Warm pool, `D/pool/mod.rs` | per image: `idle` deque, `active` set; `pending_replenish`; a `Notify` | `try_acquire`, `on_destroy`, `warmup`, `drain`, `shutdown`, `status`, `initial_warmup` | handlers call it, the tasks below share its mutex |
| Replenish task, `D/pool/replenish.rs` | drained keys, spawned workers, `Semaphore(3)` | wake, drain the key set, size a batch, create and push | pool mutex, Docker |
| Reaper task, `D/pool/reaper.rs` | ids collected for destruction | collect expired and excess idle sandboxes, destroy | pool mutex, Docker |
| Garbage collection, `D/gc.rs` | none | remove containers past their `roche.expires` label | Docker; tells nobody |
| gRPC service, `D/server.rs` | cache, history, sessions, pool handle | create, exec, exec_stream, destroy, list, pause, gc, copy, pool_*, session_*, history, analyze_intent | everything |
| Idempotency cache, `D/idempotency.rs` | key -> answer and time, TTL 10 min, `MAX_ENTRIES` | `get`, `put` | exec handler |
| Sessions, `C/session.rs` | id -> permissions, budget, usage | create, check_budget, record_usage, change_permissions, join, leave, destroy | exec handler |
| Daemon process, `D/main.rs` | `last_rpc`, task handles, `daemon.json` | start, ctrl-c shutdown, idle exit | pool, command line |
| Docker provider, `C/provider/docker.rs` | none (labels on containers) | create, exec, destroy, list, pause, gc, copy | Docker, external |
| Firecracker provider, `C/provider/firecracker` | one state directory and one process per VM | create with cleanup, exec over vsock, destroy, pause, gc | filesystem, processes |
| Kubernetes provider, `C/provider/k8s.rs` | none (Pods and NetworkPolicies) | create with readiness polling, exec with an exit sentinel, destroy, gc, copy | cluster, external |
| E2B provider, `C/provider/e2b.rs` | a cache of access tokens | create, exec and copies through the cache, destroy, pause | cloud service, external |
| WASM provider, `C/provider/wasm` | a registry of compiled modules | create, exec on a thread, destroy, gc | wasmtime, external |
| Capabilities and server-side intent, `C/provider/capabilities.rs`, `C/intent.rs` | none | validate a configuration; hint at a provider for code | every create; exec without provider, analyze_intent |
| Python `run()`, `sdk/python/.../run.py`, `intent.py` | none | analyse code (syntax tree, or keywords), derive a request, create, exec, destroy | its own client, over gRPC or through the CLI |
| Retry policy, `D/retry.rs` | none | delay arithmetic, retryable outcomes | called by nobody |
| Sensors, `C/sensor` | trace under construction | collect statistics | exec handler awaits it |
| CLI, `crates/roche-cli` | none | daemon start/stop/status, dispatch to daemon or provider | daemon.json, providers |
| SDKs, `sdk/*` | transport, a provider per sandbox object | detect or spawn a daemon, create, exec, run_parallel | daemon, or the CLI |

What is hard here:

* **The pool's mutex is released between decisions and their effects.** The
  replenish task sizes a batch, releases the lock, creates containers and
  pushes them later; Create, Destroy, drain and shutdown run in between. The
  mutex is also *held* across a container start on a pool miss.
* **Notification is three steps**: insert the key under the lock, release,
  `notify_one`; and one stored permit stands for any number of notifications.
* **Docker is shared and not told.** The garbage collector, `destroy --all` and
  `gc --all` remove containers without regard to the pool.
* **Handlers are futures**: when a client hangs up the handler is dropped at
  its next await, between removing a container and telling the pool, or between
  running a command and recording it.
* **Check, run, charge** are three critical sections of the exec handler, with
  the command in the middle and nothing reserved; likewise look up, run, fill
  for the idempotency cache.
* **Process exit**: graceful shutdown drains the pool before the tasks that fill
  it are stopped; the idle monitor exits without draining anything.
* **One file, no lock.** `daemon.json` is written before the port is bound and
  removed by whoever exits or cleans up, whatever it says by then. The idle
  monitor reads the clock and `last_rpc` in two steps and subtracts unsigned
  numbers.
* **A sandbox is several objects** made and removed one after the other:
  directory, process and metadata of a VM; Pod and policy; cloud sandbox and
  cache entry. Any step can fail, two handlers can be between the same two steps.
* **Nobody remembers** which provider made a sandbox, nor what was asked for it:
  isolation is decided once, by a table of capabilities, a pool shortcut and
  five ways to build a sandbox; the provider is named again by every call, and
  the repository's own clients name it differently.
* **Output is a byte stream** that can be cut anywhere, and the exit code is in it.

Each is in `PROJECT.json` under `hazards` with the line and the properties that
are about it.

## 2. Modules

| Module | Models |
|---|---|
| `WarmPool` | pool, replenish task and its workers, reaper, garbage collection, Create/Destroy/Gc/Pool* handlers, process exit, Docker containers |
| `SandboxLease` | the abstract promise: a sandbox is made, leased at most once and only while it runs, retired for good |
| `MCWarmPool` | instances for TLC |
| `WarmPoolProofs` | theorems about `WarmPool`: types, wake-ups, bounds |
| `WarmPoolCustody` | theorems: who holds a sandbox until it is leased |
| `WarmPoolPromises` | theorems: idle sandboxes run, none is lost, `SandboxLease` is implemented |
| `ExecService` | the exec handler, idempotency cache, session budgets, history, session and sandbox destruction |
| `MCExecService` | instances for TLC |
| `ExecServiceProofs` | theorems about `ExecService` |
| `DaemonLifecycle` | roched processes, `daemon.json`, the idle monitor, the commands that start, stop and use a daemon |
| `MCDaemon`, `DaemonProofs` | its instance for TLC; its theorems |
| `ProviderCalls` | what the provider models share: concurrent handlers, sweeps (destroy, destroy --all, gc), what clients were told, failures |
| `FirecrackerProvider`, `K8sProvider`, `E2bProvider`, `WasmProvider` | one provider each |
| `Providers` | the daemon in front of one of them; the properties all share; the refinement of `SandboxLease` |
| `MCProviders`, `ProvidersProofs` | instance for TLC; theorems about the composition, provider by provider |
| `Confinement` | code to request, transport, the sandbox made for it, and the provider an exec is sent to |
| `Permissions` | sessions by id, their permissions and agents |
| `ExecStreams` | exit code and output read off a stream |
| `ExecStreamsProofs` | what the parsers make of any stream cut anywhere: lemmas and the invariant of `ExecStreams` |
| `Requests`, `MCRequests`, `RequestsProofs` | the three together; instance for TLC; theorems about the composition |

### WarmPool

Atomicity. A critical section of the tokio mutex around `PoolManagerInner` is
one step; everything outside it is a step of its own. So `try_acquire` up to the
release of the lock is `AcquireHit`/`AcquireMiss`, and `notify_one` after it is
`NotifyOne`. A worker's creation and its push are two steps (`WorkerCreate`,
`WorkerPush`), because it holds no lock in between. The reaper's collection
and its destruction are two steps for the same reason.

| Variable | Code |
|---|---|
| `idle`, `active` | the two fields of `SandboxPool`, per pool key |
| `pending`, `permit` | `pending_replenish`; the permit a `Notify` stores |
| `container`, `expires` | Docker: unborn, up, gone, or stuck (docker failed to start or to remove it); the expiry label |
| `loop`, `work`, `cur`, `todo`, `made` | the replenish task: where it is, drained keys left, the key of the batch, workers that have not created yet, containers created and not pushed |
| `reaping` | the reaper's `to_destroy` |
| `rpc`, `targets`, `victim` | each handler: where it is, the ids a Destroy has left, the id removed and not yet reported |
| `phase` | serving, stopping (ctrl-c), drained, exited, or aborted by the idle monitor |
| `leases` | history variable: how often Create answered with an id |

| Action | Code |
|---|---|
| `AcquireHit`, `AcquireMiss`, `AcquireMissFails`, `AcquireAtCapacity`, `AcquireBypass` | the five outcomes of `try_acquire` |
| `DirectCreate`, `DirectCreateFails` | what `create` does after None |
| `NotifyOne` | `replenish_notify.notify_one` |
| `DestroyBegin`, `DestroyOne`, `DestroySkip`, `OnDestroyActive`, `OnDestroyOther` | the `destroy` handler, one target at a time |
| `HangUp` | the handler's future is dropped |
| `PoolWarmup`, `PoolDrain`, `GcExpired`, `GcAll` | the remaining pool and gc calls, and the gc task |
| `Wake`, `DrainPending`, `Pick`, `PickNone`, `WorkerCreate`, `WorkerCreateFails`, `WorkerPush`, `BatchDone` | `run_replenish_loop` |
| `ReapCollect`, `ReapDestroy` | `run_reaper_loop` |
| `CtrlC`, `PoolShutdown`, `Exit`, `IdleExit` | `main` |

Abstractions. Time is not a number: a reaper round takes any prefix of each
deque (`created_at` grows along it) but at least the excess over `max_idle`, and
the garbage collector may take any labelled container at any time. A
configuration is reduced to whether it bypasses the pool. Docker's `rm -f` of a
missing id is an error, which is what `docker.rs` expects when it turns "No such
container" into `NotFound`. A failing `docker start` leaves the container behind
(`Leave`), and so does a `docker rm` that fails; both are "stuck".

Three constants describe the environment, so that each property is checked in
the largest environment in which it holds: `Faults` (Docker fails, clients hang
up), `Trims` (idle sandboxes expire, clients drain), `Tidy` (clients destroy
only ids Create gave them; no `destroy --all`, no `gc --all`).

### SandboxLease

Two variables, `status` and `grants`. `WarmPool` implements it under the mapping
`Status` (unborn -> none; gone -> retired; up and never returned by Create ->
pooled; up and returned -> leased) and `grants <- leases`. A second lease, a
lease of a dead container or a container that comes back has no abstract step.

### ExecService

`pc` follows one Exec call: `lookup` (cache) -> `check` (budget) -> `run`
(provider) -> `charge` (session) -> `put` (cache) -> `log` (history). Each arrow
is one critical section or one await of the handler. `cache` records for each key
whether it is absent, fresh or past the TTL, since what is cached never decides
anything. A budget is a function from meters to limits with 0 for unlimited, as
in `Budget`; usage grows by an element of `Cost`, whose `execs` is always 1.
A provider that fails is `RunErr` (recorded in the history), one that is not
configured is `Unavailable` (recorded nowhere). `okRuns`, `ran`, `used`, `unkept`
and `uncharged` (executions whose client hung up before the cache, or the charge)
and `ages` (TTLs that passed) are history variables. An exec in a Docker container
that is gone is an answer with a non-zero exit status, so it is charged and
cached: this is what `DockerProvider::exec` does.

### DaemonLifecycle

A daemon (`proc`) is starting, has written `daemon.json`, serves, drains, is
gone. Commands (`pc`) read the file in one step and act on what they `seen` in
another. `Alive` is `kill(pid, 0)`: a pid that has ended can still be found
(`haunted`: reused, or not reaped). `Ends` is every way a process ends, and breaks
the connections to it. The monitor samples the clock (`MonitorSample`), then loads
`last_rpc` and either stays, exits or, in a build with overflow checks, panics;
`Elapsed` is the difference modulo `2^Width`. `began` and `runs` are history
variables. daemon stop sends SIGTERM, which roched does not handle: `StopKills` is
a crash. Connections are those of the CLI; an SDK that starts roched is an
operator that runs `start`.

### Providers

`ProviderCalls` has a call per handler (`pc`, `box`, `todo`): a create walks
through its steps, a destroy or gc is a sweep over a set fixed in advance. Each
provider adds its own objects:

| Provider | State | Steps between which others run |
|---|---|---|
| Firecracker | `fcDir`, `fcProc` | directory and copy / spawn / boot / metadata; check / kill / remove |
| Kubernetes | `pod`, `dying`, `netpol` | post Pod / create policy / poll; delete Pod / delete policy |
| E2B | `cloud`, `cache` | request / cache update, for create, get_meta, destroy, unpause |
| WASM | `registry`, `runaway` | look up / run on a thread |

`lost`, `cut` and `raced` record the failures and overlaps a property excuses;
each is set only by the action it is named for. `faults` counts failures of the
environment (disk, API, client that hangs up, restart) against `MaxFaults`. The
gc loop runs in the daemon: `FcStop` ends it wherever it stands (idle exit, ctrl-c,
SIGTERM), `FcStart` is another daemon's. The
providers share no state, so `Providers` picks one in `Init`. External, modelled
from their use: the firecracker process, cluster, E2B service, wasmtime.

Under the mapping `Status` every provider implements the same `SandboxLease` as
the warm pool. A VM whose removal failed halfway (`ruin`) counts as retired: no
call finds it any more.

### Requests

`Confinement`: a program is reduced to what `intent.py` looks for (its language and
whether it parses, network and data libraries, installs, writes, hosts, paths). A
Python program that parses is read as a tree, where an install started as a
subprocess is a sign of network use and adds no host; everything else is searched
for keywords, where a path must be one of four. `RunProvider` is Docker for every
program, since `_check_provider_available` knows no other runtime. A configuration
is reduced to the fields `validate_config` and `try_acquire` look at, with `Root` for a
listed path that is empty once trimmed. `transport` is how the request is sent: the
CLI transport passes flags for the two lists that `roche create` does not have, so a
request with a list is refused there. `Sandbox(p, c)` is what provider `p` builds from
`c`, for Docker by its own mechanism (`--read-only`, tmpfs, volumes); `AskedReach` and
`AskedWrites` are what `SandboxConfig` documents its fields to mean, and are defined
without reference to it. A host is reached over IPv4, at its UDP port 53 or over IPv6
(`Channel`), because the iptables script treats the three differently. `Named` is the
provider an exec carries: Docker from the CLI, the creating one from a sandbox object,
its own default from a client that holds only the id. `Permissions`: the id of a session is a reading of a clock that can repeat
itself; the network and the file half of `DynamicPermissions` have the same
shape and a behaviour looks at one. The code asks a list whether it is empty and
holds a name, appends to it and filters it by name, and never looks at its order,
so a list is the number of times each name occurs in it. `ExecStreams`: output is
a sequence of symbols among which the marker, digits and white space matter to
`parse_exit_sentinel`; the reader gets any prefix of what was written. An exit code
is its decimal numeral, because the stream can be cut between two digits: of 10
the reader may see 1. `Value` and `Parses` are `parse::<i32>` on such a numeral
(leading zeros do not count; too many digits are an error, with the digits 0 and 1
from the eleventh on).

## 3. What is checked

| Run | Instance | Properties |
|---|---|---|
| `pool_clients` | 1 pool, 3 ids, 2 clients, untidy, trims, faults | `NoDoubleLease`, `CapacityBound`, `IdleBound`, `NoImmortalOrphan` |
| `pool_tidy` | 2 pools, 2 ids, 1 tidy client, trims, faults | `TypeOK`, `NoLostWakeup`, `PooledAlive`, `LeaseSpec` |
| `pool_live` | 1 pool with `min_idle` 2, 3 ids, 1 tidy client; fair | `SignalledRefilled` |
| `pool_low` | the reaper alone, no clients; fair | `RefilledWhenLow` is **violated** |
| `pool_exit` | 1 pool, 1 client, graceful shutdown | `NoIdleAfterShutdown` is **violated** |
| `pool_ttl` | 1 pool, 1 client | `LeasedExpires` is **violated** |
| `exec_steady` | 2 callers, 2 keys, 4 calls, a cache of 1; hang-ups, ageing, faults | `TypeOK`, `OvershootBound`, `AllCharged`, `KeyRunsBound`, `HistoryKept` |
| `exec_retry` | 2 callers, 1 key | `RunsOnce` is **violated** |
| `daemon_life` | 2 daemons on one port or two, the first with an idle timeout, 1 caller, 1 operator, a 3-bit clock; fair | `TypeOK`, `ExecutedOnce`, `LoneNamed`, `IdleExitSpares`, `IdleEnds` |
| `providers` | 2 sandboxes, 2 clients and the gc loop, 1 failure, the daemon ending and starting, for each provider; fair | `TypeOK`, `FcNoOrphan`, `K8sIsolated`, `K8sPolicyReleased`, `E2bCacheFresh`, `NoGhostExec`, `RemovedOnce`, `FcCollected`, `LeaseSpec` |
| `requests` | every request and program over 2 hosts, 2 paths, 3 languages, 2 transports; 2 sessions, 3 clock readings, lists with a name up to twice; outputs of 4 symbols | `TypeOK`, `Confined`, `RunsWhereMade`, `IntentServed`, `IntentFrugal`, `SessionKept`, `ExitHonest` |
| `session_revoke` | the same instance | `RevokedGone` is **violated** |

What the passing runs show:

* No two Create calls are answered with one sandbox (`NoDoubleLease`), although
  ids pass through deque, workers, reaper and handlers without one lock.
* `max_total` is not a hard limit: a batch sized against it is pushed later and
  Create calls fill the pool meanwhile. It is passed by at most `min_idle`
  (`CapacityBound`); `min_idle` itself is never passed (`IdleBound`).
* No replenish request is forgotten (`NoLostWakeup`) and a signalled pool is
  refilled (`SignalledRefilled`), whatever arrives during a batch.
* If clients are tidy, what the pool offers is running (`PooledAlive`) and the
  whole daemon implements `SandboxLease`. Both fail without `Tidy`:
  `destroy --all` removes idle containers and `on_destroy` looks only at `active`,
  so the deque keeps dead ids.
* As long as the daemon runs it knows every container without an expiry label, but
  those docker failed to start or to remove (`NoImmortalOrphan`). When the process
  ends, by the idle monitor or after a shutdown that missed a worker, nobody does:
  nothing is claimed then.
* A session passes each limit by less than what its concurrent commands use
  (`OvershootBound`); every command that ran is charged once, about to be, or lost
  to a hang-up, one by one (`AllCharged`); a key runs at most once per concurrent
  caller and TTL, and once more per hang-up (`KeyRunsBound`), eviction at capacity
  included; the history of an existing sandbox loses nothing (`HistoryKept`).
* A command is never carried out by a daemon and again directly
  (`ExecutedOnce`): the fallback is taken only before a connection exists. The
  first daemon keeps its `daemon.json` (`LoneNamed`); a later one can lose it to a
  `status` that read the old pid or to a start that fails to bind. The idle
  monitor spares calls younger than its timeout (`IdleExitSpares`), except one
  that starts between its two reads, and an unused daemon exits (`IdleEnds`).
* Whatever overlaps and whatever fails once, a running VM is recorded or being
  created, or its create was cut off or could not write its metadata
  (`FcNoOrphan`), and an expired one is killed and removed unless the daemon's gc
  loop has ended (`FcCollected`). One exception leaks: a removal that fails after the
  metadata is gone leaves a directory that list and gc no longer see.
* A Pod that was handed out with network off is behind its policy until it is
  marked for deletion (`K8sIsolated`), and policies do not outlive Pods
  (`K8sPolicyReleased`), with the two exceptions the definition names.
* The E2B cache names a dead sandbox only through the service's own timeout, a
  failure, or a get_meta that overlaps a destroy (`E2bCacheFresh`); even then no
  command that starts after a destroy runs (`NoGhostExec`), and one destroy at most
  reports success (`RemovedOnce`). Every provider implements `SandboxLease`.
* A sandbox does no more than its request asks, except what its provider declares
  `NotApplicable`, what Docker's script leaves open (UDP port 53 and IPv6 of every
  host, or everything if its first rule fails) and `/tmp` of a Pod (`Confined`). With
  the network off there is no exception.
* The code of `run()` gets the hosts it names and the paths the analysis looks for,
  and is refused only where the CLI cannot pass a list on (`IntentServed`). It gets
  nothing else, except the whole network when it names no host and uses the network
  or installs packages (`IntentFrugal`).
* Every exec of `run()` reaches its sandbox. Others do not in three cases, and in
  these only: the CLI on a sandbox that is not Docker's, a client that holds only the
  id and has another default, a provider left open in create and exec
  (`RunsWhereMade`).
* Sessions are kept apart while no clock reading repeats (`SessionKept`). A cut
  stream never turns failure into success unless the command printed the marker
  itself (`ExitHonest`).

Said differently by a document, and an exception a property names rather than a
violation run:

* `README.md:13`, "opens only what's needed": a subprocess `pip install` or
  `apt-get install` sets needs_network and adds no host (`intent.py:146`), which opens
  every host. `IntentFrugal` names it.
* `docs/api-reference.md:31`, "Execute a command inside an existing sandbox":
  `roche exec` looks for the sandbox at Docker only (`crates/roche-cli/src/main.rs:426`
  and `:842`). `RunsWhereMade` names it.
* `C/types.rs:58`, "restrict to these hosts": the script accepts UDP port 53 to any
  host and has no rule for IPv6; `C/provider/docker.rs:222` calls the list
  best-effort. `Confined` names it.
* `sdk/python/.../transport/cli.py:47` passes `--network-allow` and `--fs-path`, which
  `roche create` does not define: without a daemon, code that writes files or names a
  host cannot be run. `IntentServed` names it.

Seen while modelling, and not contradicted by any document, hence no violation
run: a Firecracker pool can never fill, since the pool's configuration has no
kernel and the provider requires one; Kubernetes ignores the network allowlist and
the path list; Firecracker declares network support and attaches no interface; an
exec without provider of inline code that needs nothing goes to WASM while create
without provider goes to Docker; copies and exec_stream go to Docker whatever made
the sandbox; `run()` never uses WASM, whatever its analysis says; a Kubernetes
command that runs `exit` itself swallows the marker and is answered -1; the E2B
timeout covers the response's headers and not its body; a Pod whose policy could
not be created is left behind.

What the violation runs show, with the sentence each contradicts in
`PROJECT.json`:

* `pool_low`: the reaper and `pool_drain` remove idle sandboxes and signal
  nobody, so a pool that expires stays empty until a Create of that image.
* `pool_exit`: shutdown drains once while spawned workers still run; one pushes
  its container afterwards and the process exits, leaving a container without an
  expiry label.
* `pool_ttl`: a pool hit returns a container without an expiry label, whatever
  timeout its caller asked for.
* `exec_retry`: a retry that arrives while the first attempt runs executes again.
* `session_revoke`: a host that is revoked stays granted when the session's list is
  empty or becomes so, since an empty list of an enabled network means every host:
  denying the last host opens all of them.

Bounds and why they suffice. Two clients reach every race between two handlers;
a third brings no new state of the shared data, since handlers do not refer to
each other. Three ids let a pool be at capacity (2) with one more container in
a worker's hands; `pool_live` needs `min_idle` 2 so that a pool can be low and
not empty. Two keys in `pool_tidy` let one pool's batch run while the other is
signalled. `SandboxId` bounds the creations of a run: once used up, Docker refuses,
which the code handles as any other failure. `MaxCalls` bounds Exec calls; a
limit of 1 and commands costing 0 to 2 make every budget boundary occur within
it, and a cache of one entry is full at once. Symmetry is used only in the two
large safety runs, over ids and clients (and cache keys), never for liveness or
refinement. Deadlock is not checked: the process may exit and clients may stop
calling, so the system may really stop.

In `daemon_life` two daemons are enough for a stale file, a taken port and a
reused pid; the clock of 3 bits wraps as 64 bits do, and `MaxTime` leaves the
idle timeout room after the last call. In `providers` two clients overlap on one
sandbox while the gc loop sweeps, and the second sandbox keeps a sweep going
after a failure; one failure suffices for every excuse, the proofs allow any
number. `requests` enumerates its inputs; of its two paths the keyword analysis
knows one, so the two analyses differ, and of its two hosts one is a registry. A
list of two is the shortest with a
repeated name, three clock readings let a coarser clock differ from the clock,
and four symbols hold a forged marker with a code and text around it; the
codes 0, 1 and 10 are success, a failure, and one that can be cut in the middle.

Fairness. Weak fairness of the replenish task and of its workers (tokio polls
ready tasks, the tokio mutex is FIFO, Docker answers), of a handler between the
lock and `notify_one` (no await in between). In `daemon_life`, of the clock and of the
idle monitor's task, which sleeps and is polled again; in `providers`, of the gc
loop's steps while its daemon runs, since each round awaits only file operations and a
kill; the daemon may end at any time and need not be started again. Nothing is assumed
of Exec: a Kubernetes or E2B command without a timeout may never end, so no property
says that a call is answered. Clients, timers, ctrl-c, signals, reaper, clusters and
clouds owe nothing.

## 4. What is proved

Every safety property the passing runs check, invariant, action property or
refinement, is also a theorem, for any values of the constants that satisfy the
named assumptions: `PoolAssumption` (ids are finite, limits are numbers),
`ExecAssumption` (callers are finite, a command costs at most `MaxCost` of each
meter and exactly one exec), `DaemonAssumption` (pids are numbers, the clock fits
its width), `CallsAssumption` (the gc loop is not a client),
`ConfinementAssumption` (registries are hosts and pip has one, `/tmp` is a path both
analyses know, a path that trims to nothing is none),
`PermissionsAssumption` (the bounds are numbers, "no session" is neither an id nor
a session), `StreamsAssumption` (an exit code is a number of one to three digits
without leading zeros). The runs found the invariants, the proofs remove the
bounds.

| Theorem | States | Inductive invariant |
|---|---|---|
| `WarmPoolProofs!TypeCorrect` | `TypeOK` | itself |
| `WarmPoolProofs!WakeupKept` | `NoLostWakeup` | itself, over `TypeOK` |
| `WarmPoolProofs!Bounded` | `IdleBound`, `CapacityBound` | `BatchOnly` and `Within` for each pool |
| `WarmPoolProofs!IdleBounded` | `IdleBound` | the same |
| `WarmPoolCustody!LeasedOnce` | `NoDoubleLease` | `Custody` and `GivenOnce` |
| `WarmPoolPromises!OfferedAlive` | `PooledAlive` | custody and, for tidy clients, `Guarded` |
| `WarmPoolPromises!NoneLost` | `NoImmortalOrphan` | custody, `VictimsGone` and, while the process runs, `Tracked` |
| `WarmPoolPromises!Implements` | `LeaseSpec` | custody and `Guarded` |
| `ExecServiceProofs!TypeCorrect` | `TypeOK` | itself |
| `ExecServiceProofs!HistorySafe` | `HistoryKept` | `DroppingGone` |
| `ExecServiceProofs!OvershootBounded` | `OvershootBound` | `Admitted` and `Headroom` |
| `ExecServiceProofs!ChargedOnce` | `AllCharged` | `Admitted` and `Charged` |
| `ExecServiceProofs!KeyRunsBounded` | `KeyRunsBound` | `OnePerCaller` |
| `DaemonProofs!LifecycleTyped`, `NoneTwice`, `FirstNamed`, `IdleSpares` | `TypeOK`, `ExecutedOnce`, `LoneNamed`, `IdleExitSpares` | `Sound` |
| `ProvidersProofs!NoneForgotten` | `FcNoOrphan` | `FcInv`: `FcTypeOK` and `Custody` |
| `ProvidersProofs!ProvidersTyped`, `PodsIsolated`, `PoliciesReleased`, `CacheFresh`, `NoGhosts`, `OneRemoves` | the safety properties of `Providers` | `ServingInv`: one of `FcInv`, `K8sInv`, `E2bInv`, `WasmInv` |
| `ProvidersProofs!ProvidersImplement` | `LeaseSpec` | `ServingInv` |
| `RequestsProofs!RequestsTyped` | `TypeOK` | itself, with `Made`, `PermInv` and `StreamInv` |
| `RequestsProofs!NeverWider`, `ReachesHome`, `CodeServed`, `CodeFrugal` | `Confined`, `RunsWhereMade`, `IntentServed`, `IntentFrugal` | `Made` |
| `RequestsProofs!OwnSession` | `SessionKept` | `PermInv` |
| `RequestsProofs!ExitsHonest` | `ExitHonest` | `StreamInv`: `StreamTypeOK`, `WireShape`, `Honest` |

The arguments, in words:

* *Bounds.* Creations are under way only while the replenish task waits for its
  batch (`BatchOnly`), so at most one batch exists, and it was sized when nothing
  was under way. A pool hit moves a sandbox from idle to active; a miss adds one
  only below `max_total`; neither sees the batch, whose size is at most `min_idle`
  minus what was idle.
* *Custody.* Until Create returns it, an id made for the pool is at one position
  of one deque, or in one worker's hands, or on the reaper's list, and its lease
  count is 0. A worker's new id is in none of these places because it was unborn.
  The lemmas about sequences without repetition (`TailLeaves`, `AppendAdds`,
  `SplitApart`) say what popping, pushing and reaping do to a deque.
* *Idle sandboxes run.* What a tidy client destroys was leased, what the collector
  takes is labelled, what the reaper and drain destroy has left the deques: each
  of the four is disjoint from what the pool offers.
* *Nothing is lost.* Every step that takes an unlabelled id from one place puts it
  in another, removes the container, or was failed by docker; on_destroy forgets an id only after its
  container is gone (`VictimsGone`).
* *Refinement.* Each action is one of: invisible, a `Make`, a `LeaseOne`, a
  `Retire`. That a hit is a `LeaseOne` needs both custody (not leased before) and
  `Guarded` (still running).
* *Overshoot.* `Headroom` counts a full command for every call that has passed
  the check and is not charged yet. Passing the check re-establishes it from
  usage < budget; charging trades one such call for at most one command's cost.
* *Exactly-once charging.* A session id that has not been handed out has run
  nothing and has no call beyond the check (`Admitted`), so creating the session
  starts with a balanced account; a hang-up moves one command from pending to
  uncharged.
* *Repetition.* While the cache has no fresh entry for a key, its executions since
  the last TTL are the calls that have run and not filled the cache and those lost to
  hang-ups; once it has one, no call joins those that may still run, and a TTL that
  passes adds at most one more per caller (`PastCounted`).
* *Daemons.* Work is counted only on the way to "rpc" or "done", from which a
  command only leaves (`WorksAtEnd`); a pid in the file or in a command's hand was
  started (`NamesStarted`), so whoever cleans up after a dead pid knows a second
  daemon; `last` is no older than the start of any open call (`TouchedSince`).
* *VMs.* A create is alone with its fresh directory (`CreatesFresh`,
  `CreatesAlone`), and who removes a directory has seen or made its process dead
  (`RemovesDead`), which it stays.
* *Pods.* Who deletes a policy marked the Pod before (`MarksFirst`); a policy of a
  marked Pod has a deleter or an excuse (`MarkedReleased`).
* *Tokens.* A call about to insert, or an entry, for a sandbox that is gone is
  excused, or its eviction is still to come (`InsertsExcused`, `CachedExcused`); a
  late exec has a dead sandbox (`LateGone`).
* *Refinement of the providers.* Each action leaves every `Status` alone, or makes,
  grants or retires one (or, in a WASM gc or a restart, several) sandboxes.
* *Confinement.* `Made` says where the request came from and that the box is the
  provider's, the pool's, or a filtered Docker container's (`Left` of the list at
  most); the properties follow provider by provider from the tables. Docker's files
  need `DockerFiles`, that its mechanism yields no more than the documented meaning.
  `RunsOnDocker` is why `run()` survives the CLI's exec, and the registry of pip why a
  heavy import does not open the network.
* *Sessions.* An id in a caller's hand is a reading some creation took, so while no
  reading repeats, a creation writes where nobody's id points, and every other call
  writes where its own caller's does.
* *Streams.* `WireShape` gives the stream as the output, the output and an ending,
  or a single record. The lemmas say what each parser makes of every prefix of it:
  where the last marker is (`MarkAt`), what trimming leaves (`TrimParts`), that a
  code cut after its first digit is 0 only if the code is 0 (`CutCode`, from no
  leading zeros), and that the shell's marker is the last one and
  the code is what has come of it (`ParsedTail`). So whatever prefix a read gets, its answer is `Honest`. First and
  last positions come from the well-foundedness of <, not from an induction over
  the stream.

The three parts of `Requests` share no variable, so a step of one leaves the
invariants of the others alone (`PartStep`), and each invariant is proved from its
own part's actions.

Only model-checked: liveness under fairness (`SignalledRefilled`, `IdleEnds`,
`FcCollected`), which the prover cannot do; and of course the
violations.

## 5. What is not modelled, and the plan

Not modelled, by intent:

* message formats, logging, statistics of sensors, the string searches, syntax-tree
  walks and confidence scores of the two intent analyses (`intent.rs` appears only as
  the hint of an exec without provider), argument parsing and printing of the CLI;
* `exec_stream`: a Docker-only stream that touches neither cache, budget nor
  history; pause and copies on Docker, and copies on Kubernetes, which change
  nothing another call looks at;
* the inside of Docker, firecracker, the cluster, E2B and wasmtime, beyond what the
  providers see of them;
* `retry.rs` and `capability.rs`, which nothing calls;
* the SDKs but for `run()` of inline code in Python and the provider their execs
  name: files, projects and parallel runners make the calls modelled here;
* vsock CIDs drawn from the clock and pids reused between a liveness check and a
  kill (Firecracker): both need a coincidence in the operating system and no code
  handles it;
* benchmarks, examples, packaging.

Possible next steps: the pool in front of a provider other than Docker, once a
pool can be configured for one; `exec_stream`, if it comes to share the exec path's
bookkeeping; adoption of pool containers by a restarted daemon, if the code gains
it.
