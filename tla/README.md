# Rumi AI OS in TLA+

Specifications, model-checking runs and machine-checked proofs for the core of
`rumi_ai_1_10` (the kernel, in Python) and `rumi_launcher` (its supervisor, in
Rust).  Paths below are relative to `src/`; `CR` stands for
`rumi_ai_1_10/core_runtime`.

Contents: [inventory](#inventory) ·
[modules](#modules) · [runs](#runs) · [findings](#findings) ·
[proofs](#proofs) · [not modelled](#what-is-not-modelled) · [plan](#plan)

## Inventory

The kernel loads *packs* (directories under `ecosystem/`) that bring flows,
components, capability handlers, library code and stores.  Nothing a pack brings
may act before an operator has approved the pack.  One process runs

* the startup flow and every flow after it, on the kernel's thread(s);
* an HTTP API server, single-threaded, on a thread of its own, through which
  operators approve, reject, install, grant and uninstall.  It starts before
  components are set up, so operator calls run concurrently with the phases;
* timer threads and two workers of the flow scheduler, once it is started;
* one thread per connection of the egress and capability proxies.

All durable state is JSON under `user_data/`, written by a temporary file and
`os.replace` in most places, in place as a fallback.

| component | state | operations | what is hard | what must hold |
|---|---|---|---|---|
| Pack approval (`CR/approval_manager.py`) | record and grant file per pack, hash cache | scan, approve, approve_rule, reject, remove, mark modified, verify, update, roll back, restart | the lock covers sections only; a cache with a lifetime; saves that fail or overtake each other; crashes | approved hashes are hashes of a tree somebody approved; decisions survive; code runs only against recorded hashes |
| Pack applier, importer (`CR/pack_applier.py`, `pack_importer.py`, `install_journal.py`) | staged packs, backups, pack directories, the journal of created paths | import, apply, roll back, uninstall | a crash between removal, copy and mark; half a copy; a journal that believes what components say | what stood complete is still somewhere; protected directories survive |
| Component phases (`CR/component_lifecycle.py`) | none of its own | setup, dependency and runtime boot per component | reads the approval in several calls | only approved packs run |
| Flow scheduler (`CR/flow_scheduler.py`) | schedule table, `_running_flows`, timer, pool | register, unregister, start, stop, tick, execute | ticks, workers and stop interleave; two workers; calendar arithmetic | no overlap; a due flow runs; stop leaves nothing behind; each matching minute fires once |
| Kernel and flow execution (`CR/kernel_*.py`) | context, call stacks, executed step ids, a pool of four threads | pipelines, steps, depends_on, nested flows, timeouts | nested flows that hold threads, timeouts that leave threads behind, error policies | bounded depth, no recursion, order of dependencies, an end |
| Flow loading and composition (`CR/flow_loader.py`, `flow_composer.py`, `flow_modifier*.py`) | loaded flows, modifiers | load, sort, apply modifiers of two kinds | four sources that hide each other, cycles, modifiers that target each other's steps, a modifier that fails midway | only approved packs bring flows; no step is lost or out of order, and none is doubled but by a phase that is listed twice |
| Capability and pip installers (`CR/capability_installer.py`, `pip_installer.py`) | candidate index, block list, installed files | scan, approve and install, reject, unblock | several files per decision; cool-down; rejection count | a candidate is in one state; blocked stays blocked |
| Capability trust, grants, executor, proxy | trust entries, grants by principal, requests | add trust, grant, revoke, execute | a hierarchy of principals, files that cannot be read, check and use apart | what was withdrawn stays withdrawn for requests that ask for a permission |
| Usage and rate limits (`CR/capability_usage_store.py`, `egress_rate_limiter.py`) | counters by day, a window of times | check, consume | threads between the clock and the lock, a day that ends, lost files | a limit is not exceeded but by what overlapped or was counted in a file that was lost |
| Store registry, sharing (`CR/store_registry.py`, `store_migration.py`, `store_sharing_manager.py`) | an SQLite database, an index of older files | migrate, create, delete, compare-and-set, list | transactions of several threads, a crash in the migration, pages of a listing that changes | compare-and-set is exact; no row without a store; a listing is whole |
| Secrets, keys (`CR/secrets_store.py`, `hmac_key_manager.py`) | encrypted files, key ring | set, read, delete, rotate, migrate | a key that is not saved, formats of old versions, rotation interrupted | no secret is lost; old signatures verify in the grace period |
| Egress, network grants (`CR/egress_proxy.py`, `network_grant_manager.py`) | grants, disabled packs, sockets, workers | request, redirect, grant, revoke, disable, stop | decisions that change under a request, workers lost to errors | no hop without a decision that allowed it; workers come back |
| Containers, executors (`CR/secure_executor.py`, `python_file_executor.py`, `lib_executor.py`, `docker_capability.py`, `container_orchestrator.py`) | running containers, temporary files, records of libs | run, time out, kill, clean up, install, start, stop | external commands that are slow or fail | nothing is left behind; limits hold; a lib is installed once |
| Units and functions (`CR/unit_*.py`, `function_*.py`) | published units, trusted hashes, indexes of functions | publish, trust, execute, register, look up | files exchanged between check and run; several indexes | code that runs is code the trust file named; the indexes agree |
| Host privileges, permissions (`CR/host_privilege_manager.py`, `secrets_grant_manager.py`) | tables with one file each, or one per pack | grant, revoke, restart | failing saves, which may leave the file of before, file names that two packs share | what a caller was told stands, unless a save failed |
| Shared dictionary (`CR/shared_dict/`) | snapshot, journal | propose, remove, resolve | failing saves, a resolution among changes | no cycle |
| Registries (`CR/vocab_registry.py`, `interface_registry.py`, `dependency_resolver.py`, `backend_core/ecosystem/registry.py`) | in-memory tables with several indexes | register, look up, override, order | competing registrations, overrides that overlap, circular dependencies | the indexes agree; dependencies come first |
| Add-ons and the active ecosystem (`backend_core/ecosystem/`) | chosen and disabled components, patches | choose, disable, patch | a patch that fails midway, a file that is damaged | choices survive, manifests are patched whole or not at all |
| Audit log (`CR/audit_logger.py`) | buffer, files by day | log, flush, clean up, query | a flush after a clean-up, failing writes, crashes, the half lines they leave | entries are kept once and in order |
| Pack API server (`CR/pack_api_server.py`, `api/`) | a window of requests per address, tables of pack routes, links of OAuth, profile and token files | HTTP handlers, load and reload of routes, setup | concurrent with the kernel thread, files written in place | the limit holds; the tables are whole after a load; a link is used once |
| Launcher (`rumi_launcher/src`) | child process, restart count | start, stop, restart, watch | exit, manual stop and restart race | at most three automatic restarts |
| Health, metrics, diagnostics, paths, validation | logs and counters | | | nothing else depends on them |

`PROJECT.json` lists the components with their status and, under `hazards`, what
is hard to test in them, each at its line.

## Modules

### PackApproval

`CR/approval_manager.py` with the code that calls it.  One action per section
that runs under the manager's lock, or between two of them:

| code | actions |
|---|---|
| `approve`, `approve_rule`, `reject`, `remove_approval`, `apply_update` | `ApiApprove`, `ApproveRule`, `Reject`, `Remove`, `ApplyUpdate`: one section each, with the save and the cache invalidation at its end |
| `rollback_to_version` | `RollbackBegin`, `RollbackCompare`, `RollbackCommit`: its three phases |
| `scan_packs` | `ScanBegin` (records), then per new pack `ScanRead` (fetched under the lock), `ScanFields`, `ScanStatus` (serialised without it) and `ScanWrite` (no lock) |
| `auto_approve_if_dev` | `VerifyBegin` (status), `AutoApprove` |
| `is_pack_approved_and_verified`, `verify_hash`, `verify_hash_detailed` | `VerifyBegin` (status), `TakeStored` (recorded hashes), `Compute`, `Fill` (current hashes and cache), `Conclude` |
| flow loader, component phase, scan handler after a verdict | `RuleCheck`, `Run`, `Mark` |
| `PackApplier._apply_single_pack` | `ApplyRemove`, `ApplyCopy`, then `Mark` |
| `initialize` after a crash | `Restart` |
| the world | `EditPack`, `CacheExpire`, `Tamper` |

A tree is one value and its hash map is the tree: SHA-256 is taken to be
injective.  A record keeps what decisions depend on; `version_history` is the set
of hash maps it holds, since a rollback takes any of them.  `Load` says what a
grant file yields after a restart: a record, nothing if it is not JSON, a fresh
record in status `modified` if its HMAC is wrong.  A save can fail in the three
ways the code allows (`SaveGrant`).

`scan_packs` serialises a record outside the lock.  `asdict` copies the hashes, then the
history, then the rule approval, and `to_dict` sets the status last, so a scan that is
interleaved with an `approve` can write "approved" next to the hashes of before, and a
restart loads that.  Such a record is `mixed` until the next decision, and the properties
of approvals name it as their one exception.

History carries the properties: `mixed`, and three variables: `onDisk` and `sanctioned` collect
the trees a directory held and those an approve or a rollback recorded, `lagging`
the packs whose file is known to differ from memory.

Bounds: `MayFail` lets a save fail, or a file be damaged, only while no file is
behind: one disturbance at a time, any number in a behaviour.  In the run
`ScansMeetDecisions` (`MCPackApproval`) leaves out the states in which a scan is under way
while the other thread is between two steps that touch no record and no grant file; those
steps commute with the scan's.  What it loses is a scan that spans both the automatic
approval and the later mark of one component phase; the proofs cover it.

### FlowScheduler

`CR/flow_scheduler.py`, class `FlowScheduler`.  The controller calls `register`,
`unregister`, `start` and `stop`; a chain of timer threads (each tick arms the
next one) is one element of `Chains`; two workers take flows from the queue of the
pool.  `_tick` is split where it takes or leaves the lock and where it reads an
unprotected field: `Fire`, `PickEntry` (first look at `_running_flows`), `Judge`
(`should_run`), `Claim` (second look), `CheckExecutor`, `Submit`, `Rearm`, `Arm`.
`stop()` is `Stop`, `CancelTimer`, `Shutdown`, `Drain`.  A `submit` to a pool that
shuts down raises and ends the timer thread; the claim stays in `_running_flows`.

Time is abstract: an entry in `due` is one for which `should_run` would say yes.
Creating, storing and starting a `Timer` (three statements of
`_schedule_next_tick`) is one step, `Arm`; a `stop()` between them leaves no timer
behind either, since a timer that fires after it ends at once.

The kernel makes a new scheduler object for every start (`kernel_core.py:463`),
so a second start of one object, which the class allows and
`MaxStarts = 2` explores, is beyond what the kernel does today.

### CronSchedule

`CronField`, `CronExpression` and the cron branch of `ScheduleEntry.should_run`:
parts of a field and their values, the conversion of weekdays, the number kept for
a minute, and the decision of a tick.  The wall clock walks through real dates.
`MCScheduling` runs it next to the scheduler, one of them in focus: what is due in
the one is decided by the other, and nothing else connects them.

### CapabilityInstaller

`CR/capability_installer.py` with the trust store (`CR/capability_trust_store.py`)
it writes to.  Every method holds one lock from end to end, so `op` says which
method runs and how far it is; a method is cut where something outside the lock
can come in between: the pack's files may be edited, a write may fail, the process
may die.

| code | actions |
|---|---|
| `scan_candidates` | `ScanBegin`, `ScanSource` per candidate directory (`ScanError`, `ScanSkip`, `ScanRepend`, `ScanNew`), `ScanEnd` |
| `approve_and_install` | `ApproveBegin` (checks, first SHA-256), `ApproveTrust`, `ApproveRecheck` (second SHA-256), `ApprovePlace` and `ApproveCopyCode` (`_copy_handler`), `ApproveFinish` |
| `reject` | `Reject` (item and `blocked.json`), `SaveReject` (`index.json`) |
| `unblock` | `UnblockBegin`, `UnblockItem` |
| `CapabilityExecutor.initialize` | `ExecutorStart` |
| a crash and the loading of the files | `Restart` |
| the packs | `Edit` |

A handler, its `handler.json` and the code it names, is one value of `Contents`,
and two values have two SHA-256 sums.  Blocking changes two files, one after the
other; `told` remembers which candidates the caller of `reject` was told are
blocked, `asked` which ones somebody asked to approve.  `index.json` and
`blocked.json` are replaced atomically, `trusted_handlers.json` and the copied
files are written in place and can be torn.

Nothing in the core reads `user_data/capabilities/handlers` any more: the registry
that did was removed (`capability_installer.py:733`).  The properties are about
what the installer leaves behind.

`CandidateLifecycle` is the abstract specification: the states of a candidate, who
moves it between them, and what a restart finds.  `CapabilityInstaller` implements
it (`MovesAsPromised`) with `status` and `saved` taken from the index in memory
and on disk and `approving` from the method that runs; the block list, trust
entries, destination and sources are hidden.

### KernelSupervisor

`rumi_launcher/src/kernel_manager.rs` and the event loop of `main.rs`.  The launcher
is one thread: `Boot`, `Healthy`/`Unhealthy`, then the loop with `CheckKernel`
(`is_running`, `wait_and_handle_restart`), `Spawn` (`start`), `MenuRestart`,
`MenuQuit` and `Stopped` (the end of `stop`).  A process that has ended keeps its
id until it is waited for (`process`); ids are used again.  The kernel exits by
itself at any point, in any of four ways.

An exit by a signal is treated like code 0: `is_running` stores
`status.code()`, which is `None` then, and `wait_and_handle_restart` takes `None`
for no exit.  The header of the file promises an "auto-restart on unexpected exit
(max 3 times)", and `wait_and_handle_restart` has an `unwrap_or(-1)` for this case,
which is reached only if `try_wait` fails: otherwise `is_running` has reaped the
child before.
`RestartHappens`, the first half of `KernelRestarts`, is therefore stated for exits
with a code.

### Three compositions of small specifications

The remaining components share little state at run time: they meet in the
decisions they take for each other.  Each has a module with one or more
specifications of its own (initial predicate, next-state relation, properties),
and three modules put them together for TLC: `MCCoreRuntime` (what runs the kernel,
flows and code), `MCCoreServices` (what many requests share) and `MCCoreFiles` (what keeps its
memory in files).  In each, `focus` names the one component that a behaviour is
about, so one run answers for many instances and no interleaving is explored that
could not happen.

What has proofs is extended, with variables and properties of its own, by its MC
module and by the module of its proofs: the theorem and the run are about the same
definition.  Where a component has several initial states, it has one of them only while
another is in focus (`Init`).  `FlowsBuilt`, `PacksKept`, `RegistriesSound`,
`LimitsRespected`, `ListsWhole`, `InstallsSound` and `RecordsKept` join the properties of
several modules by what they are about.

A request to the capability executor is either for a permission or a `function.call`.  The
second runs the functions of approved packs and of the core, and asks neither the rate
limit nor the trust list nor the grants (`CR/capability_executor.py:274`), but the
permission manager.  `FunctionCall` therefore may pass or be refused whatever was granted,
and `DeniedStaysDenied` speaks of requests for permissions only: withdrawing a permission
from a principal does not keep it from a `function.call` of the same entry.

The trust list of units is reloaded when its file's mtime differs from the one taken after
the last reading.  `EditTrust` may leave the mtime as it is, or come between the reading
and `DateTrust`; then the list in memory is stale and taken for current (`missed`), and
`UnitRunsVetted` promises only that the code was named since that reading.

The list comprehensions of `interface_registry.py` and `registry.py` are `Selected` of
`Subsequences`: the elements at a set of positions, each at the place that their number
up to it gives.  `sorted` is its `Ordered`, in which each element has its place by how many
come before it.  `SelectSeq` and `SetToSortSeq` mean the same, but the first is recursive in
the standard module and the second a choice among all sequences, so that little can be
proved of them.  For the same reason a loop over a list is a recursive function, or an
action for each of its rounds.

A composed flow (`composed` of `FlowModifiers`) is the sequence of its steps with loops
opened: `wrap_with_loop` marks the steps it takes in, and a marked step is not found by a
later modifier, as `_find_step_index` looks into no loop.

### Capabilities, flows and code

| module | code | actions and what they stand for |
|---|---|---|
| `CapabilityExecution` | `CR/capability_grant_manager.py`, `capability_executor.py`, `capability_proxy.py`, `hierarchical_grant.py` | grants, batch grants, revocations and restarts on memory and file (`GrantPermission`, `BatchGrant`, `RevokePermission`, `RevokeAll`, `DeleteGrant`, `Restart`); a request through the socket (`Submit`), rate, trust and grant checks or the checks of a `function.call` (`FunctionCall`), the dispatch by calling convention and the answer (`Finish`) |
| `FlowExecution` | `CR/kernel_flow_execution.py` | chains of nested flows: `RunFlow` by the API, steps that are skipped, missing, asynchronous or on a thread of the pool (`SubmitStep`, `TakeStep`, `FinishHandler`), `ReturnFlow`, `AbortFlow`, `Timeout`; the pipelines of the startup flow (`PipeNext`) with depends_on and error policies |
| `CodeExecution` | `CR/secure_executor.py`, `python_file_executor.py`, `lib_executor.py` | one call per way (file, phase, lib): temporary files, the container or the host process, an input that cannot be written and stays (`PrepareFails`), the time limit, `docker kill` that may fail, the capability socket in the environment, cleaning up |
| `LibExecutor` | `CR/lib_executor.py` | check, install or update at each start, record of hashes in place |
| `Containers` | `CR/docker_capability.py`, `container_orchestrator.py` | counting and reserving containers of a principal, whose name is taken out also if `docker stop` failed (`DockerSpec`); the orchestrator's table against Docker's, in which a stop is `StopBox`, `DockerStops`, `DockerRemoves` and `PopEntry`, or `StopGivesUp` with what Docker does later (`BoxSpec`) |
| `UnitExecution` | `CR/unit_registry.py`, `unit_trust_store.py`, `unit_executor.py` | publication, the trust list and its file (`LoadTrust`, `ReloadTrust`, `DateTrust`), and the checks of a call with what can be exchanged between them |
| `UsageLimits` | `CR/capability_usage_store.py`, `egress_rate_limiter.py`, the limiters of the two executors | the window of requests (threads read the clock before they take the lock); the counters of a grant with days, expiry, file and restarts; a file that does not verify counts as none |

### Data and keys

| module | code | what it is about |
|---|---|---|
| `StoreRegistry` | `CR/store_registry.py`, `store_migration.py` | `Open` and the migration, creation and deletion of stores, `cas` cut at its lookup, `BEGIN IMMEDIATE`, comparison and commit; a listing page by page while keys change |
| `SecretsStore` | `CR/secrets_store.py`, `crypto_utils.py` | the encryption key and its file, secrets in three formats, migration on read, tombstones |
| `HmacKeys` | `CR/hmac_key_manager.py` | signing keys, rotation, grace period, the file that is encrypted or damaged, and the start that replaces the ring by a new key because it could not read or save |
| `PermissionTables` | `CR/host_privilege_manager.py`, `secrets_grant_manager.py`, `store_sharing_manager.py` | the three forms of a table with its file: signed in one file, one file per pack, plain in one file; a failing save may leave the file of before |
| `SharedDict` | `CR/shared_dict/` | proposals, removals and resolutions over snapshot and journal |
| `AuditLog` | `CR/audit_logger.py` | buffer, flush line by line, half lines, files by day, clean-up, query |

### Network

`EgressProxy` (`CR/network_grant_manager.py`, `egress_proxy.py`) has the grants, the
packs disabled after a modification and the files, and the server of a pack's
socket: requests that wait for a worker, the hops of a redirect, each checked anew,
errors, and the server's stop.

### Packs and flow files

| module | code | what it is about |
|---|---|---|
| `PackImport` | `CR/pack_importer.py`, `pack_applier.py` | staging, backups, application of several packs, crashes between the steps |
| `InstallJournal` | `CR/install_journal.py` | what components say they created, and what an uninstallation deletes |
| `FlowLoading` | `CR/flow_loader.py`, `flow_modifier_loader.py`, `kernel_handlers_*.py` | which of official, shared, pack and local files become flows and modifiers (`LoadNext`); the order of the steps of a flow, turn by turn of the list of its phases, in which a name may occur twice (`SortNext`) |
| `FlowModifiers` | `CR/flow_modifier.py`, `flow_composer.py` | modifiers of YAML flows (`ModNext`): inject, append, replace, remove; modifiers of composed flows (`ComposerNext`), with loops, capabilities and priorities |
| `PipInstaller` | `CR/pip_installer.py` | the second installer; it builds outside its lock |

`PipInstaller` does not implement `CandidateLifecycle`: its `approve_and_install`
looks at the status and not at the block list, leaves the lock while it builds, and
its files are written in place, so that a torn index with a whole block list is
a state of it.  Its property is what is left: a candidate whose block was reported
is not built.

### Registries

| module | code | what it is about |
|---|---|---|
| `FunctionRegistry` | `CR/vocab_registry.py`, `function_registry.py`, `function_alias.py` | synonym groups; functions with their indexes by tag, alias and permission, which change with the synonyms |
| `InterfaceRegistry` | `CR/interface_registry.py` | entries by key, temporary overrides, observers |
| `EcosystemRegistry` | `backend_core/ecosystem/registry.py`, `CR/dependency_resolver.py` | the indexes of a load, packs that share an id, and the two algorithms that order packs by their dependencies |
| `AddonPatches` | `backend_core/ecosystem/json_patch.py`, `active_ecosystem.py`, `registry.py` | patches of a manifest operation by operation, the overrides an operator has chosen and their file |

### The API server

`PackApi` has what `CR/pack_api_server.py` and its mixins keep themselves, in three
specifications that share no state:

* `LimiterSpec`: `_RateLimiter`, one action per request; `passed` remembers what an
  address was let through since its last eviction.
* `RouteSpec`: `load_pack_routes` cut at each table it replaces and each route it
  adds, by the kernel's thread (`system.ready`) and the server's
  (`POST /api/routes/reload`), with servers stopped and started; then the match, the
  paths the server answers itself, and the scope of the flow.  A route says which
  paths it covers; its regular expression is hidden.
* `SetupSpec`: the PKCE links, the exchange, and the two files, each cut at its
  opening, with failing writes and kills; the form writes one of them as well.

What the handlers ask of the managers are the operator actions of their modules.

## Runs

| run | instance | what it shows |
|---|---|---|
| `pack_approval` | one rule pack, two trees, a kernel thread and the API thread, development mode on | `ApprovedHashesBacked`, `RuleApprovalBacked`, `GrantFileCurrent`, `RunBacked` in 2.1 million states |
| `pack_auto_approve` | the same | finding 1 |
| `pack_stale_approve` | the same | finding 2 |
| `flow_scheduler` | two flows, one of them re-registered with another schedule, two workers, two chains, two starts; `0,30 9-17/4 * */1 0,2,4-6` over six days around 30 April | `NoOverlap`, `ClaimLostOnlyByStop`, `StoppedIsQuiet`; `OncePerMinute`, `MatchingMinuteFires`, `FiresOnNamedDays` in 1.6 million states |
| `flow_scheduler_live` | one start, one flow that never ends | `DueFlowExecutes`, `StopReturns` |
| `cron_month_end` | `0 0,10 * * *` over 31 January | finding 3 |
| `capability_installer` | one candidate directory, two versions of its handler, threshold 2, two faults | `BlockedStaysBlocked`, `TrustWasAsked`, `InstalledIsComplete`, `InstalledWithTrust`, `NeverOverwritten`, `MovesAsPromised` in 2.6 million states |
| `capability_trust_lost` | the same without faults | finding 4 |
| `core_runtime` | fourteen instances, see below | `CoreTypeOK`, `NoOtherKernel`, `KernelRestarts`, `DeniedStaysDenied`, `ChainsAreSimple`, `NothingLeft`, `FlowsBuilt`, `PacksKept`, `RegistriesSound`, `CallsEnd` in 150 thousand states |
| `core_services` | eleven instances, see below | `CountersExact`, `NetworkSound`, `LimitsRespected` (`LimitOfContainers`, `EntriesExist`, `WindowKept`, `LimitsKept`, `LinksOnce`), `ListsWhole` (`ListingComplete`, `RoutesWhole`, `EntriesKept`, `BudgetKept`) in 134 thousand states |
| `core_files` | nine instances, see below | `InstallsSound` (`RootsSurvive`, `PipBlockSurvives`, `InstallsOnce`, `UnitRunsVetted`), `RecordsKept` (`SecretsKept`, `KeysHonoured`, `GrantsAsTold`, `DictSound`), `AuditComplete` in 340 thousand states |
| `sub_flow` | the instance of `FlowExecution` | finding 5 |

Why the bounds are enough.  Operations on different packs touch different records,
files and cache entries, and a thread works on one pack at a time (a scan on
several, one after the other), so one pack shows the interleavings; two trees
tell "the tree approved" from "the tree there now", and `BlocksOnly` relates them
in one direction so that both verdicts of a component phase occur.  One kernel
thread and the API thread give every pair of an operator call with a scan, a
verification or an approval; two scans at the same time are reached by the API
thread and the kernel thread.  In the scheduler two chains are what a stop and
start can leave, and a second flow is what can stand before or behind the first
one in a tick, in the queue and in the pool.  In the installer, candidates meet
only in the destination and the trust entry they share, and the two versions of
one handler share both; a threshold of 2 gives a rejection that blocks and one that
does not; two faults give a failing write whose error path fails as well, and a
crash in an operation that repairs an earlier one (`MaxFaults`).  The versions
are interchangeable, hence the symmetry.  In the launcher a third process id would
show a second kernel beside one that has ended but was not waited for.  TLC's results are confirmed for
all instances where a proof is listed below.

The instances of the last three, in their MC modules and `.cfg` files.
`core_runtime`: three process ids and the launcher's limit of three restarts; a
principal and one below it; three flows, one of which calls itself,
with the kernel's four threads, two requests and a depth of two; two executions of
each way; every source of flow files; a list of phases that names one twice; two
modifiers of each kind of action; packs in
two versions, two directories that hold one pack, two vocabularies that share a term.
`core_services`: two threads on one row and a listing of three keys; two clients and
a redirect; a principal with a limit of one container and two runs; a pack whose name
is within another's; three addresses; routes that hide each other; two links; two
overrides; a window of two requests and three callers; a grant over two days.
`core_files`: three directories, one in the other; one pack with two lock files, of
which one cannot be built; a lib with two contents; two secrets and two keys; a unit with two
codes; three tokens and two hops; three signing keys; two packs with one file name;
four log entries over three days, with two faults.  One or two failing writes, kills or restarts are
allowed where the code writes files, which is one for the fault and, where an error path
writes again, one for that.

`CallsEnd` is the liveness property: a flow that was started ends
(`FlowFairness` of `FlowExecution`) and a phase or lib in a container is answered
(`ExecFairness` of `CodeExecution`).  The first assumes that the loop and the threads
of the pool go on, that a handler ends, and that the queue of the pool is first in,
first out (strong fairness of `TakeStep`); the second that Docker and the thread
that waits for it go on.  Code in a container is not assumed to end.  Timeouts of
flows are not assumed either: a caller need not give one.  `CallsEnd` excepts one
state, `PoolStuck`, in which all threads of the pool wait for flows whose steps wait
for a thread.  TLC reaches it with the four threads of `kernel_core.py:78`, two
requests and a depth of two, after timeouts have left threads behind; with the ten
requests and the depth of ten the code allows, four nested flows are enough.  With
one thread more the instance cannot reach it.

Fairness (`FlowScheduler!FairSpec`): every timer thread and worker that can take a
step eventually takes one; the controller finishes a `start` or `stop` it has
begun; the execution of a flow outside `Endless` ends.  The first is what the
operating system's scheduler and `threading.Timer` give; nothing bounds the
execution of a flow (the scheduler's callback passes no timeout), hence `Endless`,
which the liveness run makes non-empty.  Nothing is assumed about callers, minutes
or intervals.  `SupervisorSpec` assumes that the launcher's thread goes on
(`WF` of `Launcher`): its loop sleeps 50 ms at most, `stop` kills after five
seconds and the health check ends after thirty.  Nothing is assumed about the
kernel, which may never exit, or the user.

## Findings

1. `auto_approve_if_dev` can approve a pack that was rejected a moment before
   (`pack_auto_approve`).
2. `approve` can record hashes of the files as they were before the change that
   is being approved, taken from the hash cache (`pack_stale_approve`).  In the trace the
   cache was filled by an approval whose save failed; a verification fills it as well.
3. A cron entry that fired at 10:00 on the 31st does not fire at 00:00 on the
   first (and so for every pair of minutes ten hours before and after the end of a
   31-day month: the two have the same number), run `cron_month_end`, theorem
   `MinuteCodeCollides`.
4. Approving a new version of an installed handler fails at the copy, which never
   overwrites, but by then its trust entry has replaced that of the installed
   version (`capability_trust_lost`).
5. A step of type `flow` never runs its flow: the deep copy of the context meets
   locks and raises (`sub_flow`).

Smaller disagreements met while modelling; the modules describe what the code
does, and no run is about them:

* `Kernel._init_kernel_handlers` (`CR/kernel.py:1032`) has no caller, so steps that
  name a `kernel:` handler registered there are passed over (comments at
  `CR/kernel_handlers_system.py:56` and `kernel_handlers_runtime.py:59`).
* The error handler `retry` goes on with the next step
  (`CR/kernel_flow_execution.py:484`; `rumi_ai_1_10/docs/pack-development.md:1631`).  In a pipeline
  a step that raised counts as executed, in an asynchronous flow it does not.
* `start_flow_scheduler` (`CR/kernel_core.py:443`) has no caller, and the
  conversion of flow definitions drops `schedule` (`docs/pack-development.md:441`).
* `update.py` of a lib runs at every start, and a failed install is never tried
  again (`docs/pack-development.md:1165`).
* Core functions written as blocks never run (`CR/capability_executor.py:792`).
* `store.set`, `get` and `delete` use files, `list`, `batch_get` and `cas` the database.
  A migration that fails leaves an empty database and is not repeated
  (`CR/store_registry.py:180`).  Packs `a` with store `b__c` and `a__b` with store `c`
  share one qualified id (line 531).
* A pack whose network access was disabled after a modification gets it back by a
  new grant or a restart only: `enable_after_reapproval` has no caller
  (`docs/operations.md:1267`).
* `verify_token` accepts a retired key past its grace period until the next
  rotation or restart (`CR/hmac_key_manager.py:588`).
* A secrets key file that cannot be read or is empty is replaced by a new key
  (`CR/secrets_store.py:87`).
* The usage store announces that it fails closed, "uses are taken to be used up"
  (`CR/capability_usage_store.py:11`), and fails open: a file that does not verify or cannot
  be read counts as no use (lines 135, 143), and a write that fails is passed over.
  `LimitsKept` excuses the uses that were lost so.
* A key ring that was read but could not be saved at a start is treated as unreadable and
  replaced by one new key (`CR/hmac_key_manager.py:446`, `458`).
* A secret grant whose revocation could not be saved comes back with the next start, if
  the save failed before the file was opened (`CR/secrets_grant_manager.py:156`).
* A flow may list a phase twice; its steps are then emitted twice (`CR/flow_loader.py:711`).
* An entry of the audit log that is written behind a half line is lost to queries
  (`CR/audit_logger.py:157`, `454`).
* A temporary input that cannot be written is not removed (`CR/python_file_executor.py:820`).
* The trust list of units misses an edit that comes between its reading and the taking of
  the mtime (`CR/unit_trust_store.py:215`).
* `HostPrivilegeManager` accepts a file whose signature is wrong.
* `docker ps --filter name=` matches substrings (`CR/container_orchestrator.py:80`); a
  stop between the run and its record, or one that times out, leaves a stale entry.
* A run of the docker capability that times out kills the client only, and its
  container is no longer counted (`CR/docker_capability.py:463`); neither is one whose
  `docker stop` failed (line 620).
* `POST` of a pack's application calls `apply_staging`, which `PackApplier` does not
  have (`CR/api/pack_lifecycle_handlers.py:177`).
* `flow.load_all` does not unregister flows that are gone; conflicts between
  modifiers are logged only (`CR/flow_modifier.py:83`).
* An uninstallation deletes a recorded directory even if it lies above a protected
  one (`CR/install_journal.py:197`).
* `FlowComposer.apply_modifiers` keeps what a modifier did before it failed, without
  recording it; `wrap_with_loop` swallows the steps in between
  (`CR/flow_composer.py:155`).
* The first of two packs with one id is kept, but components, routes and functions
  of the second are indexed already (`backend_core/ecosystem/registry.py:166`).
* `json_patch` "replace" on an array index inserts (`json_patch.py:272`); an added
  list or dictionary is shared with the patch it came from.
* A pack route with method DELETE is never reached: `do_DELETE` answers every path below
  `/api/packs/` itself, as the removal of a pack or a 404 (`CR/pack_api_server.py:1230`), and the registry
  accepts no other prefix (`backend_core/ecosystem/registry.py:443`), so that the
  `/api/orgs/...` routes of `docs/pack-development.md:1487` are rejected.
* The flow of a pack route gets the body, `_path_params`, `_method` and `_path`
  (`CR/api/route_handlers.py:194`), not the query, headers and raw body of
  `docs/pack-development.md:1494`; the registry drops `input_mapping`, and the timeout of
  a route is not used.
* A template that names one parameter twice ends the load of all routes behind it; of
  two equal templates the listing shows the last, and the first is served.
* The OAuth callback answers `linked=true` also if tokens or profile could not be saved.
* `HostCapabilityProxyServer.initialize` counts as done although the executor's
  failed (`CR/capability_proxy.py:284`).

## Proofs

`tlapm` checks them for every value of the constants.  What is assumed of
constants is named in the module that declares them (`PackAssumption`,
`JournalConstants`, `SecretConstants`, ...) and evaluated by TLC on the instance: for
the larger components as an `ASSUME` of the module, for the small ones as a
hypothesis of the theorem, which the `ASSUME Instances` of the MC modules shows to hold.
It says that bounds are natural numbers, that markers such as "no file" are not
values, and where a proof counts, that a set is finite.

* **PackApprovalProofs**: `TypeCorrect`, `ApprovalsBacked`, `RulesBacked`, `FilesCurrent`,
  `RunsBacked`, all properties of the run.  The invariant adds to
  `ApprovedHashesBacked` that every tree the manager, its cache, a scan, a
  verification or a rollback has in its hands was once on disk (`TreesBacked`) and
  that a thread inside a call knows its pack (`CallsWellFormed`); what a scan has read so
  far comes from the record there now, or from a decision before it, and is `mixed` where the
  two differ.  Steps are
  grouped by what they move (calls, scans, records, trees); `MovesPreserve` shows
  that moves of each kind preserve the invariant, and there is one lemma per
  action that says which moves it makes.  The three others go the same way with
  invariants of their own: where a rule approval may be found (record, file, scan,
  rollback), which of memory and file is behind, and what a thread that is past its
  comparison had compared with.
* **SchedulingProofs**: the scheduler and its cron entries.
  - `NoOverlapAlways` needs that every claim is in `_running_flows` (`ClaimsRecorded`) and
    that a tick holding a claim is its only holder (`TicksExclusive`); a new claim is made
    under the lock for a flow that is not in `_running_flows`, hence held by nobody.
    `StoppedIsQuietAlways` follows from the states of the pool (`PoolInv`),
    `ClaimLostOnlyByStopAlways` from both.
  - `OncePerMinuteAlways` and `FiresOnNamedDaysAlways`; `MinuteCodeInjective` shows that
    finding 3 needs two different months, `MinuteCodeCollides` that it occurs in every
    31-day month but December of every year.  `MatchesFireInAMonth` is what remains of
    `MatchingMinuteFires`: until the month ends, a matching minute that sees a tick fires.
    Its invariant orders the minutes of a month by their numbers, so that the minute of the
    last firing is now or behind; `SchedulingTypeCorrect` has the types of both modules and
    shows the clock to be a date of the calendar.
* **CapabilityInstallerProofs**: all properties of the run.
  `TrustWasAskedAlways` carries along that an approval in progress was asked for;
  `InstalledWithTrustAlways` that between `ApproveTrust` and `ApproveFinish` the
  file can be read and holds the entry of the approval in progress;
  `InstalledIsCompleteAlways` and `NeverOverwrittenAlways` share an invariant on
  the destination (an approval that is past the copy has found or made it
  complete, one in the middle of it has written `handler.json` only);
  `BlockedStaysBlockedAlways` rests on `Harmless`, the steps that leave alone the
  items somebody was told are blocked.  `InstallerKeepsPromise` is the refinement:
  the invariant `LifeInv` says that a candidate awaits a decision until its
  approval ends, and every action is shown to be one of `CandidateLifecycle`
  (`BecomeMoves`, `SaveStep`) or hidden (`HiddenStep`).
* **CoreRuntimeProofs**: `ExecutionsLeaveNothing`, `FlowChainsAreSimple`, `PipelinesAreOrdered`,
  `WithdrawnStaysDenied`, `SupervisorTyped`, `NoOtherKernelAlways`, and the run as a whole.
  - Executions: as long as no two have overlapped, the one on the host found no socket
    set (`OneOnHost`); an answer has left no file and no code but the two kinds that
    the property excepts (`AnswersClean`).
  - Chains: the call stack of a chain that was not answered by a timeout is the list of the
    flows of its frames, each entered because it was not in the list (`ChainOK`).
  - Pipelines: what counts as executed was tried, and what was passed over has a
    dependency that was not executed before it (`Excused`); a strict pipeline has tried
    all steps up to where it is (`StrictSoFar`).
  - Requests: a withdrawal that was written is seen by every state a restart may find
    (`WithdrawalsHold`), and a request that is past its check began before it (`RequestsBarred`).
  - Supervisor: the launcher has no child where it starts one, and none after it has
    given up restarting, which bounds the count (`SupervisorInv`).
* **PackContentProofs**: what packs bring; most of it is about lists, and what a loop over
  one has done so far is the invariant.
  - `FlowsAreAuthorised`: what is loaded comes from a pack that was found approved, and as
    files are read by source, the flow that holds an id is an official or shared one if such
    a file was offered (`HoldersSound`).
  - `StepsAreInOrder`: what a phase has placed has its dependencies before it (`NeedsPlaced`).
    When no step is ready, each of those left needs another of them, so they are the cycle
    that `Cyclic` asks for, and the phase is sorted by priority and id; when there is no
    dependency in the phase one round places all.  A step of the result is known by the turn
    that put it there, so that a phase listed twice is placed twice.
  - `ModifiersDoAsDeclared`: of any two steps of the result the earlier may be before the
    later (`Fits`): a step of the flow that was written first, a step that was brought in on its
    side of its target, and an earlier phase, if each modifier names its target's.  An insertion
    keeps the pairs of what was there, so the new pairs are those with what is put in
    (`CutPairs` of `Subsequences`).  That the target is still there follows from the order of
    the passes: nothing is taken away after the first.  Each lost step was the target of a
    replacement or removal of its own (`LostIn`), which needs no counting.
  - `ComposedIsAccountedFor`: any two steps of the pipeline that are left are in the order they
    were written in, and those left are the ones not taken away; two orderings of one finite
    set by one order are the same (`SelectedIsOrdered`).
  - `ContentsAreKept`: before a directory is removed what it held complete is in a backup, and it is
    absent when the new version is copied (`JobSound`).
  - `VocabIsSound`: the terms of a group are connected (`Connected`): a set that no line leaves
    has all of a group or none; a merger joins two groups through the line that caused it.  The
    older of two groups begins at the earlier line (`OlderFirst`), which is why the merger into
    the older one keeps the preferred term of the earliest line.
  - `LookupsAreSound`: manifests are stored under their names (`NamesMatch`); a change of the
    vocabulary drifts exactly the functions with a tag whose preferred term it changes.
  - `IndexesAreOfPacks`: packs loaded so far are of directories before the next one
    (`LoadedBefore`), so that no entry is added twice; what a pack adds is in its own order
    (`Added`).
  - `OrdersAreBuilt`: what is placed has what it needs before it (`NeedsFirst`); what is never
    ready needs another such pack, which makes it a member of `Stuck`.
  - `ChoicesAreHeld`: the file and memory agree on what is off; a patch works on a copy
    that shares nothing, and shares only values of its own addon as it goes (`Patching`,
    `OwnValues`), so that no later patch changes what an earlier outcome recorded.
* **CoreServicesProofs**: stores (`StoresTyped`, `CountersExactAlways`,
  `RowsHaveStoresAlways`), egress (`NetworkIsSound`), containers
  (`ContainersWithinLimit`, `EntriesAreContainers`), the limiter (`WindowKeptAlways`), limited grants
  (`GrantLimitsKept`), setup (`LinksServeOnce`), listings (`ListingsAreComplete`), pack routes
  (`RoutesAreWhole`), interfaces (`EntriesAreKept`) and sliding windows (`BudgetsAreKept`); all
  types (`ServicesTyped`).
  - Stores: only the thread inside `BEGIN IMMEDIATE` is between its reading and its
    commit (`OneWriter`), what it read still holds (`ReadHolds`), and the values replaced so
    far are below the one that is there (`Replaced`); so the value a commit replaces was
    replaced by no commit before.  `FileRead` keeps a migration away from a database
    that has rows.
  - Egress: a hop that is past its check was granted since it began (`HopsGranted`);
    the permits and the workers that hold one add up (`PermitsBalance`).
  - Containers: a run is entered from before Docker is asked until it is over
    (`RunsEntered`), so that a principal's entered runs bound its containers but
    the ones that run on after a timeout or a stop that failed.
  - Limiter: what is held of an address is the end of what it was let through, and all
    before it is out of the window (`ForgottenIsOld`); the request `MaxRequests` before the
    one that passes is therefore among the old ones.
  - Grants: every record, of the file or of a process, knows of all calls but the
    excused ones (`Knows`); a process that checks a limit counts against its record, and
    the calls of the others since it was read are those that overlapped.
  - Listings: what was there all along is given if it is up to the cursor, and nothing
    beyond the cursor is (`PagingSound`); a page that is cut has, with its last key, all
    that match below it (`PageGives`).
  - Pack routes: a route behind which some load has come is in the tables, or some load
    is still to add it (`TablesFollow`, with `Coming` and `Passed`).  The thread that
    empties a table is one that is still to add all routes, and the thread that
    ends has the other one coming behind it if that one has emptied a table meanwhile.
  - Interfaces: entries registered outside an override are below the length that it
    will be cut to (`OutsideBelow`), and an override's own are above one (`OverridesAbove`).
  - Windows: what the window no longer holds of the times let through is older than
    a window by the delay (`ForgottenTooOld`), although the clock was read before the lock.
  - Setup: a link that may still be used was not (`UsedOnce`), since it is taken out
    before the exchange; a file that is cut is being written, or there was a fault
    (`CutWhileWritten`).
* **CoreFilesProofs**: components whose memory has a file behind it.
  - `UninstallSparesRoots`: a planned path was decided on (`PlanDecided`), and what is lost
    inside a protected root has a recorded directory above that root.
  - `PipBlocksSurvive`: a reported block is in memory, and in the block list or at the
    limit of rejections in the index (`BlockKept`): one fault cannot spoil both.
  - `InstallsAreOnce`, `SecretsAreKept`, `UnitRunsAreVetted`: memory and file tell the same of a settled
    install; file and process have the same key unless it was lost (`OneKey`), and
    a promised secret is read from whatever format it is in (`PromisesHeld`); a hash that
    was compared is one the trust file named since the list was read (`ListNamed`, `HashNamed`).
  - `RulesAreAcyclic`: acyclic means that every set of tokens has one whose rule leads out
    of it, which a removal keeps and an addition keeps because the bounded walk from its
    value has met the end of its chain, and not the token (`AdditionAcyclic`).  A walk that returned to a token would
    be a cycle (`NoWalkReturns`), so that a resolution reports one only if rules have changed.
  - `KeysAreHonoured`: memory and file are lists in order (`InOrder`), and the file is behind
    by no more than the rotation under way (`FileBehind`); a start that fails makes its one
    new key the only one that is promised.
  - `GrantsStand`: what the pack's own file says is what memory says (`FileAsGranted`, `TableAsTold`),
    but for the pairs a failed save has left in doubt; no pack has a secret it never was granted.
  - `AuditIsComplete`: what waits in the buffer is later than everything in the files
    (`Ready`), so that a flush keeps each file in order (`FileGrows`) and no entry is in two
    places; hence what all files have together is no longer than what was logged, and
    an unlimited query is all of it.  Each half line is of a fault of its own and spoils one
    entry at most (`TornOk`).  The recursion over the days is a recursive function, which
    exists because the days are numbers (`BackIs`).

* **Subsequences**: what a selection from a sequence keeps, and in which order
  (`SelectedKeeps`); that sorting puts every element in its place (`Ordered`), and that a
  sequence in the order of a total order is the sorted one of its elements; what a cut
  (insertion, replacement or removal) does to the elements and the pairs of a sequence.

The properties that join those of several modules and the types of all components are proved
of the compositions (`FlowsAreBuilt`, `PacksAreKept`, `RegistriesAreSound`, `RuntimeTyped`;
`LimitsAreRespected`, `ListsAreWhole`, `ServicesTyped`; `InstallsAreSound`, `RecordsAreKept`,
`FilesTyped`): every step of a composition is a step or a stutter of each of its
components (`RuntimeStepAlone`, `ServicesStepAlone`, `FilesStepAlone`), and `Instances` gives what the
components' theorems assume.

Every safety property of the passing runs has a theorem.  Only model-checked:
`MatchingMinuteFires` across months, where it is false (finding 3), and, being liveness under
fairness, `DueFlowExecutes`, `StopReturns`, `KernelRestarts` and `CallsEnd`.  What lists and
sorts compute was proved without induction over data: each round of a loop is an action or a
value of a recursive function, and its invariant says what the rounds so far have done.

## What is not modelled

Of the approval manager: the local pack, core packs (approved without a record)
and the stores that `approve_rule` creates.  Of the scheduler: the reading of the
`schedule` field and time zones.  Of the capability installer: validation of
slugs and entry points (a source that fails it is `None`), a change of
`permission_id` alone, the event log and the length of a cool-down; `index.json`
and `blocked.json` are not damaged from outside.  Of the launcher: the environment,
the update check, a failing `try_wait`, and the death of the launcher itself, which
leaves the kernel running.

Of the components of the last three runs: the intersection of grant configurations; the parsing of names, addresses,
YAML, zip files and manifests; the command lines of Docker and pip; the masking of
audit fields; encodings and size limits of single values; the second permission
table, which has no file; the event bus and the container of services;
functions without callers (`reload_component`, `begin_use`, `end_use`, `drain`,
`remove_trust`, `unregister_pack`).  Kernel handlers that only pass their arguments to
one manager are that manager's operations.  Cryptography is perfect: a
signature or ciphertext is a value that only its key makes.

Not modelled at all: health, metrics, diagnostics, profiling and language files,
since nothing reads them back; paths, validation and scaffolding, which are stateless
or tools for authors; static files and authentication of the API server, and how it
dispatches the calls of the managers; the update check of the launcher.

## Plan

In this order, the most consequential first:

1. *done* PackApproval, FlowScheduler, CronSchedule, CandidateLifecycle and
   CapabilityInstaller, and their proofs.
2. *done* KernelSupervisor and its proofs.
3. *done* the components of `core_runtime`, `PipInstaller`, `PackApi`.
4. *done* proofs of the components in the order of `CoreRuntimeProofs`,
   `CoreServicesProofs` and `CoreFilesProofs`, the three open properties of PackApproval, and
   `PackContentProofs` with the compositions.
5. Compositions across `focus`: an approval that is withdrawn while the egress server
   and the capability executor serve the pack.
6. A run for the exit of the kernel by a signal, for keys past their grace period, and for
   the pool that waits for itself.
