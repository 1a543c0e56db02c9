# Steam Account Manager: TLA+ specifications

This directory holds TLA+ models of the parts of Steam Account Manager in which
order, threads, crashes, late answers and shared counters decide whether accounts,
tokens and secrets survive, the TLC configurations that check them on small
instances, and TLAPS proofs about eight of them for instances of any size. The program
is a Windows desktop application in C++ (`app/`, `core/`, `platform/`, `ui/`); it has no
test suite, so what is below is derived from the code. Paths are relative to the
repository's root.

Checking, from this directory:

    tlc -config VaultSession.cfg MCVaultSession.tla     # and the other pairs of section 4
    tlapm VaultSessionProofs.tla        # likewise DiskProofs, AppThreadsProofs,
                                        # RefreshAllProofs, ConfirmationsProofs, SteamProofs,
                                        # WizardProofs, TradeOffersProofs

Contents: 1 the system, 2 the modules, 3 how each corresponds to the code, 4 the runs,
5 what is proved, 6 what the models show of the code, 7 what is not modelled, and what
could come next.

## 1. The system

One process (`platform::SingleInstance`), one UI thread. The UI thread runs a frame
loop (`app/win_main.cpp`, 654-772): it applies the results that other threads have
posted (`job_pump::drain`), runs the ticks of the multi-step operations, the
auto-lock and the refresh timers, then draws. All of `AppState` belongs to the UI
thread, with the exception of `completed_jobs` (under `job_mutex`) and a few
atomics. Beside it there are four pool workers, the vault saver's thread, the
confirmation poller, the time aligner, detached drivers of Steam's login window, and
the game coordinator (GC) clients' threads. They communicate with the UI thread by
posting closures, which run there up to minutes after the state they were computed
from was read. What survives the process is the data folder (vaults, settings, registry
of vaults), a few values in the Windows registry, and whatever Steam was told.

| Component (source) | State | Operations | Talks to | What is hard | What makes it correct |
|---|---|---|---|---|---|
| Vault session and saver (`app/vault_saver.*`, `app/app_state.cpp`, `ui/screens/unlock_screen.cpp`) | vault in memory, dirty flag, master password; pending snapshot, busy flag, path | unlock, create, edit, save, flush, lock, exit; take, write | saver thread under one mutex; file | snapshot scheduled while an older one is written; lock and unlock around a pending save; failed writes; crash | no change is silently forgotten; flush is a durability barrier; a file holds its own vault |
| Data folder (`platform/paths.cpp`, settings, unlock screen) | cached `data_dir()`, two registry values, the folders | resolve, remove the old folder, copy, record, reset, locate | registry, files, saver | the move takes effect only at the next start; crash between its steps; drives that come and go | nothing removed that is not elsewhere |
| Vault registry and directories (`app/vault_registry.cpp`, picker) | `registry.json`, one directory per vault, pending switch | initialise, migrate, create, remove, choose, switch | files, session | rewrite in place; directory and list change in separate steps | every vault is listed; no file goes away unasked |
| Settings (`app/app_state.cpp`, settings screens) | one global file, one per vault, copies in other components | load, save, push, change | session, HTTP layer, hotkey, import task | loading over what is in memory; a late import | what is saved at once is on disk; a vault's settings stay its own |
| Accounts: import, bundles, merge (`core/account_store/store.cpp`, add-account screens) | the vault | import, edit, remove, export, preview, merge | files | one account under two identities; duplicates in a bundle | ids never move; the preview tells what the merge does |
| Steam Guard dialogs (`ui/widgets/sda_wizard_dialogs.cpp`, `core/sda/revoke.cpp`) | dialog step, `Account::sda`, what Steam holds | enrol, finalize, verify, remove | Steam, saver | crash, close or lock between Steam's answer and the save | secrets are durable before Steam relies on them |
| Worker pool (`app/job_pump.*`) | task queue, running flag, one condition variable for workers and for sleeping tasks | submit, worker loop, interruptible sleep, drain, stop | UI thread, all tasks | a wake-up that goes to the wrong waiter, or comes between test and wait | every task runs; none outlives `AppState`; results in order |
| Confirmation poller (`app/conf_poller.*`) | running flag, own mutex and condition variable | tick, stop | UI thread | stop racing the wait | stop does not wait for the interval |
| Refresh of all accounts (`app/app_state_refresh.cpp`, `app/cs2_autopull.cpp`) | `refresh_all_total`, `refresh_all_done`, per-account "refreshing", validation queue | refresh all, staggered sweep, one account, import, validation, headless run | pool, GC client | several batches feed one pair of counters | the counters return to zero, never early, never late |
| Mobile confirmations (`ui/screens/confirmations_screen.cpp`, `core/sda/`) | list per account, batch counters, failure counts, audit log | refresh, answer one or many, auto-approve, link a maFile | pool, poller, Steam | stale lists; two jobs of one account; answers half-way | Steam is told what was asked, once; it is recorded |
| Trade offers (`ui/screens/trade_offers_*.cpp`, `core/trade/`) | lists, flags, the send dialog, history | fetch, accept, decline, send, send from many | pool, Steam | lost answers, calls repeated after a login, overlapping tasks | every send is accounted for, none made twice |
| Sign-in and tokens (`app/app_state_login.cpp`, `ui/screens/add_account_full_login.cpp`) | one wizard, tokens per account, re-login limiter | begin, code, poll, re-login | pool, Steam | answers of an attempt given up | tokens go to the account that signed in; a rotated one is not lost |
| Launch (`core/launch/`, `app/app_state_refresh.cpp`) | generation, pending token launch, what Steam stores | launch, mint, reapply, watch, read back | Steam's process and files | launches that overtake each other | no relaunch in a circle; the last token is read back |
| Trace cleaner (`core/cleaner/`, `app/cleaner_runner.cpp`) | keep list, plan, busy flag | plan, close Steam, execute | Steam's files, launch | read-modify-write beside Steam and launches | kept accounts keep what they had |
| GC client, CS2 screen, auto-pull, validation (`core/cs2_gc/`, `ui/screens/cs2_screen.cpp`, `app/cs2_autopull.cpp`) | client threads, selected account, open unit, sweep records | connect, load, move, claim; pull; validate | UI thread by posted callbacks, Steam | callbacks of a retired client, of another unit | what is shown and stored belongs to its account and unit |
| HTTP, Steam CM framing, notifications, hardware profiles, VDF parsing, rendering | | | | | section 7 |

## 2. The modules

| Module | Models | Proved or checked in |
|---|---|---|
| `VaultStore` | abstract: what the application promises about a vault's durable contents | implemented by `VaultSession` |
| `VaultSession` | UI thread, saver thread, crashes and restarts around the vaults of one process | `MCVaultSession`, `VaultSessionProofs` |
| `TaskPool` | abstract: what `job_pump` promises its callers | implemented by `AppThreads` |
| `CompletedJobs`, `JobPump`, `ConfPoller` | the queue of results; the thread modules at the grain of mutex, wait and notification | `AppThreads` |
| `AppThreads` | composes them with the UI thread's frame loop and shutdown sequence | `MCAppThreads`, `AppThreadsProofs` |
| `RefreshAll` | the counters of "refresh all" and everything that feeds them | `MCRefreshAll`, `RefreshAllProofs` |
| `DataFolder` | where the data is: resolving, moving and removing folders | `MCDisk`, `MCDataFolder`, `DiskProofs` |
| `VaultFiles` | `registry.json`, vault directories, picker, switch, remembered password | `MCDisk`, `DiskProofs` |
| `Settings` | settings in memory, in the global and the vaults' files, and their copies | `MCDisk`, `DiskProofs` |
| `AccountMerge` | importers, edits, bundles, merge and its preview | `MCDisk`, `DiskProofs` |
| `SdaWizard` | Steam Guard added to and removed from an account: at Steam, in memory, on disk | `MCDisk`, `WizardProofs` |
| `Confirmations` | lists, worker jobs, callbacks, batch counters, auto-approval, audit | `MCOnline`, `ConfirmationsProofs` |
| `TradeOffers` | trade lists, sends, confirmations of sends, sessions and their renewal | `MCOnline`, `TradeOffersProofs` |
| `LoginWizard` | the "Full login" tab and its requests | `MCOnline`, `WizardProofs` |
| `Launch` | launches, drivers, reapply, watcher, minting, relaunch | `MCSteam`, `SteamProofs` |
| `Cleaner` | cleaner runs beside Steam and launches | `MCSteam`, `SteamProofs` |
| `GcClient` | a GC client as its owners see it | extended by the next two |
| `Cs2Screen`, `GcSweep` | the CS2 screen; auto-pull and validation | `MCSteam`, `SteamProofs` |

`MCDisk`, `MCOnline` and `MCSteam` put several parts in one run. Parts of one run share
no variables in the model and no promise that a property is about, so the run explores each
beside the initial state of the others: the numbers of states add up instead of
being multiplied. Where components do interact, they are in one module (saver and UI
thread, poller and pool, refresh and validation counters, launches and cleaner), or one
extends the other (`GcClient`).

Operators named `..._mutant` are slips a change of the code could make (a dropped
test, a missing reset). No action uses them. Each is put in place of one definition, to
see that a property is able to fail; the pairs are under `mutants` in `PROJECT.json`.

## 3. The models and the code

### VaultSession

The contents of a vault are the set of edits applied to it, tagged with the vault.
The tag stands for the master password the file is encrypted under: a vault's file
with another vault's tag cannot be opened with its own password. `Blank` is the
default-constructed vault with an empty password that `lock_vault()` leaves.

| Code | Model |
|---|---|
| `VaultSaver::start`, `schedule` | `Schedule` (the path only from the first) |
| `VaultSaver::flush` | `BeginFlush`, then `FlushReturns` or `ExitFlushed` when `Drained` |
| `VaultSaver::run` | `Debounced`, `Take`, `Install`, `InstallFails`, `End` |
| `~VaultSaver` | `ExitFlushed` (stop), `Joined` |
| `save_vault_if_dirty`, `flush_pending_save` | `SaveIfDirty`, `BeginFlush` |
| handlers that edit and save; that only mark dirty; late bulk results | `EditAndSave`, `EditOnly`, `LateResult` |
| `lock_vault`, `try_unlock`, `create_vault`, picker, "Create vault" | `Lock`, `Unlock`, `Create`, `Pick`, `CreateBeside` |
| process death, next start | `Crash`, `Restart` |

The saver's mutex is held only around the steps above and its condition variable has
a predicate and `notify_all`, so one step is one action. A write is one step that
happens or fails: `atomic_write_file` writes beside the file, flushes and renames, and
each path has one writer.

Two constants name circumstances. `SettledUnlock`: an unlock happens only when no
save is pending or under way. `PickAgain`: another vault is picked in a process that
has saved one. The passing run and the proofs have the first and exclude the second;
what happens otherwise is in section 6.

### AppThreads

`JobPump` gives a worker the states of `worker_loop` and `interruptible_sleep`,
with the test and the wait as separate steps inside which the mutex is held
(`Free`), since the notification of `stop_workers` needs no mutex and can fall
between them. `NotifyOne` wakes any thread that waits on the condition variable: an idle
worker or a sleeping task. Spurious wake-ups are actions. Tasks are plain (one result at
the end) or staggered (`Steps[t]` results with sleeps between, as
`refresh_accounts_staggered`). The UI thread drains by swapping the queue out,
applies the results one by one, may submit from any of them, and on the way out stops
and joins the poller, then the workers, one thread operation per step.

### RefreshAll

Everything runs on the UI thread, in frames or posted results; the model keeps what is
outstanding: bulk requests with the accounts to go on with (`web`), callbacks of the
staggered sweep not yet run (`calls`), fetches (`fetch`), the validation queue (`val`).
`refresh_single_account(id, batch)` is `Call` with its early returns (gone,
already fetching, fetched less than 30 s ago), its result `FetchEnds`. `Bump` is the
increment and reset that is written out in the code wherever an account of a batch
ends. The `--startup` run without a window is `headless`.

What is still to be counted (`Outstanding`) is the number of elements of four sets, one
for each place an account waits in. `dropped` is a history variable: an account that the denominator counts left by an early
return. Assumed: a web API key is set and the GC is enabled (without them the
operations return at once), and the headless run's overall time limit is not reached.
Bounds: `MaxWeb` bulk requests and `MaxCalls` callbacks of one account
outstanding, `Handled` accounts also refreshed, validated or imported by hand, `Removable`
accounts that may be removed. Locking the vault makes every account absent, so the
accounts that cannot be removed are also found missing.

### DataFolder

`folder[d]` is the set of edits that a start which resolves to `d` finds, that is, in
the vaults listed by the `registry.json` there. A copy replaces `registry.json`, so it
replaces `folder[d]`. `dataDir` and `cleanupOld` are the HKCU values `DataDir` and
`CleanupOld`; `dir` is the value `data_dir()` caches for the life of the process.

| Code | Model |
|---|---|
| `resolve_data_dir`, `ensure_data_dirs` | `Resolve` |
| `cleanup_relocated_old_dir` | `RemoveOld`, `RemoveFails`, `NothingToRemove`, `ForgetOld` |
| `init_vaults`, opening the vault | `Open` |
| `relocate_data_dir` | `Copy`, `CopyFails`, `RecordOld`, `RecordNew`, `RecordNewFails` |
| `clear_custom_data_dir` after a reset | `ClearNew` |
| the saver writing behind | `Save`, possible between any two of these |
| "Locate an existing data folder" | `Locate` |
| death, shutdown, a stick taken out or put in between runs | `Crash`, `Exit`, `Replug` |

`saved`, `left` and `moved` are history variables that the properties need and no
guard of a program step reads (`Edit` reads `saved` so that an edit is never made twice).
Two constants name habits of the user: `RestartAtOnce` (moves when nothing is
waiting to be saved, and changes nothing before the restart) and `ChecksTarget`
(moves onto no folder with accounts of its own; otherwise the user relies on the
dialog's warning). Folders inside each other, `portable.flag` and a registry that refuses
to delete `CleanupOld` are left out.

### VaultFiles

`registry`, `listed` and `autoOnDisk` are `registry.json`; `known` and `auto` the copy in
memory. `save_registry` truncates and rewrites: a caller sets `saving` to "due", then
`Truncate` (the file is "torn"), `WriteRegistry`, or `OpenFails`, which the code does not
report. `Start` is the migration of `init_vaults`, `ResolveGui` and `ResolveHeadless` what
each kind of start opens, the rest the unlock screen, the picker, the vault list of the
settings and locking. `Killed` is possible in every state. `own` (vault files with
somebody's accounts) and `cut` (a crash or a failed write fell into a change) are history
variables. Names, colours, icons and the order only change what a save writes.

### Settings

A setting's value is the vault the user had open when it was set, or `Factory`,
`Legacy` (a global file from before vaults had their own), `Absent`. One key of each kind is
kept: mirrored into the global file (proxy), saved by its control (`safe_mode`), saved
later (Web API key), the hotkey, and the label of the userdata template, which a worker's
callback saves. `OpenVault` is `load_vault_settings`: a key that the file lacks keeps the
value in memory. A write may fail: `write_json_atomic` logs that and the caller goes on as if
the file were new (`SaveVault`, `SaveGlobal`). `failed` is history: the last write of the open
vault's file failed. A behaviour touches at most two settings (`Touched` in `MCDisk`), and one in
which a write fails only one: no handler reads one to set another, so a third would only repeat
what two show.

### AccountMerge

Accounts are records of id, Steam ID, login, and what makes an import treat them
differently (password known, NFA, cached, group). `FindExisting` and `SameAccount` are
`find_existing_account` and `same_account`; `MergeInto`, `PreviewMerge`, `Subset` are
`merge_into`, `preview_merge`, `subset_vault` as operators, folded over the incoming
accounts in their order. The handlers: the four importers, rename, conversion,
removal, groups, export, and the import dialog with its stages and a bundle that is damaged
in each way the reader tells apart. `MaxIds` bounds the accounts created, `MaxSteps` the
handlers run: four suffice to import an account twice under different identities
after an edit, or to export, change and merge.

### SdaWizard

`linked[a]` is what Steam holds of an account's authenticator (active, and added but not
finalized), `guard[a]` is `Account::sda` in memory and `onDisk[a]` in `vault.bin`. The two
dialogs are records `add` and `rem`. A request is under way until Steam has answered, and
its callback, which runs in order with the others, does what the lambda in the dialog's
code does, with its `account_id` test. `obtained` and `astray` are history: the secrets the
program was sent, and the accounts of which a request was cut off by the end of the process
or whose answer the dialog dropped. The save and flush at the end of a callback are one
step here: `FlushIsDurable` of `VaultSession` is why they may be. Bounds: one authenticator per
account, three requests for one account or two over two (`OnTouched`).

### Confirmations

A worker job sits in a slot; one network call, or one block under `g_mtx`, is one step.
The screen is drawn from a copy of the list (`shown`), and buttons act on that copy; its cards
are those that pass the type filter (`Filters`), while "Approve all" and "Deny all" answer the
whole copy. A frame is drawn while callbacks posted since the last drain wait.
`waiting` and `verdict` are what Steam holds and was told; Steam may refuse, and may have
acted although its answer is lost. `AnswerSent` is one call of an answer, a chunk of it when it is
for many; `BatchStep` is the batch job posting one account's refresh callback; `Relogin` is `auto_relogin` behind the five-minute limiter, `LinkMafile` and
`ScanFolder` fill in a missing identity secret. `Poll` is the poller's tick with its test of
the batch counters. One account with two confirmations is enough for two jobs
of the account to meet: a fetch and an answer, two answers, an answer and the automatic
approval. `Behind(a)` are the fetch, the maFile being linked and the posted
callback that becomes a fetch: what may hold the flag `refreshing[a]`. For an account
without session and password (`Hopeless`) the flag is cleared under a maFile that is being
linked (`confirmations_screen.cpp:104`), and no fetch of it ever starts: `FlagIsTheLock` says
so, and that otherwise the flag is set exactly when one thing is behind it. The counters are
over accounts; their early returns are modelled. `MCOnline` looks at the confirmations twice: with
a user who starts nothing while callbacks wait, and with one who does but without logins and
batches.

### TradeOffers

Sessions of an account are numbered as they are made; `tok` is the one in the vault,
`newest` the last made, `dead` those that Steam refuses. A task copies the session when it
is submitted, may be refused once, logs in, calls again, and writes its copy back
(`apply_refreshed_tokens`) whether or not it changed. `made[s]` counts the offers Steam
created for a send and `conf[s]` is where its mobile confirmation is; an answer may be
lost after Steam acted. `mixed[a]` records that two tasks of one account overlapped, or that
a bulk accept holds two offers of it (`Twice`), each with a copy of the account of its own.
`Narrow` in `MCOnline` looks either at one account with everything that may happen to it,
or at the two accounts of a bulk send with sessions left alone.

### LoginWizard

`wiz` is the static `LoginWizard`, emptied by "Try again" and "Go to Accounts" while
requests may be out; `works` are those at Steam, `answers` the posted callbacks.
`client` is the sign-in (of which account) a poll asks for. `strayed` is history: the
wizard was emptied while a poll or a code was out. Five requests are enough for a sign-in
with a code entered wrongly and an overlapping second attempt.

### Launch

`gen` is `launch_gen::g_current`; a launch's generation names its driver or reapply
(`worker[g]`), its watcher (`watch[g]`) and its Steam. `ui` is the launch the UI thread is
in: it shuts Steam down, writes, spawns. `pending` is `pending_token_launch`, which
`PumpLaunches` takes up. `remembered` are the accounts whose stored credential Steam
would accept, `accepted` those whose token in the vault it would. Steam signs in, exits or
does neither when it likes. A watcher waits until no reapply is in flight and then reads the
token back, or gives up after 300 polls and reads anyway ("overdue"). Three generations allow a
launch, a second that overtakes it, and an automatic relaunch. A vault locked or an account removed
meanwhile is left out: the callbacks find no account and return.

### Cleaner

A run scans, plans from a copy of the settings, closes Steam, and executes a plan of
steps of which each may fail; `ExecuteOne` on a VDF file reads it and `SaveVdf` writes it
back. Launches write the same files in their own steps, Steam and the user (`ToggleKeep`)
when they like. The 32 targets are six: what no account is signed in by, `loginusers.vdf`,
the ConnectCache, `AutoLoginUser`, caches in userdata, userdata.

### GcClient, Cs2Screen, GcSweep

A client is its account, its owner, a stop flag, the stage of its sign-in and a queue of
commands; `Thread(c)` is one step of it. What it learns it posts, and `posts` is the part of
the completed-jobs queue that concerns these owners. `Retire` only sets the flag; callbacks
already posted, and the last ones of the thread, still come. `Cs2Screen` has every button of
the screen and every callback, `IsFor` is the screen's `valid()` and `Found` is `find_account`.
An account may be removed while its client runs on; a lock (or privacy mode, switched on in the
settings) joins the client's thread while the UI thread waits (`CloseScreen`, `ScreenClosed`), then
empties the vault, and callbacks run while it is locked. `missed` is history: a claim's callback
found no account. `GcSweep` has the two
sweeps with their ticks; a time-out may strike at any tick, and locks and removals are left
out. Bounds: two clients, `MaxPosts`, presses and sweeps started; `MCSteam` looks at locks and
removals with one client and one claim.

## 4. The runs

Figures are for two workers.

| Run | Instance | Distinct states | Time | Shows |
|---|---|---|---|---|
| `VaultSession.cfg` / `MCVaultSession` | 2 vaults, 2 edits | 9,100 | 2 s | passes |
| `AppThreads.cfg` / `MCAppThreads` | 2 workers, a staggered task with two results, a plain one | 93,302 | 40 s | passes |
| `RefreshAll.cfg` / `MCRefreshAll` | 2 accounts with a web session, 2 NFA | 760,575 | 95 s | passes |
| `Disk.cfg` / `MCDisk` | 3 vault ids; 2 vaults with 5 settings; 3 account ids, 4 handlers; 2 accounts, 3 requests; 3 folders, 3 edits | 1,905,487 | 150 s | passes |
| `Online.cfg` / `MCOnline` | 1 account, 2 confirmations; 2 traders, 2 offers, 2 sends; 2 users, 5 requests | 3,001,849 | 146 s | passes |
| `Steam.cfg` / `MCSteam` | 2 accounts; 3 launches; 1 clean; 2 clients | 3,970,684 | 200 s | passes |
| `VaultSwitch.cfg` / `MCVaultSession` | 2 vaults, 1 edit, `PickAgain` | stops | | `OwnVaultOnly` violated |
| `SettingsLeak.cfg` / `MCDisk` | 2 vaults | stops | | `SettingsStayHome` violated |
| `MoveThenEdit.cfg` / `MCDataFolder` | 2 edits, `RestartAtOnce` FALSE | stops | | `RemovedIsKept` violated |
| `SecretsLost.cfg` / `MCDisk` | 2 accounts, nobody locks, no crash | stops | | `SecretsPersist` violated |
| `Preview.cfg` / `MCDisk` | 3 account ids, 6 handlers | stops | | `PreviewIsExact` violated |
| `RefreshStuck.cfg` / `MCRefreshAll` | 2 accounts with a web session | stops | | `NoStaleDenominator` violated |

Symmetry is used in the composites only, which check no liveness: vault ids and Steam
Guard accounts in `MCDisk`, task slots in `MCOnline`, accounts and storage units in `MCSteam`; none
of the definitions orders or chooses among them in a way that matters. Deadlock is
checked in `VaultSession.cfg`, `AppThreads.cfg` and `RefreshAll.cfg`; where the
program ends, the model says so with an explicit stuttering step (`Gone`, `Left`). The
composites have `CHECK_DEADLOCK FALSE`: a part stops when its bound on requests, presses,
or handlers is reached and nothing is outstanding.

**VaultSession.** `OnScreenIsSaved`: what is on screen and not marked dirty is in the
file or in the newest stage on its way there, unless a write failed since the vault was
opened. `FlushIsDurable`: when flush returns, the file holds what is on screen, on the
same condition. `ForwardOnly`: a file moves only to contents that include what it had.
`SaverServes`: a flush returns, and a pending save is taken unless new ones keep
pushing its deadline back; `ExitEnds`: closing the window ends the process. `SessionInv` is
the inductive invariant; among its conjuncts are the types, `OwnVaultOnly` and `NeverBlank`:
nobody else's contents, and never the emptied vault of a locked process, get into a
file. `StoreSpec`: the session implements `VaultStore`. Two vaults let a save go to the
wrong file; two edits let one snapshot be pending while an older one is being
written, and let the file be behind after a failure.

**AppThreads.** `ThreadsInv`: with a task in the queue and no notification on its way, some
worker is awake or inside a task, also when the notification went to a sleeping task instead
of an idle worker. `TaskRuns`: submitted tasks run, also after the window closed.
`ResultsInOrder`: results of one task are applied once and in order across drains: of those
on their way, the first follows the last one applied and each follows one before it.
`PollerStopsAtOnce`: `conf_poller::stop` never waits for the interval. `WorkersStop`:
`stop_workers` returns, unless a worker was between test and wait at the notification.
`PoolSpec`: implements `TaskPool`, with `AppState` gone only after the last task.

**RefreshAll.** `BatchInv`: never complete and still counting; and with no account dropped,
everything the denominator counts is still on its way. `EndsUnlessDropped`: then the
refresh ends. `StartupIsComplete`: the headless run does not leave before its accounts
are fetched. With two accounts of each kind one can end while the other is dropped, in
either phase and across the two.

**Disk.** `FilesInv`: no vault file with accounts in it goes away unless its deletion was
asked for. `OpenVaultStays`: the open vault stays on disk and in the list. `NothingHidden`:
every such vault is offered by the next start, unless a crash or a failed write fell into
the change itself. `SettingsInv`: what was pushed and registered elsewhere is what is in
memory; what a control saves at once is in the open vault's file from then on, unless the last
write of that file failed. `MergeInv`:
every account's group is one the vault has. `IdsStay`: no import, edit or merge moves or
takes an id away. `SecretsKept`: the secrets Steam counts on are in memory and on disk
from the callback that brought them, unless the request went astray; `SdaInv`: an
authenticator called enrolled is the one Steam asks for. `RemovedIsKept`: a start removes a
folder only if all of it is elsewhere; `FolderInv` is the inductive invariant of
`DataFolder`, with the two facts that no saved edit is missing from every folder and
that what a run saved is in the folder the next one uses.

**Online.** `AnswersAreAudited`: what Steam was told of a confirmation is what the audit
log says was asked, through retries, logins and chunks. `NothingDropsUnanswered`: a
confirmation leaves a list only when it was answered, the hidden ones that a press on all takes
along included. `ConfInv`: the refreshing flag is
the lock of a list, and logins of an account are five minutes apart. `EverySendAccounted`:
every offer built is made at most once and ends in one true entry of the history.
`TradeInv`: the flags that grey out buttons are exactly the tasks under way.
`TokensSettle`: when nothing of an account is outstanding and no two copies of it were out at
once, the vault holds its last session. `WizardInv`: an account holds its own tokens;
`WaitingIsPolled`: a wizard that says it waits has a poll out.

**Steam.** `LaunchInv`: between two presses or sign-ins an account is relaunched by itself at
most once. `ReadBackAfterReapply`: a watcher that saw the reapplies end reads the token back only
after the restart of its first login. `CleanerInv`: accounts to be spared have what they had, whatever failed or was
written beside the run, and if nothing was, every other account is signed out.
`Cs2Inv`: contents shown, and moves out of a unit, belong to the open unit of the account.
`ClaimIsRemembered`: a claim that Steam confirmed is in the vault or on its way, whatever is on
screen, unless the account was removed or the callback ran while the vault was locked; and no
account is marked whose drop is not claimed.
`SweepInv`: a profile is kept for its own account, and no client is left connected.

### Fairness

*VaultSession*: the saver thread runs, time passes, a write ends one way or the other,
and the UI thread goes on when what it waits for has happened. *AppThreads*: each
thread runs; strong fairness of a worker's steps, since a thread that asks for a mutex again
and again gets it; strong fairness of the end of a sleep, since the deadline is
absolute and spurious wake-ups do not move it; requests end because they have
timeouts and `http::cancel_all` cuts them short. *RefreshAll*: outstanding requests,
callbacks and logins end. Nothing ever obliges the user, and no crash or drive is
ever obliged to happen. The composites have no liveness property and no fairness.

## 5. What is proved

Each module of proofs states the inductive invariant of its component, one lemma per
action (or group of actions) that it is preserved, and the theorems. The invariants
were checked with TLC on the instances of section 4 first. "For any" below means for
every value of the constants that the named assumptions of the module allow, the bounds
on requests, presses and generations included.

**`VaultSessionProofs`**, for any sets of vaults and edits, assuming
`SettledUnlock /\ ~PickAgain`: `SessionInvariant`, `TypeCorrect`, `BlankIsNeverSaved`,
`FilesKeepTheirOwner`, `NoSilentLoss`, `FlushMakesDurable`, `FilesMoveForward`,
`StoreRefined`.
`OnScreenIsSaved` is not inductive: that the newest stage equals the screen does not
say what is in the stages behind it, and `Install` or a failure makes one of those the
newest. `SessionInv` orders all of them. `ProcessOK` ties thread states to data
(busy exactly when a snapshot is being written, nothing dirty while the UI thread waits);
`OneVault` says that path, screen, pending and written snapshot name the active
vault; `Growing` that file, snapshot being written, pending snapshot and screen include
each other in this order; `NothingForgotten` that the stage in use that is nearest the
screen equals it. Each action moves contents one stage down that chain or adds at its top.
`StoreRefined` maps a file to the store's durable contents, the newest stage of a vault to
what was accepted of it, and an unlocked vault to the store's view. Handing a snapshot to the
saver is the store's acceptance, a write that ends is its persistence, a crash its loss of
what was accepted only; taking a snapshot and waiting for a flush are stutters. One more
invariant is needed, `HasFile`: a snapshot is only ever made of a vault that has a file.

**`DiskProofs`** has the theorems of four components. Of `DataFolder`, for any folders and edits, assuming
`RestartAtOnce /\ ChecksTarget`: `FolderInvariant`, `EditsSurvive`, `AccountsStay`,
`RemovedIsElsewhere`. `NothingLost` (no saved edit is missing from every folder) alone is
not inductive, because the removal of a folder depends on what was copied before the
last crash. `FolderInv` adds `RemovalOK` (what is recorded for removal is found beside it,
and is not in use except on the way to a restart), `UseOK` (what is in use is in memory,
and during a move all of it is in the target, with no save pending) and `PlaceOK` (unless
the run fell back to the default, what was saved is in the folder that the registry names,
at every step of a move). `RemovalOK` survives an overwriting move because its target held
nothing that is not also in the folder in use.

Of `VaultFiles`, for any vault ids, assuming only that the root of the data folder and
"no vault" are not among them (`PlacesAssumption`): `VaultFilesAlways`, `FilesSafe`,
`OpenVaultSafe`, `NothingHiddenSafe`. `VaultFilesInd` joins the three properties with what a
half-done change is: only a process saves, and a torn registry is one being written or one a
crash left (`SavesInProcess`); what the unlock screen can open is in the list
(`UnlockIsListed`); once loaded, and whenever it is about to be saved, the list in memory names
every vault with accounts (`ListIsComplete`). Without the last one a save could hide a vault.

Of `Settings`, for any vaults and any keys of each kind, assuming that the kinds do not overlap
where the code keeps them apart (`KeysAssumption`): `SettingsAlways`, `SettingsSafe`.
`SettingsInd` adds to the two properties only that an open vault was chosen by a running process
(`OpenIsChosen`); the work is in the actions: reading a file gives every setting a value,
each control pushes what it changes and saves what must be saved at once, or its write fails
and the model notes it (`failed`), and an import that
ends late changes memory and file alike (that it may save one vault's settings as
another's is another matter, see `SettingsLeak` in section 6).

Of `AccountMerge`, for any Steam IDs, logins and groups of the user, and vaults and bundles of
any length, assuming that the logins are finitely many and that the vaults and foreign bundles
to start from are what this program writes, well-typed and with their references resolved
(`MergeAssumption`): `MergeSafe`, `IdsSafe`. `MergeInv` is inductive by itself, and one lemma per
handler gives it and `IdsStay` together. The work is in the operators, which fold
over sequences of any length: what `subset_vault` copies (`PickedFacts`), what importing the
selected candidates one after another does, of which each may find the account of an earlier
one, and what a merge does to the accounts (`MergeFold`). The induction runs over positions, as
an argument about the least position at which the claim fails; that the library's fold is
defined at all (it is a CHOOSE of a recursive function) is shown first, by building the
solution one position at a time (`FoldSolved`).

**`AppThreadsProofs`**, for any number of workers (at least one), any tasks and any numbers of
results (`StepsAssumption`, `ThreadsAssumption`): `ControlAlways`, `NoLostWakeup`,
`PollerNeverWaitsOut`, `ResultsArriveInOrder`, `PoolRefined`. `Control` adds to the two
properties what each state of the UI thread says about the flags and threads (`Phases`), and
that a worker between its test and its wait has missed nothing, because it holds the mutex
(`NothingMissed`). The order of results is proved over the results on their way as one
sequence, of which each step appends at the end or takes from the front: each task's results
in it are numbered without a gap from the last one applied (`Numbered`). `PoolRefined` goes
through the steps one by one and needs that a task is in the queue or with a worker once only
(`TasksOnce`).

**`RefreshAllProofs`**, for any finite sets of accounts and any bounds, with the four
operations overlapping as they like (`Kinds`, `Finite`, `Bounds`): `RefreshAlways`,
`CountersSafe`, `StartupSafe`. `RefreshInd` is `BatchInv` with `HeadlessRun`: two
inequalities, `total - done <= Outstanding` as long as nothing was dropped, and in the
headless run, where nothing else can feed the counters, `Outstanding <= total - done`. Every
step changes both sides by the same amount or the right one by more; the lemmas count
what a step adds to or takes from one of the four sets.

**`SteamProofs`** has the theorems of four components. Of the launches, for any accounts and
generations (`LaunchAssumption`): `LaunchAlways`, `NoLaunchLoop`, `ReadBackSafe`. `LaunchInd` says that a generation not handed out yet has left
nothing behind (`Generations`), that a watcher finds no reapply of its launch but a counted one
and, if it did not give up, reads when there is none (`Awaited`), and that an account relaunched by itself is remembered as attempted with
nothing pending for it (`Relaunched`).

Of the cleaner, for any finite set of accounts, any number of runs and of writes beside them
(`CleanAssumption`): `CleanAlways`, `CleanSafe`. `CleanerInv` speaks of the end of a run, so
`CleanInd` has to say what holds in its middle: no step left in the plan takes what a spared
account had when the run began (`PlanSpares`); that is still in the files and, between the two
halves of a step or of a launch's write, in the copy that will be written back (`SparedKept`);
what is there of any other account has a step left that takes it (`RestPlanned`). A run is
either a worker's or that of the launch it holds up (`OneCleaner`), which is why a launch's copy
is still the latest when the plan is made (`LaunchReadsLatest`).

Of the users of the game coordinator client, for any finite sets of accounts, units and items,
and any numbers of clients, callbacks, presses and sweeps (`GcAssumption`): `ScreenAlways`,
`ScreenSafe`, `ClaimsRemembered`, `SweepAlways`, `SweepsSafe`. The thread is treated once
for its three owners: `ThreadFacts` says of all its steps that they leave alone the fields the
owner sets, queue no command, and post only callbacks that are of the client's account and
true when they are posted (`Tells`). What has to be shown is that they are still true of something
when they are run. For the screen, a callback of a unit's content is compared with what is
open by then, and a claimed drop stays claimed (`PostOK`); a marked tile is one of the
open unit's (`ScreenOK`), which neither property says and a move out relies on; a claim that was
heard is in the vault or posted, unless its account is gone or its callback found none
(`NoLostClaim`). For the sweeps, a record under way is at one of
its accounts, a puller has no client while it signs in, and a validation has one only while it
runs (`PullOK`, `ValOK`): without these, starting the next client would forget one that
still runs.

**`ConfirmationsProofs`**, for any finite set of accounts, any confirmations and any number of
jobs (`ConfirmationsAssumption`): `ConfAlways`, `FlagLocks`, `AnswersSafe`, `NothingDropped`.
`ConfInd` is more than the properties. `Locks` splits the lock into its three holders, so that
the hand-over from a callback to a job can be followed; `Asked` carries the audit entries from
the press to the request; `Arrived` says that what Steam no longer holds was answered, which is
why a list that a fetch brings can lack only answered ones (`NothingMissing`, which says the
same of the copy on screen, through the time a fetch or a press takes); `Spaced` ties logins to
the limiter.

**`WizardProofs`** has the theorems of two components. Of the sign-in, for any users and requests (`WizardAssumption`): `WizardAlways`,
`WizardSafe`, `WaitingSafe`. Until an attempt is given up with a worker out, `WizInd` says that
at most one sign-in, one code and one poll are under way and are about the session in the
wizard (`Told`), which of them in which phase (`Stages`), and that the wizard's polling flag
is a poll that is out (`Polled`).

Of the Steam Guard dialogs, for any accounts, any number of authenticators handed out and any
number of requests (`SdaAssumption`): `SdaAlways`, `EnrolledSafe`, `SecretsSafe`. Kept secrets
alone are not inductive: a removal relies on the record being the active authenticator's, a
finalization on the pending one being in the vault. `SdaInd` says of every account none of whose
requests went astray (`Tended`) that its secrets are kept, that the records in memory *and on
disk* are live if enrolled (a crash puts the second in place of the first), and that
what a successful answer says is still so when its callback runs (`Right`); of all accounts it
says that Steam knows an active or a pending authenticator and not both, that the numbers are
fresh, and that the vault has only those the program was sent (`Fresh`), and that only a
successful "add" brings secrets (`Brings`). `Astray` is what makes `Right` last: an account with
a second request, a dialog that left or a locked vault is in it from that step on.

**`TradeOffersProofs`**, for any traders, offers, items, sessions, tasks and sends
(`TradeAssumption`): `TradeAlways`, `TradeSafe`, `SendsAccounted`, `SessionsSettle`. The
invariant has four parts. `TradeTypes` says what a task of each kind has and has left.
`Flagged` replaces the cardinalities of `FlagsMatchTasks` by sets: each task has a mark, no two
tasks have the same, and the flags are the marks there are. `Settling` follows the newest
session of an account while its copies are out one at a time: it is in the copy that the one
task holds (and what this task posted before is no newer), or in the last of the callbacks
about it, or in the vault; a fetch of the sweep that waits holds what the vault has. `Accounted`
says that each send is claimed by one task or by one posted callback or is in the history
once (`Apart`, `Sends`), that what is written or about to be written of it is what Steam knows
(`Truthful`), and how far the task behind it can be (`Progressing`: a call is repeated only
after one that made nothing). A worker's step changes one task and appends what it posts, and a
callback is taken from the front: the parts are proved from these shapes.

Only model-checked: all liveness properties (`SaverServes`, `ExitEnds`, `TaskRuns`,
`WorkersStop`, `EndsUnlessDropped`), since liveness under fairness is out of the prover's
reach. The six claims that section 4 calls violated are false of the code.

## 6. What the models show of the code

- **Another vault after an auto-lock** (`VaultSwitch.cfg`). `VaultSaver::start` keeps the
  first path of the process. After an auto-lock, "Choose a different vault" opens
  another vault in the same process, and its saves go to the first vault's file.
- **Settings of another vault** (`SettingsLeak.cfg`). In the same situation, a vault that has
  no settings file yet starts with the settings in memory, which are the first vault's, and
  saves them as its own. An import of userdata that ends after the lock does the same.
- **Move, then go on working** (`MoveThenEdit.cfg`). After "Copy and apply" the process
  still writes to the old folder, and the next start deletes it with everything saved
  since the copy, a save pending at that moment included.
- **An authenticator's secrets dropped** (`SecretsLost.cfg`). The dialog can be closed while
  Steam is asked for an authenticator. Opened on another account before the answer is
  there, it drops the answer, the only copy of the secrets.
- **A preview that differs from the merge** (`Preview.cfg`). Two accounts of a bundle that
  are the same account are both counted as new; the merge keeps one.
- **A stuck refresh** (`RefreshStuck.cfg`). Accounts that return early are never counted, the
  total stays above zero and later refreshes are refused.

Met while modelling, without a run of their own.

Vaults and data folder:

- With `SettledUnlock` FALSE, `OnScreenIsSaved` and `StoreSpec` fail: a lock and an unlock
  within the debounce interval and the write read a file that is about to be replaced.
  Typing takes longer; the cached unlock from the picker is the quickest way.
- A settings file that cannot be written keeps its old contents without a word to the user:
  `write_json_atomic` (`app_state.cpp`, 243-256) logs the failure and its callers go on.
- With `ChecksTarget` FALSE, `FolderInv` fails: the dialog warns of a `vault.bin` at the
  root of the target, where the present layout has none. For the same reason "Locate an
  existing data folder" accepts no folder that this version has used.
- When a move in a run that fell back to the default folder dies between recording the old
  folder and recording the new one, and the custom drive is back at the next start, the
  folder last in use is removed; its copy is in the target, which nothing names.
- Changes less than 250 ms apart postpone the write for as long as they go on.
- "I want to create a new vault instead" writes over an existing `vault.bin` without asking;
  turning "remember" off removes only the active vault's `master_pw.bin`.

Threads:

- `stop_workers` changes its flag without the mutex. A worker between test and wait sleeps its
  full time, or, if idle, is joined for ever; `WorkersStop` excepts it. `conf_poller::stop`
  does it right.
- Results posted after the last drain (`win_main.cpp`, 774-796) are never applied.

Steam Guard, confirmations, trades, sign-in:

- The callback for an account that is gone has no account test (`sda_wizard_dialogs.cpp:46`)
  and fails whatever dialog is open; the worker keeps an `Account*` across a request
  without a lock (41-58); after a lost answer of RemoveAuthenticator the vault keeps an
  authenticator that no longer exists.
- "Approve all" and "Deny all" answer every confirmation of the account, those included that the
  type filter hides (`confirmations_screen.cpp`, 436-446 and 534-549); the number on the button
  counts them.
- An account in its cooldown, or being fetched already, is not counted in a batch of
  confirmations, whose total then stays above done: the poller skips its ticks until the
  user refreshes by hand.
- `apply_refreshed_tokens` writes a task's tokens back unconditionally
  (`trade_offers_screen.cpp:279`, 401): of two overlapping tasks the older session may come
  last. One bulk accept is enough (`trade_offers_modals.cpp`, 479-515): it copies the account
  once for each of its offers. When the session was refused at the first offer and a login
  replaced it, the copy of the second offer has the old one; it is refused again, a second
  login is too soon, and `apply_refreshed_tokens` (515) puts the dead session back into the
  vault. The number of offers is recounted outside the lock (114). Bulk accept ignores
  `g_in_flight`. The background poll of `README.md:60` and `auto_approve_trade_partners` of
  `README.md:53` have no code behind them.
- A sign-in given up while its poll is out stores its tokens in the account of the attempt
  that followed (`strayed`).

Launch, cleaner, game coordinator:

- The password path does not look at `is_current` between its steps as `launch_gen.hpp`
  asks, the last look before a relaunch is not atomic with it, and the verify watcher never
  looks at all (`app_state_refresh.cpp:1102`). Pressing Launch on another account while a
  token is being minted replaces the pending launch. The reapply of the password path is not
  counted in `in_flight`.
- `wait_out_first_login_reapply` (`app_state_refresh.cpp`, 1026-1035) gives up after 300 polls and
  reads the token back with the reapply still in flight, whose second sign-in may replace it.
- A claim that Steam confirmed is dropped when its callback finds no account
  (`cs2_screen.cpp`, 236-237). A lock waits for the client's thread, whose last callbacks then run
  on the emptied vault, so a claim under way when the vault locks is always forgotten; the
  account's next snapshot marks it again if `auto_mark_claimed` is on.
- Launches that the pump starts are not held back by a clean under way
  (`accounts_screen.cpp`, 678-690; `app_state.hpp`, 216-218).
- A kept account that only userdata knows loses its ConnectCache token (`README.md`,
  100-103); `config.vdf` and `local.vdf` are deleted whole when they do not parse; the
  preview is not rebuilt when the keep list changes (`settings_cleaner.cpp:269`).
- Validation callbacks are not tied to their client (`cs2_autopull.cpp`, 240-280). When
  `start_gc_validate_feed` replaces a sweep, the refusal of the old account's logon can
  arrive under the new account and mark it revoked. The model has this behaviour; profiles
  are compared with the account and cannot go wrong (`SweepInv`).

## 7. Not modelled, and what could come next

Left out: rendering, input, sorting and layout; formats and cryptography (AES-GCM,
PBKDF2, JSON, maFiles, protobuf, VDF text), which are data and not control; framing,
heartbeats and sockets of Steam's CM protocol; the HTTP client, whose requests have
timeouts and are assumed to end; the time aligner, which repeats the poller's pattern;
hardware profiles and the hook library (tables and Windows calls without a protocol);
notifications and ban diffs (a bounded list and a comparison, both on the UI thread); maFile
export and the backup dialogs (they only read the vault). Left out of modelled parts, and said
in their headers: QR sign-in, keys injected into Steam's windows, the start of CS2,
registry and temporary-file targets of the cleaner, `portable.flag`.

Every safety property of the runs that expect none to fail is a theorem.
