# Formal models of the KakaoTalk layout ad blocker

TLA+ modules, model-checking configurations and machine-checked proofs for the Rust
workspace under `rust/crates`. The program hides, empties or closes the advertisement
windows of another process and must be able to bring every one of them back; and it
replaces its own executable. Both can leave the user's machine in a state that only a
restart of KakaoTalk, or a manual repair, gets out of. Around those two parts stand the
decisions what is an advertisement, the clock of the worker, the settings file and the
registry, the tray, and the threads of the process from start to exit; each has its model.

## Inventory

| Component | State it keeps | Operations | Hard part | What makes it correct |
|---|---|---|---|---|
| engine: restore (`engine/{apply,restore,caches,control,tick}.rs`) | snapshots, stale bookkeeping (miss streak, attempts, cooldown), OFF retry | capture, hide, zero-size, close, stale restore, drain (OFF, absent, exit), reset | windows hang, refuse, vanish and are reused between a check and the call; the switch changes at any moment | no window suppressed without its snapshot; OFF and exit bring everything back; no flicker; the failure count tells the truth |
| engine: worker loop (`worker.rs`, `runtime.rs`, `schedule.rs`) | cached process ids, bursts, pending event, hook retry, panic count | scan, install hook, drain events, tick, wait | early and missing wake-ups, failed scans, panics in a tick | stop and OFF are noticed; a known advertisement is looked at in bounded time |
| shared flags (`flags.rs`) | switches, stop, reset request, gauges, error text, worker registration | set, report, notify | read by three threads without a common lock | a reported problem is current |
| evaluation (`kakao-core`) | candidate streaks per identity | decide hide, zero, close, resize | weak signals over several ticks; trees built while they change | strong signal or enough ticks in a row; never the main view |
| application lifecycle (`lib.rs`) | pending update, worker handle | tray commands, watchdog, readiness thread, stop, join, hand-over | three threads and a process end | one restore at exit; alarm only for an unexpected end |
| updater in the app (`updater/`) | update slot, staged files | check, download, verify, stage, launch helper | background thread against exit | at most one update; no staged file left behind |
| update helper (`kakao-updater`) | files beside the executable, watched child | wait, adopt, verify, copy, rename twice, launch, watch, roll back, recover | it may die anywhere; files are in use or change; the user starts the app | a working version is always there; the executable is never half written |
| configuration (`config/`) | two JSON files | load, heal, read-modify-write | editor, self-check and tray at once; power loss | a user's valid edit survives; nothing is healed without a backup |
| start with Windows (`startup*.rs`) | registry value, setting | toggle, adopt, repair | two stores, each may fail | both agree, or the old state is back |
| tray (`kakao-win32/tray`) | icon registration, retry timer | add, retry, commands | Explorer restarts | the icon comes back |
| events and processes (`event_hook.rs`, `process.rs`, `single_instance.rs`) | bounded queue, process handles, mutex | install, callback, drain, watch | overflow, lock contention, reuse of ids | losing events costs time only |
| diagnostics (`dump*.rs`, `self_check.rs`, `observability.rs`) | none | one-shot reports | - | - |

**Interaction.** The tray thread (main) and the worker share `SharedFlags`: the tray stores
`enabled`, `reset_restore` and `stopping` and wakes the worker; the worker reads them at the
head of its loop and again before every call that touches a window, and stores gauges the
tray displays. The worker owns `EngineCaches` alone and talks to KakaoTalk through the
`Win32Api` trait. At exit main joins the worker for three seconds, then starts the helper
with the staged file; the helper waits for main's process, swaps, starts the new version
with a readiness file and watches it. Each hazard the code is exposed to is in
`PROJECT.json` at its line, with the properties that cover it or the module planned for it.

## Modules

| Module | Models |
|---|---|
| `KakaoTalk` | the other process: windows that appear, vanish, hang, refuse, change, and are reused (external, from `kakao-win32/api.rs` and `fake.rs`) |
| `RestoreEngine` | the worker and the tray commands that touch it; EXTENDS `KakaoTalk` |
| `RestoreLedger` | the promise: windows put down are on a ledger with their former look, and an entry closes only when the look is back or the window is gone |
| `UpdateHelper` | the update helper, the app it waits for and launches, the user, deaths and failures |
| `InstalledVersion` | the promise: the installed version changes in one step, to a whole version, and never without a trusted fallback |
| `ConfigStore` | the settings file, the programs and the user that work on it; one action per file operation |
| `StartupRegistry` | the Run value and the approval of "start with Windows", as operators |
| `TraySettings` | start and saved commands of the tray app over both stores, beside `--self-check`; EXTENDS the two |
| `TrayHost` | the tray window, its icon, its message loop and Explorer |
| `AppLifecycle` | the threads of the process from start to exit, with the update thread; EXTENDS `TrayHost` |
| `EventHook` | KakaoTalk's processes, window events on their way to the worker, liveness of processes |
| `WorkerLoop` | when the worker looks at what: scans, hook, intervals, waits, wake-ups, panics; EXTENDS `EventHook` |
| `WindowTree` | the window tree and what each rule says of a window of it |
| `AdEvaluate` | streaks, plan and preview over rounds; EXTENDS `WindowTree` |
| `MC*` | instances for TLC |
| `RestoreEngineSafety`, `UpdateHelperSafety`, `TraySettingsSafety`, `TraySettingsToggles`, `AppLifecycleSafety`, `WorkerLoopSafety`, `AdEvaluateSafety` | proofs |
| `Induction` | induction over the naturals, for the proofs about recursive functions |

The worker appears three times, each time with what one question needs: `RestoreEngine` has
every Win32 call of a round and no clock, `WorkerLoop` has the clock and takes a round as one
step, `AdEvaluate` has the decision of a round and takes its execution as one step. The
interfaces are named: a round of `WorkerLoop` (`Reconcile`) is a `Tick` of `RestoreEngine`,
whose set `ad` stands for the plan that `AdEvaluate` computes; `AppLifecycle` sees of the
worker that it starts, gets ready, ends with or without windows held, or dies.

### RestoreEngine

`pc` is the place in `run_worker`: `top`, `scan`, `off`, `absent`, `wait`, then the tick
(`build`), the passes of `apply_evaluation` (`capture`, `hide`, `zero`, `close`),
`restore_stale_hidden` (`stale`), and the drains (`drain`). A check and the Win32 call it
guards are two steps (`HideCheck`, `HideCall`; `StaleCheck`, `StaleCall`; ...), so KakaoTalk
and the tray act in between. `snaps`, `wasVisible` and `hadSize` are the snapshot map and
its fields; `pend` is the list a drain took out of the map; `cur` is the snapshot in the
hands of a call. `miss`, `attempts`, `cooldown` are `StaleState`. The history variables
`hid`, `flat`, `settled`, `uncaptured`, `late`, `unmatched` record what the worker did to
the windows and guard nothing.

Abstracted: time (a wait ends early or by its timeout, a delay has elapsed or has not; an
interval is due or is not), the class name in an identity, rectangles (empty or not), the
evaluation (`ad` holds what it would confirm), counters and log text. Left out: the dry-run
flag, main-view resizes (never restored, by design), panics inside a tick, scan failures
beyond "the known ids are kept". A handle is not reused while a call that was checked for it
is in progress: the code cannot notice that, and every property would be about it.

### UpdateHelper

One action per file operation or process event of `update_executable_with`,
`PreparedInstall`, `launch_verified`, `restore_previous_version` and `main`. A file holds a
version, an unfinished copy (`Partial`), changed bytes (`Altered`) or nothing. `Fault`
lets an operation fail, `Crash` ends the helper between any two, `DownloadChanges` tampers
with the staged file, `UserStartsApp` and `AppEnds` come at any time. `proven` is history:
versions that got ready on this machine.

Assumed: one helper at a time; a rename is atomic; Windows refuses to replace the image of
a running program; the second instance of the app ends at once (`InstanceMutex`); a
temporary file left by a death is not looked at again; a version that cannot get ready
(`Broken`) does not get as far as offering an update itself; a digest identifies a version.
Every helper the app starts has a digest, because the manifest must have one, so the 60 s
readiness wait always applies.

### ConfigStore, StartupRegistry, TraySettings

A transaction of `ConfigStore` runs from `Enter` to `done` under the named mutex, through the
operations of `config/storage.rs` in their order: create and fill, or read, back up, heal,
and for `update_settings` write. Any of them may fail (`Fault`), a program may die between
any two (`Abandon`: Windows gives the mutex back). The user saves at any moment, without
the mutex (`UserSaves`). `kept` and `precious` are history: what the user saved while no
transaction was under way. `TraySettings` puts the transactions into the start of the app
(`Start` to `Approve`) and into the menu commands; `trip` is history about the command under
way. Damaged files are numbered so that a backup can be told from its original.

The rules file goes through the same functions and is only loaded, so it is not a second
variable. A value saved while a program is between its read and its write is lost, because an
editor takes no lock: the histories leave those saves out. A Run value that cannot be read
looks like none (`get_run_command` returns an Option): `RunRead` has the case, and the
properties that compare with the registry count it as a failure; so it is with an approval that
cannot be read, which passes for enabled. A Run value is one of six commands, as far as
`registration_health_with` and `adopt_registry_startup_state` tell them apart (`Command`); whether a
command counts as this program's is decided by its file name alone, so the user's own arguments on
our path (`tuned`) are stale, and a blank value is another program's but not registered.

`SyncedAfterStart` asks of a blank value only that a start leaves it and does not turn the setting on:
with the setting on the menu says so and nothing starts the app. `ToggleAllOrNothing` compares the
command and the saved setting, not the approval: a rollback writes the old command with the approval
enabled, whatever it was (`set_run_command`). `MenuMatchesFile` leaves out what the user wrote
since the start read the file; of the editor `UserValueSurvives` speaks.

### TrayHost, AppLifecycle

`TrayHost` is `run_loop_inner` with its window procedure. `posted` is the window's queue,
`pending` the list `TrayHost.pending`, `running` what was drained from it; while a command has
a dialog open (`modal`) messages go on being handled inside it, which is how the window can
be destroyed before a command is over. `AppLifecycle` adds the threads: main (`at`), worker,
watchdog, readiness thread (`ack`), update thread (`update`, `busy`, `slot`, `temp`) and exit
timer (`bell`). Waits with a limit may end at any time, so every race with a limit is in the
model. A tray that cannot be created is a step (`CreateWindow` to `failed`). Helper copies
that were cut short in the middle, or that Windows keeps from being deleted, are not
counted. `helpless` remembers that the retry timer could not be set once; `IconComesBack` says nothing
from then on (the code writes it into the tooltip, which nobody sees without an icon).

### EventHook, WorkerLoop

Time passes in whole units and only while the worker waits (`TimePasses`); the intervals are
constants. `inbox` is the thread's message queue, which hook_proc empties into `channel` when
the worker pumps messages; both are sets of kinds of events, and when the channel is full any
part of what comes is lost. `Awake` says what ends a wait: without a hook the unpark token,
with one a message. `unseen`, `told` and `unknown` are ages of what the worker has not looked
at yet; they are history. A failed scan, a failed install and a panic take from the same
bound as KakaoTalk's steps. A round that panics has looked at nothing, and the event it was due for
is forgotten (`worker.rs:289`): the change it told of counts from then on as one nobody tells of.
`full` is the age of `last_full`, which at the start and at a change of a switch is `Rewind` (ten
seconds, `worker.rs:158,176`); when an interval is longer than that the next round is not due, and
is put off if the last one was longer ago. `misses` is history as well: how often a panic or such a
change of a switch put off the look a waiting change was due. `ScanInterval` has one step of the
back-off where the code has two, the larger one.

### WindowTree, AdEvaluate

A round reads the tree in one step and stores in the `CandidateState` of each window what the
branches of `apply_once` offer it, one after the other (`Outcome`); `PreviewOutcome` does the same
with the branches of `inspect_candidates`. That a window is visited by itself, and not with the
others of its branch, changes nothing: a store touches one window. The shape of a tree and the classes are constants, since
a window cannot change its class; existence, text, place and visibility change. A text is one
of seven kinds and a place one of five, as far as the rules tell them apart. `Applied` is the
outcome of a plan that `apply_evaluation` carries out, as one step: windows obey, refuse to close, or refuse to be hidden. `seen` is history:
examinations in a row that matched, counted from the offers and not from the states.

## Runs

| Run | Instance | Shows |
|---|---|---|
| `engine_tree` | popup and banner inside it, 2 KakaoTalk steps, 1 tray command and stop | types, nothing orphaned, at most one late call, no flicker, order of the final drain, the failure count, refinement of `RestoreLedger` |
| `engine_reuse` | one handle, two processes, 3 steps, 1 command and stop, fairness | the same promise under reuse; the OFF count; OFF restores, a vanished advertisement comes back, stop finishes |
| `engine_gauge`, `engine_blind`, `engine_capture` | small | three statements of the repository that the code does not keep, see below |
| `helper_swap` | 4 versions (one broken), 3 runs, 2 failures, 2 deaths, fairness | a working version is always there, the executable is never half written, refinement of `InstalledVersion`, every run ends |
| `helper_said` | 1 run, 1 failure | what the user is told after a failed rollback |
| `settings_file` | 1 edit or tweak, 2 failures, 2 starts of the app, 1 of `--self-check` | types, the user's values and damaged files survive, the menu agrees with the file, toggles are all or nothing, a start brings menu and registry in step |
| `settings_tuned` | as `settings_file` | a customised command that is not left alone, see below |
| `app_exit` | 2 update checks, 1 trouble of Explorer, fairness | types, no staged file left, an honest exit code, the alarm, the end of every exit, the return of the icon |
| `worker_pace` | 2 process ids, 3 changes or failures, fairness | types, no sleep through a command, the times within which a change and a new KakaoTalk are seen, the return of the hook |
| `evaluate_tree` | 10 windows, 2 changes or switches | types, exactly confirmed evidence acts, hidden stays matched, main windows untouched, the preview agrees |

**Bounds.** `KakaoMoves`, `TrayMoves`, `Runs`, `Faults` and `Crashes` bound how often the
environment acts; recovery of a window and the worker itself are not bounded, so retry
cycles of any length are covered. Thresholds and attempts are at 2: the long pause, the
threshold and both sides of each comparison are reached. Two windows are the least with
parent and child order, two process ids the least with reuse. Three helper runs are the
least in which an interrupted update is followed by a further update and a recovery.
Deadlock is checked in the engine runs and in `evaluate_tree`; the others switch the check off:
the machine may stop when nothing is installed and all runs are used, when the process is over,
when the worker has ended, or when no start is left.

In `settings_file` two failures are the least with a rollback that fails itself, two starts
the least with a toggle that was cut off and the start that repairs it. In `app_exit` two checks are the
least with one that meets another, and one trouble kills Explorer or refuses an icon; the retry
after it is not bounded. In `worker_pace` three changes are the least in which KakaoTalk ends,
starts again and an install fails, and a round panics after a change and before another; the intervals
are small numbers in the order and with the gaps of the real ones, so each comparison has both sides;
`Rewind` is below the longest, as it is with an idle interval above ten seconds, so a switch can put a
look off. In `evaluate_tree` there is a window of each kind,
both kinds of legacy evidence, and a tick count of 2, the default; rounds are not bounded.

**Fairness.** The worker is weakly fair: its thread runs until it waits or a window blocks
it. The end of a wait by its timeout is strongly fair, because deadlines are absolute
instants in the code and early wake-ups do not move them. Scans that find the processes and
make a round due are strongly fair: the intervals are bounded (`schedule.rs`). Nothing is
assumed of KakaoTalk or the user; the properties have the user's and KakaoTalk's part
in their premises. The helper is weakly fair: each wait in it has a deadline. In `app_exit` the
main thread and the watchdog are weakly fair (every wait of theirs ends by itself, except that a
dialog is left open for ever if the user likes) and Explorer comes back; the worker, the
downloads, the user and the dialogs need not go on. In `worker_pace` the worker goes on and time
passes while it waits; nothing is assumed of the tray or KakaoTalk.

**Met and not called a disagreement**, because nothing in the repository says otherwise:
the exit timer gives up after five seconds although the tray may wait longer for the shell, and then
the worker is stopped and the tray stays (`lib.rs:233`); the readiness thread gives up after five
seconds, so that a new version that is slower than that is rolled back (`lib.rs:417`); a normal stop between the two reads of the
watchdog raises the alarm (`lib.rs:199`); an update stored after main has looked at the slot leaves its files
behind (`lib.rs:371`, the exception `late`); the text of a panic that was survived stays
(`worker.rs:81`); a main window whose own tree holds the legacy text is hidden (`inspect.rs:97`);
a text that cannot be read counts as empty when an EVA child is closed (`inspect.rs:232`).

**Disagreements met.** `engine_gauge`: the failure count stays up when the window it counts
was closed (`flags.rs:22`). `engine_blind`: a banner captured while KakaoTalk had it hidden
stays hidden after OFF (`docs/SOAK_TEST.md:35`). `engine_capture`: the hide pass can hide
what the capture pass skipped (`apply.rs:84`). `helper_said`: after a failed rollback the
new version is started and called the previous one (`main.rs:146`). `settings_tuned`: a start
replaces a command that runs this program with the user's own arguments, although the repair is said to
preserve a user-customised command (`startup_repair.rs:19`).

## Proofs

TLAPS proves, for every value of the constants, under the named assumptions of the modules
(finite windows and process ids, positive thresholds, at least one version):

* `TypesCorrect`: `Spec => []TypeOK` of `RestoreEngine`. TypeOK is not inductive; the
  conjunct `PassOK` adds which of `todo`, `pend`, `cur`, `ctx` is in use at which `pc`.
* `Safety`, and from it `NothingOrphanedAlways`, `SuppressionEnds`, `HealthyWindowsFirst`,
  `GaugeNeverHides`, `OffCountIsTrue`, `NoFlickerEver`. The inductive invariant `Safe` adds
  to the types: a suppressed window's identity is recorded, and the call in progress has its
  snapshot unless the window is uncaptured; what `late` can be given `pc` and the flags; that
  the members of `pend` ahead of a window that failed are all done; that attempts of windows
  out of the map are not counted twice by the gauge; what an OFF pass may assume; and that
  the miss streak is never ahead of the evaluations that did not match. Each part is needed
  because the property alone says nothing about the steps between two rounds.
* `EngineKeepsLedger`: `RestoreEngine` implements `RestoreLedger`. The invariant is `Safe` and
  `Apart`: the snapshots a drain has taken out are not in the map, and the handle of a window
  being restored belongs to it or to nobody. Without it a step in the middle of a drain could
  close two entries at once, or an entry of a window whose handle now belongs to another.
* `HelperTypes`, `SomethingGoodAlways`, `InstalledWhole`: the invariant `Inv` of
  `UpdateHelperSafety` says what each step of the helper may assume of the files: up to the
  swap what is installed works, at the swap the backup is the same version, the copy to be
  installed matches its digest, and a rollback installs a copy of the backup.
* `HelperKeepsPromise`: `UpdateHelper` implements `InstalledVersion`. Only ten actions say
  anything about the installed file, the backup or what is known to work
  (`OthersKeepFiles`); each is a step of the promise.
* `SettingsTypes`, `UserValueKept`, `BrokenKept`: the inductive invariant `Inv` of
  `TraySettingsSafety` adds to the types of file, transactions and app which program is inside
  which transaction (`Inside`), and `Promises`: a program between reading and writing has read what
  the user last saved, or the user's value is no longer promised; a damaged file that is
  promised is in the file or backed up before the step that replaces it. Without it the
  properties say nothing about the moment between reading and writing.
* `LifecycleTypes`, `StagedFilesOwned`, `ExitCodeIsHonest`: the inductive invariant `Inv` of
  `AppLifecycleSafety` adds which thread owns the staged files at each moment (`Owned`: update
  thread, slot, main thread, helper), that a tray which never reached its loop has run no
  command (`Early`), and what the joined result says of the worker (`Honest`). The properties
  speak of the end only; `Owned` carries them through every order of exit and download.
* `NoNewsIsSleptThrough`: the invariant `Kept` of `WorkerLoopSafety` says that the
  notifications of a command given after the worker read the flags are all still pending when
  it goes to sleep. Whatever the worker took before it read the flags is not needed after.
* `WorkerTypes`, `ChangesAreSeenInTime`, `KakaoTalkIsFoundInTime`, for any intervals. The types
  need which counters may be set at which place of the loop (`Typed`: `Flags`, `Numbers`, `Hooks`).
  The bounds say something of ages, but a step that looks at nothing makes every age grow; what
  stops it is the wait. So the invariants bound the sum: at each place of the loop the age of what
  was not looked at and the rest of the wait together (`Seeing` for changes nobody tells of,
  `Telling` for events, `Finding` for a KakaoTalk that no scan has met), with one clause for each way
  a wait ends early. Nothing is assumed of the order of the intervals, which a user may set as
  they like: a burst interval longer than the idle one counts in the bounds. Only a burst interval is taken
to be at most `Rewind` (`Burst <= Rewind`; the code clamps it to one second), so that a switch never
puts off a round an event is waiting for. The bound of `SeenInTime` is not one interval whatever happens:
`Delay` adds one interval or pause for every round that panicked and every switch change that set the
last look back while the change waited (`misses`).
* `QuietSettles`: the interval of `reconcile_interval` is the same for every quiet of `QuietCap`
  or more, so the model stops counting there. It rests on what powers of two are (`DoubledIs`,
  `DoubledGrows`).
* `MenuIsTrue`, `TogglesWhole`, `StartsInStep`: the invariants are `Jobs` (which transaction
  belongs to which step of the app), `Reading` (until the user saves, the file goes on saying what the
  app has read from it: `--self-check` may create or heal a file only while it says no more than the
  defaults), and `Toggling` and `Starting`, which say for each step what the failures counted in
  `trip` may have left undone. The menu is compared from the moment a start sets out to read the file:
  what the user saves between that and the reading is in the file and may not be in the menu.
* `EvaluateTypes`, `StreaksAreExact`, `PreviewIsTrue`, `MainIsSpared`, `HidingIsStable`, for any tree.
  The argument is about trees first: a window has one root above it (`OneRoot`), so it is an
  advertisement of one host at most and then no child of a main window. From that, what a round does
  to a window is nothing, one store, or two of which the second does not match (`BranchesAre`);
  which of the two passes did it changes what is stored but not what is confirmed (`PassesAgree`).
  `StreaksAreExact` needs the invariant `Counted`: the streak of the states is the number of
  matching examinations, which the history counts without looking at the states. `HidingIsStable`
  needs `Held`: every window a plan hides shows lasting evidence, before and after the
  plan is applied. It holds only because no web view is resized (`ViewsAssumption`): the code resizes
  any child with the title of a view, and a web view that is an advertisement by its place at
  the bottom alone would be shown again after that.

* `HelperNeverGoesBack`, `StopIsWorkedOff`, `ExitIsWorkedOff`: what `HelperEnds`, `StopFinishes` and
  `ExitHappens` rest on besides fairness. Each defines how much is left (`Remaining`: the steps of the
  helper; `Stage` and `Closer`: the stages of a tick, retry or drain, the windows on its list and the call
  in progress; `ToGo`: the steps of the main thread and the dialog that WM_QUIT closes) and shows that
  every step of the thread makes it less and that nobody else makes it more. A helper's death and the
  end of a join that ran out of time end it at once.

The library's induction theorems take an operator as a parameter and cannot be used. `Induction`
proves instead, from the least element of a well-founded relation, that a set with 0 and with each
number the next has all naturals; the recursive functions `Doubled` and `Ancestor` are unfolded with
tables of their first values (`TablesExist`, `TablesAgree`).

Only model-checked: the liveness properties (fairness and ENABLED are out of the prover's
reach). Every invariant and every other action property of a run that passes, and both
refinements, are proved. The violated statements are shown by counterexample.

## Not modelled, and why

* HTTP, signatures, manifest and version parsing (`updater/{http,manifest,canonical,version}.rs`):
  I/O and cryptography. What follows from their answers is in `AppLifecycle` and `UpdateHelper`.
* `fake.rs`, the test double of the Win32 API, in whose place `KakaoTalk` and `WindowTree` stand here.
* The log and its rotation, tracing, dumps and reports of `--self-check`: nothing in the program reads them.
* Menu, tooltip and message texts; the counters they show; `last_error` as far as the tray sets it.
* Parsing of rules and settings beyond "usable or not"; the cleaning up of old backups.
* A panic in the middle of a restore (`worker.rs:66`): the loop survives it, the snapshot in hand does not.
  Nothing there is known to panic, and a step that panics anywhere would only restate the loss.
* Everything outside `rust/crates`.

## Plan for what may follow

1. The same for the properties whose way to the end goes around in circles, `OffRestores`,
   `VanishedAdRestored`, `HookReturns` and `IconComesBack`: that each round either gets somewhere or
   leaves a retry armed.
2. One composition of `WorkerLoop` and `RestoreEngine`, in which a round takes the time its
   blocked calls take.
