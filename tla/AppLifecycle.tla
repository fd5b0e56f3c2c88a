--------------------------- MODULE AppLifecycle ---------------------------
(***************************************************************************)
(* run_with_args of kakao-app as a set of threads: the main thread, which  *)
(* is the tray thread (TrayHost), stops the worker at the end, waits for   *)
(* it, and hands a staged update over to the helper; the engine worker,    *)
(* seen from outside; the watchdog; the thread that acknowledges to the    *)
(* helper that started the app; the thread of an update check; and the     *)
(* timer of --exit-after-startup-ms.  All of them end with the process.    *)
(***************************************************************************)
EXTENDS TrayHost

CONSTANTS
    Checks          \* bound: how often the user asks for an update

ASSUME LifecycleBounds == Checks \in Nat

VARIABLES
    at,         \* where the main thread is
    code,       \* the exit code, "none" before
    stopping,   \* SharedFlags.stopping
    worker,     \* what the worker does
    held,       \* it ended with windows it could not restore
    ready,      \* SharedFlags.worker_ready
    joined,     \* what join_with_timeout returned
    dog,        \* the watchdog; "told" when it told the user that the engine is dead
    ack,        \* the readiness thread, "written" when the helper has its answer
    update,     \* the update thread
    busy,       \* UPDATE_IN_PROGRESS
    slot,       \* pending_update
    temp,       \* staged files in the temporary folder
    launched,   \* the helper was started
    bell,       \* the exit timer
    checks,
    late        \* history: the update was stored after the main thread looked

mainVars   == <<at, code, joined, launched>>
workerVars == <<worker, held, ready>>
updateVars == <<update, busy, slot, temp, late, checks>>
vars == <<trayVars, mainVars, stopping, workerVars, dog, ack, updateVars, bell>>

exited == worker \in {"ended", "dead"}      \* SharedFlags.worker_exited
Running == at # "over"
Staged  == {"helper", "replacement"}

Init ==
    /\ TrayInit
    /\ at = "start" /\ code = "none" /\ joined = "none" /\ launched = FALSE
    /\ stopping = FALSE /\ worker = "none" /\ held = FALSE /\ ready = FALSE
    /\ dog = "none"
    /\ \/ ack = "off" /\ bell = "off"       \* started by the user,
       \/ ack = "asked" /\ bell = "off"     \* by the update helper,
       \/ ack = "off" /\ bell = "set"       \* or with --exit-after-startup-ms
    /\ update = "none" /\ busy = FALSE /\ slot = FALSE /\ temp = {}
    /\ late = FALSE /\ checks = 0

\* The type invariant.  With the update gate: it is closed exactly while a
\* check is under way or an update waits for the helper.
TypeOK ==
    /\ TrayTypeOK
    /\ at \in {"start", "tray", "join", "take", "launch", "leave", "over"}
    /\ code \in {"none", "ok", "error"} /\ (code # "none" <=> at \in {"leave", "over"})
    /\ joined \in {"none", "clean", "failed"}
    /\ {stopping, held, ready, busy, slot, late, launched} \subseteq BOOLEAN
    /\ worker \in {"none", "starting", "working", "ended", "dead"}
    /\ dog \in {"none", "asleep", "looked", "told", "over"}
    /\ ack \in {"off", "asked", "waiting", "seen", "written"}
    /\ update \in {"none", "check", "stage", "download", "store", "stop", "quit"}
    /\ temp \subseteq Staged
    /\ bell \in {"off", "set", "ringing"}
    /\ checks \in 0 .. Checks
    /\ at \in {"start", "tray", "join", "take"} => (busy <=> update # "none" \/ slot)
    /\ slot \/ at = "launch" => Staged \subseteq temp

----------------------------------------------------------------------------
(* The main thread.                                                        *)

\* The instance mutex is ours; worker, watchdog and exit timer are spawned and
\* the tray begins.
StartUp ==
    /\ at = "start" /\ at' = "tray" /\ host' = "wait"
    /\ worker' = "starting" /\ dog' = "asleep"
    /\ UNCHANGED <<hwnd, shell, icon, added, timer, helpless, posted, pending, running,
                   modal, troubles, code, joined, launched, stopping, held, ready,
                   ack, updateVars, bell>>

otherVars == <<mainVars, stopping, workerVars, dog, updateVars, bell>>

\* on_ready starts the thread that acknowledges.
TrayReady ==
    /\ at = "tray" /\ EnterLoop
    /\ ack' = IF ack = "asked" THEN "waiting" ELSE ack
    /\ UNCHANGED otherVars

TrayStep ==
    /\ at = "tray"
    /\ \/ CreateWindow
       \/ DispatchCheck \/ DispatchExit \/ DispatchTaskbar \/ RetryTimer \/ StatusTimer
       \/ host = "quit" /\ CloseDialog
       \/ LoopEnds
    /\ UNCHANGED <<ack, otherVars>>

\* TrayCommand::CheckUpdate: a thread of its own, or the news that there is one.
RunCheck ==
    /\ at = "tray" /\ running # {} /\ ~modal
    /\ \/ busy /\ modal' = TRUE /\ UNCHANGED <<running, busy, update, checks>>
       \/ ~busy /\ busy' = TRUE /\ update' = "check" /\ running' = {} /\ UNCHANGED <<modal, checks>>
    /\ UNCHANGED <<host, hwnd, shell, icon, added, timer, helpless, posted, pending,
                   troubles, ack, mainVars, stopping, workerVars, dog,
                   slot, temp, late, bell>>

\* After the loop, also when the tray could not be created.
StopWorker ==
    /\ at = "tray" /\ host \in {"closed", "failed"}
    /\ at' = "join" /\ stopping' = TRUE
    /\ UNCHANGED <<trayVars, code, joined, launched, workerVars, dog, ack, updateVars, bell>>

Return(how) == at' = "leave" /\ code' = how

AfterJoin(result) ==
    /\ joined' = result
    /\ IF host = "failed" THEN Return("error") ELSE at' = "take" /\ UNCHANGED code
    /\ UNCHANGED <<trayVars, launched, stopping, workerVars, dog, ack, updateVars, bell>>

\* join_with_timeout
JoinWorker ==
    /\ at = "join" /\ worker \in {"ended", "dead"}
    /\ AfterJoin(IF worker = "ended" /\ ~held THEN "clean" ELSE "failed")

\* Mutant: no limit; a worker that KakaoTalk blocks is waited for.
JoinForever == at = "join" /\ exited /\ AfterJoin("failed")

JoinTimesOut == at = "join" /\ AfterJoin("failed")

CodeOf(result) == IF result = "clean" THEN "ok" ELSE "error"

TakeSlot ==
    /\ at = "take"
    /\ IF slot THEN at' = "launch" /\ slot' = FALSE /\ UNCHANGED code
               ELSE Return(CodeOf(joined)) /\ UNCHANGED slot
    /\ UNCHANGED <<trayVars, joined, launched, stopping, workerVars, dog, ack,
                   update, busy, temp, late, checks, bell>>

\* Mutant: a started helper counts as success.
LaunchSucceeds ==
    /\ at = "launch" /\ busy' = FALSE
    /\ \/ launched' = TRUE /\ Return("ok") /\ UNCHANGED temp
       \/ temp' = temp \ Staged /\ Return("error") /\ UNCHANGED launched
    /\ UNCHANGED <<trayVars, joined, stopping, workerVars, dog, ack,
                   update, slot, late, checks, bell>>

\* launch_helper; without a helper the staged files are deleted.
Launch ==
    /\ at = "launch" /\ busy' = FALSE
    /\ \/ launched' = TRUE /\ Return(CodeOf(joined)) /\ UNCHANGED temp
       \/ temp' = temp \ Staged /\ Return("error") /\ UNCHANGED launched
    /\ UNCHANGED <<trayVars, joined, stopping, workerVars, dog, ack,
                   update, slot, late, checks, bell>>

\* main returns, and every thread ends where it is.
ProcessEnds ==
    /\ at = "leave" /\ at' = "over"
    /\ UNCHANGED <<trayVars, code, joined, launched, stopping, workerVars, dog, ack,
                   updateVars, bell>>

----------------------------------------------------------------------------
(* The worker, as the other threads see it.                                *)

envVars == <<trayVars, mainVars, stopping, dog, ack, updateVars, bell>>

WorkerReady ==
    /\ Running /\ worker = "starting" /\ worker' = "working" /\ ready' = TRUE
    /\ UNCHANGED <<held, envVars>>

WorkerEnds ==
    /\ Running /\ worker \in {"starting", "working"} /\ stopping
    /\ worker' = "ended" /\ held' \in BOOLEAN
    /\ UNCHANGED <<ready, envVars>>

\* A panic outside the guard of a tick: WorkerExitGuard.
WorkerDies ==
    /\ Running /\ worker \in {"starting", "working"}
    /\ worker' = "dead"
    /\ UNCHANGED <<held, ready, envVars>>

----------------------------------------------------------------------------
(* Watchdog and readiness thread.                                          *)

WatchdogLooks ==
    /\ Running /\ dog = "asleep" /\ dog' = IF stopping THEN "over" ELSE "looked"
    /\ UNCHANGED <<trayVars, mainVars, stopping, workerVars, ack, updateVars, bell>>

\* Mutant: the watchdog ends with the worker.
WatchdogLeaves ==
    /\ Running /\ dog = "looked" /\ dog' = IF exited THEN "over" ELSE "asleep"
    /\ UNCHANGED <<trayVars, mainVars, stopping, workerVars, ack, updateVars, bell>>

\* note_unexpected_worker_exit, some time after stopping was read; it tells once.
WatchdogReports ==
    /\ Running /\ dog = "looked" /\ dog' = IF exited THEN "told" ELSE "asleep"
    /\ UNCHANGED <<trayVars, mainVars, stopping, workerVars, ack, updateVars, bell>>

ackRest == <<trayVars, mainVars, stopping, workerVars, dog, updateVars, bell>>

\* It gives up when the worker is gone or after five seconds.
AckWaits ==
    /\ Running /\ ack = "waiting" /\ ack' = IF ready THEN "seen" ELSE "off"
    /\ UNCHANGED ackRest

AckWrites ==
    /\ Running /\ ack = "seen"
    /\ ack' \in IF stopping THEN {"off"} ELSE {"written", "off"}     \* writing may fail
    /\ UNCHANGED ackRest

----------------------------------------------------------------------------
(* The update thread.                                                      *)

updateRest == <<trayVars, mainVars, workerVars, dog, ack, bell, checks>>

\* Mutant: the gate is not opened again.
UpdateEndsShut == update' = "none" /\ UNCHANGED busy

\* The check failed, there is no update, the user declined, or preparing failed.
UpdateEnds == update' = "none" /\ busy' = FALSE

\* check_for_update finds one and the user wants it.
UpdateChecks ==
    /\ Running /\ update = "check"
    /\ \/ update' = "stage" /\ UNCHANGED busy
       \/ UpdateEnds
    /\ UNCHANGED <<stopping, slot, temp, late, updateRest>>

\* resolve_helper, stage_helper, verify_helper_protocol: a copy that does not say
\* within two seconds that it knows the protocol is deleted; one that was cut short
\* stays, uncounted.
StageHelper ==
    /\ Running /\ update = "stage"
    /\ \/ update' = "download" /\ temp' = temp \cup {"helper"} /\ UNCHANGED busy
       \/ UpdateEnds /\ UNCHANGED temp
    /\ UNCHANGED <<stopping, slot, late, updateRest>>

\* Mutant: a download that fails leaves the helper behind.
DownloadKeepsHelper ==
    /\ Running /\ update = "download"
    /\ \/ update' = "store" /\ temp' = temp \cup {"replacement"} /\ UNCHANGED busy
       \/ UpdateEnds /\ UNCHANGED temp
    /\ UNCHANGED <<stopping, slot, late, updateRest>>

\* download_and_verify; a file of the wrong size or hash is never written.
Download ==
    /\ Running /\ update = "download"
    /\ \/ update' = "store" /\ temp' = temp \cup {"replacement"} /\ UNCHANGED busy
       \/ UpdateEnds /\ temp' = temp \ Staged
    /\ UNCHANGED <<stopping, slot, late, updateRest>>

StoreUpdate ==
    /\ Running /\ update = "store" /\ update' = "stop"
    /\ slot' = TRUE /\ late' = (at = "leave")
    /\ UNCHANGED <<stopping, busy, temp, updateRest>>

UpdateStops ==
    /\ Running /\ update = "stop" /\ update' = "quit" /\ stopping' = TRUE
    /\ UNCHANGED <<busy, slot, temp, late, updateRest>>

\* request_exit: nothing is posted when the window is gone.
UpdateQuits ==
    /\ Running /\ update = "quit" /\ update' = "none"
    /\ IF hwnd THEN Post("exit") ELSE UNCHANGED trayVars
    /\ UNCHANGED <<stopping, busy, slot, temp, late, mainVars, workerVars, dog,
                   ack, bell, checks>>

----------------------------------------------------------------------------
(* The exit timer, the user and other processes.                           *)

bellRest == <<mainVars, workerVars, dog, ack, updateVars>>

BellRings ==
    /\ Running /\ bell = "set" /\ at # "start"
    /\ bell' = "ringing" /\ stopping' = TRUE
    /\ UNCHANGED <<trayVars, bellRest>>

\* It looks for the window for five seconds; the tray may take longer to get one.
BellEnds ==
    /\ Running /\ bell = "ringing" /\ bell' = "off"
    /\ IF hwnd THEN Post("exit") ELSE UNCHANGED trayVars
    /\ UNCHANGED <<stopping, bellRest>>

\* The menu entry, or another process with --exit, which finds the window as
\* soon as it exists.
ExitAsked ==
    /\ Running /\ WindowExists /\ Post("exit")
    /\ UNCHANGED <<mainVars, stopping, workerVars, dog, ack, updateVars, bell>>

CheckAsked ==
    /\ Running /\ host = "loop" /\ checks < Checks /\ checks' = checks + 1
    /\ Post("check")
    /\ UNCHANGED <<mainVars, stopping, workerVars, dog, ack,
                   update, busy, slot, temp, late, bell>>

DialogClosed ==
    /\ Running /\ CloseDialog
    /\ UNCHANGED <<mainVars, stopping, workerVars, dog, ack, updateVars, bell>>

\* As long as it matters to the tray.
shellRest == <<mainVars, stopping, workerVars, dog, ack, updateVars, bell>>
ShellDies    == host \notin {"quit", "closed", "failed"} /\ ExplorerDies   /\ UNCHANGED shellRest
ShellReturns == host \notin {"quit", "closed", "failed"} /\ ExplorerStarts /\ UNCHANGED shellRest

Main == StartUp \/ TrayStep \/ TrayReady \/ RunCheck \/ StopWorker \/ JoinWorker
        \/ JoinTimesOut \/ TakeSlot \/ Launch \/ ProcessEnds
Update == StageHelper \/ Download \/ StoreUpdate \/ UpdateStops \/ UpdateQuits

Watchdog == WatchdogLooks \/ WatchdogReports

Next ==
    \/ Main
    \/ WorkerReady \/ WorkerEnds \/ WorkerDies
    \/ Watchdog
    \/ AckWaits \/ AckWrites
    \/ Update \/ UpdateChecks
    \/ BellRings \/ BellEnds
    \/ ExitAsked \/ CheckAsked \/ DialogClosed \/ ShellDies \/ ShellReturns

Spec == Init /\ [][Next]_vars

\* The main thread and the watchdog go on and Explorer comes back; a dialog need
\* not be answered, a download need not end, and nor need the worker.
FairSpec == Spec /\ WF_vars(Main) /\ WF_vars(Watchdog) /\ WF_vars(ShellReturns)

----------------------------------------------------------------------------
(* Properties.                                                             *)

\* When the process is over, the staged files of an update are there only for a
\* helper that was started, or because the update thread was cut off or came too
\* late for the main thread (prepare_update, discard_staged, run_with_args).
NoStagedLeftBehind ==
    at = "over" /\ temp \cap Staged # {} => launched \/ update # "none" \/ late

\* A worker that dies while the app goes on is reported (Gap-01 in lib.rs).
AlarmComes == worker = "dead" ~> dog = "told" \/ stopping

\* Exit code 0 promises that every window was restored in time and that an
\* update the user accepted before the end went to the helper.
ExitCodeHonest ==
    code = "ok" => worker = "ended" /\ ~held /\ (slot => late)

\* Once a request to exit is in the queue the process ends, whatever dialog,
\* update or unresponsive worker there is.
ExitHappens == "exit" \in posted ~> at = "over"
=============================================================================
