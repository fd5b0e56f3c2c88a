------------------------- MODULE AppLifecycleSafety -------------------------
(***************************************************************************)
(* Proofs about AppLifecycle for any number of update checks and of        *)
(* troubles with Explorer: type correctness, that no staged file is left   *)
(* behind, that exit code 0 is honest, and that an exit only goes forward. *)
(*                                                                         *)
(* What the process leaves is decided by three threads: the update thread  *)
(* stages, stores and asks for the exit, the tray thread runs commands     *)
(* until its window is gone, and the main thread takes what is stored.     *)
(* The invariant says which of them owns the staged files at each moment   *)
(* (Owned), and that only a process whose tray ever ran has any (Early).   *)
(***************************************************************************)
EXTENDS AppLifecycle, TLAPS

TrayTypes ==
    /\ host \in Hosts
    /\ hwnd \in BOOLEAN /\ shell \in BOOLEAN /\ icon \in BOOLEAN /\ added \in BOOLEAN
    /\ timer \in BOOLEAN /\ helpless \in BOOLEAN /\ modal \in BOOLEAN
    /\ posted \subseteq Messages /\ pending \subseteq Commands /\ running \subseteq Commands
    /\ troubles \in 0 .. Troubles

\* What is shown, and what the tray believes is shown.
IconKnown ==
    /\ icon => shell
    /\ hwnd <=> host = "loop"
    /\ timer => host = "loop" /\ ~added
    /\ host = "loop" /\ added /\ ~icon => ~shell \/ "taskbar" \in posted
    /\ host = "loop" /\ ~added => timer \/ helpless

DialogOpen == modal => running # {}

TrayInv == TrayTypes /\ IconKnown /\ DialogOpen

MainTypes ==
    /\ at \in {"start", "tray", "join", "take", "launch", "leave", "over"}
    /\ code \in {"none", "ok", "error"} /\ (code # "none" <=> at \in {"leave", "over"})
    /\ joined \in {"none", "clean", "failed"}
    /\ stopping \in BOOLEAN /\ launched \in BOOLEAN
    /\ worker \in {"none", "starting", "working", "ended", "dead"}
    /\ held \in BOOLEAN /\ ready \in BOOLEAN
    /\ dog \in {"none", "asleep", "looked", "told", "over"}
    /\ ack \in {"off", "asked", "waiting", "seen", "written"}
    /\ bell \in {"off", "set", "ringing"}

UpdateTypes ==
    /\ update \in {"none", "check", "stage", "download", "store", "stop", "quit"}
    /\ busy \in BOOLEAN /\ slot \in BOOLEAN /\ late \in BOOLEAN
    /\ temp \subseteq Staged
    /\ checks \in 0 .. Checks

Gate == at \in {"start", "tray", "join", "take"} => (busy <=> update # "none" \/ slot)

\* Before its loop the tray has run no command.
Early ==
    /\ at = "start" <=> host = "off"
    /\ at \in {"join", "take", "launch", "leave", "over"} => host \in {"closed", "failed"}
    /\ host \in {"off", "wait", "add", "failed"} =>
          /\ running = {} /\ pending = {}
          /\ update = "none" /\ ~busy /\ ~slot /\ temp = {}

Handed == update \in {"none", "stop", "quit"}

\* Who owns the staged files: the update thread, the slot, the main thread, the helper.
Owned ==
    /\ slot => Handed
    /\ at = "launch" => ~slot /\ Handed
    /\ update \in {"stop", "quit"} /\ at \in {"start", "tray", "join", "take"} => slot
    /\ update \in {"check", "stage"} => temp = {}
    /\ update = "download" => temp = {"helper"}
    /\ update = "store" => temp = Staged
    /\ slot \/ at = "launch" => Staged \subseteq temp
    /\ launched => at \in {"leave", "over"}
    /\ temp # {} /\ Handed => slot \/ at = "launch" \/ launched
    /\ slot /\ at \in {"leave", "over"} => late

Honest ==
    /\ at \in {"start", "tray", "join"} => joined = "none"
    /\ joined = "clean" => worker = "ended" /\ ~held
    /\ code = "ok" => joined = "clean"

\* The inductive invariant.
Inv == TrayInv /\ MainTypes /\ UpdateTypes /\ Gate /\ Early /\ Owned /\ Honest

----------------------------------------------------------------------------
(* What stays as it is.                                                    *)

LEMMA TrayStays ==
    ASSUME TrayInv, UNCHANGED trayVars
    PROVE  TrayInv'
  BY DEF TrayInv, TrayTypes, IconKnown, DialogOpen, trayVars

LEMMA FilesStay ==
    ASSUME UpdateTypes, Gate, Owned, UNCHANGED <<at, launched, updateVars>>
    PROVE  UpdateTypes' /\ Gate' /\ Owned'
  BY DEF UpdateTypes, Gate, Owned, Handed, updateVars

LEMMA HonestStays ==
    ASSUME Honest, UNCHANGED <<at, joined, code, worker, held>>
    PROVE  Honest'
  BY DEF Honest

LEMMA EarlyStays ==
    ASSUME Early, UNCHANGED <<at, host, running, pending, update, busy, slot, temp>>
    PROVE  Early'
  BY DEF Early

\* The threads but for the tray and the readiness thread.
LEMMA FlowStays ==
    ASSUME Inv, UNCHANGED otherVars, ack' \in {"off", "asked", "waiting", "seen", "written"}
    PROVE  MainTypes' /\ UpdateTypes' /\ Gate' /\ Owned' /\ Honest'
<1>1. UpdateTypes' /\ Gate' /\ Owned'
  BY FilesStay DEF Inv, otherVars, mainVars
<1>2. Honest'
  BY HonestStays DEF Inv, otherVars, mainVars, workerVars
<1>3. MainTypes'
  BY DEF Inv, MainTypes, otherVars, mainVars, workerVars
<1> QED
  BY <1>1, <1>2, <1>3

----------------------------------------------------------------------------
(* The tray keeps its own invariant.                                       *)

LEMMA Registered ==
    ASSUME TrayInv, NEW ok \in BOOLEAN, NotifyAdd(ok), Reconcile(ok)
    PROVE  /\ icon' \in BOOLEAN /\ added' \in BOOLEAN /\ timer' \in BOOLEAN
           /\ helpless' \in BOOLEAN /\ troubles' \in 0 .. Troubles
           /\ icon' => shell
           /\ added' => icon'
           /\ timer' => ~added'
           /\ ~added' => timer' \/ helpless'
<1> USE TrayBounds
<1>a. icon' \in BOOLEAN /\ (ok => icon') /\ (icon' => shell)
  BY Zenon DEF TrayInv, TrayTypes, NotifyAdd
<1>b. troubles' = troubles \/ Trouble
  BY Zenon DEF NotifyAdd
<1>1. troubles' \in 0 .. Troubles
  BY <1>b DEF TrayInv, TrayTypes, Trouble
<1>2. /\ added' = ok /\ timer' \in BOOLEAN /\ helpless' \in BOOLEAN
      /\ timer' => ~ok
      /\ ~ok => timer' \/ helpless'
  BY DEF TrayInv, TrayTypes, IconKnown, Reconcile
<1> QED
  BY <1>a, <1>1, <1>2

LEMMA CreateWindowTray ==
    ASSUME TrayInv, CreateWindow
    PROVE  TrayInv'
<1> USE TrayBounds
<1>1. TrayTypes'
  BY DEF TrayInv, TrayTypes, CreateWindow, Hosts, Messages, Commands
<1>2. IconKnown'
  BY DEF TrayInv, TrayTypes, IconKnown, CreateWindow
<1>3. DialogOpen'
  BY DEF TrayInv, DialogOpen, CreateWindow
<1> QED
  BY <1>1, <1>2, <1>3 DEF TrayInv

LEMMA EnterLoopTray ==
    ASSUME TrayInv, EnterLoop
    PROVE  TrayInv'
<1>0. PICK ok \in BOOLEAN : NotifyAdd(ok) /\ Reconcile(ok)
  BY DEF EnterLoop
<1>1. /\ icon' \in BOOLEAN /\ added' \in BOOLEAN /\ timer' \in BOOLEAN
      /\ helpless' \in BOOLEAN /\ troubles' \in 0 .. Troubles
      /\ icon' => shell
      /\ added' => icon'
      /\ timer' => ~added'
      /\ ~added' => timer' \/ helpless'
  BY <1>0, Registered
<1>2. TrayTypes'
  BY <1>1 DEF TrayInv, TrayTypes, EnterLoop, Hosts, Messages, Commands
<1>3. IconKnown'
  BY <1>1 DEF TrayInv, TrayTypes, IconKnown, EnterLoop
<1>4. DialogOpen'
  BY DEF TrayInv, DialogOpen, EnterLoop
<1> QED
  BY <1>2, <1>3, <1>4 DEF TrayInv

LEMMA DispatchCheckTray ==
    ASSUME TrayInv, DispatchCheck
    PROVE  TrayInv'
<1> USE TrayBounds
<1>1. TrayTypes'
  BY DEF TrayInv, TrayTypes, DispatchCheck, Pumps, Drain, Hosts, Messages, Commands
<1>2. IconKnown'
  BY DEF TrayInv, TrayTypes, IconKnown, DispatchCheck, Pumps, Drain
<1>3. DialogOpen'
  BY DEF TrayInv, DialogOpen, DispatchCheck, Pumps, Drain
<1> QED
  BY <1>1, <1>2, <1>3 DEF TrayInv

LEMMA DispatchExitTray ==
    ASSUME TrayInv, DispatchExit
    PROVE  TrayInv'
<1> USE TrayBounds
<1>1. TrayTypes'
  BY DEF TrayInv, TrayTypes, DispatchExit, Pumps, Drain, Hosts, Messages, Commands
<1>2. IconKnown'
  BY DEF TrayInv, TrayTypes, IconKnown, DispatchExit, Pumps, Drain
<1>3. DialogOpen'
  BY DEF TrayInv, DialogOpen, DispatchExit, Pumps, Drain
<1> QED
  BY <1>1, <1>2, <1>3 DEF TrayInv

LEMMA DispatchTaskbarTray ==
    ASSUME TrayInv, DispatchTaskbar
    PROVE  TrayInv'
<1>0. PICK ok \in BOOLEAN : NotifyAdd(ok) /\ Reconcile(ok)
  BY DEF DispatchTaskbar
<1>1. /\ icon' \in BOOLEAN /\ added' \in BOOLEAN /\ timer' \in BOOLEAN
      /\ helpless' \in BOOLEAN /\ troubles' \in 0 .. Troubles
      /\ icon' => shell
      /\ added' => icon'
      /\ timer' => ~added'
      /\ ~added' => timer' \/ helpless'
  BY <1>0, Registered
<1>2. TrayTypes'
  BY <1>1 DEF TrayInv, TrayTypes, DispatchTaskbar, Pumps, Drain, Hosts, Messages, Commands
<1>3. IconKnown'
  BY <1>1 DEF TrayInv, TrayTypes, IconKnown, DispatchTaskbar, Pumps, Drain
<1>4. DialogOpen'
  BY DEF TrayInv, DialogOpen, DispatchTaskbar, Pumps, Drain
<1> QED
  BY <1>2, <1>3, <1>4 DEF TrayInv

LEMMA RetryTimerTray ==
    ASSUME TrayInv, RetryTimer
    PROVE  TrayInv'
<1>0. PICK ok \in BOOLEAN : NotifyAdd(ok) /\ Reconcile(ok)
  BY DEF RetryTimer
<1>1. /\ icon' \in BOOLEAN /\ added' \in BOOLEAN /\ timer' \in BOOLEAN
      /\ helpless' \in BOOLEAN /\ troubles' \in 0 .. Troubles
      /\ icon' => shell
      /\ added' => icon'
      /\ timer' => ~added'
      /\ ~added' => timer' \/ helpless'
  BY <1>0, Registered
<1>2. TrayTypes'
  BY <1>1 DEF TrayInv, TrayTypes, RetryTimer, Pumps, Drain, Hosts, Messages, Commands
<1>3. IconKnown'
  BY <1>1 DEF TrayInv, TrayTypes, IconKnown, RetryTimer, Pumps, Drain
<1>4. DialogOpen'
  BY DEF TrayInv, DialogOpen, RetryTimer, Pumps, Drain
<1> QED
  BY <1>2, <1>3, <1>4 DEF TrayInv

LEMMA StatusTimerTray ==
    ASSUME TrayInv, StatusTimer
    PROVE  TrayInv'
<1> USE TrayBounds
<1>1. TrayTypes'
  BY DEF TrayInv, TrayTypes, StatusTimer, Pumps, Drain, Hosts, Messages, Commands
<1>2. IconKnown'
  BY DEF TrayInv, TrayTypes, IconKnown, StatusTimer, Pumps, Drain
<1>3. DialogOpen'
  BY DEF TrayInv, DialogOpen, StatusTimer, Pumps, Drain
<1> QED
  BY <1>1, <1>2, <1>3 DEF TrayInv

LEMMA CloseDialogTray ==
    ASSUME TrayInv, CloseDialog
    PROVE  TrayInv'
<1> USE TrayBounds
<1>1. TrayTypes'
  BY DEF TrayInv, TrayTypes, CloseDialog, Hosts, Messages, Commands
<1>2. IconKnown'
  BY DEF TrayInv, TrayTypes, IconKnown, CloseDialog
<1>3. DialogOpen'
  BY DEF TrayInv, DialogOpen, CloseDialog
<1> QED
  BY <1>1, <1>2, <1>3 DEF TrayInv

LEMMA LoopEndsTray ==
    ASSUME TrayInv, LoopEnds
    PROVE  TrayInv'
<1> USE TrayBounds
<1>1. TrayTypes'
  BY DEF TrayInv, TrayTypes, LoopEnds, Hosts, Messages, Commands
<1>2. IconKnown'
  BY DEF TrayInv, TrayTypes, IconKnown, LoopEnds
<1>3. DialogOpen'
  BY DEF TrayInv, DialogOpen, LoopEnds
<1> QED
  BY <1>1, <1>2, <1>3 DEF TrayInv

LEMMA PostTray ==
    ASSUME TrayInv, NEW message \in Messages, Post(message)
    PROVE  TrayInv'
<1> USE TrayBounds
<1>1. TrayTypes'
  BY DEF TrayInv, TrayTypes, Post, Hosts, Messages, Commands
<1>2. IconKnown'
  BY DEF TrayInv, TrayTypes, IconKnown, Post
<1>3. DialogOpen'
  BY DEF TrayInv, DialogOpen, Post
<1> QED
  BY <1>1, <1>2, <1>3 DEF TrayInv

LEMMA ExplorerDiesTray ==
    ASSUME TrayInv, ExplorerDies
    PROVE  TrayInv'
<1> USE TrayBounds
<1>1. TrayTypes'
  <2>1. troubles' \in 0 .. Troubles
    BY DEF TrayInv, TrayTypes, ExplorerDies, Trouble
  <2>2. shell' \in BOOLEAN /\ icon' \in BOOLEAN
    BY DEF ExplorerDies
  <2> QED
    BY <2>1, <2>2 DEF TrayInv, TrayTypes, ExplorerDies
<1>2. IconKnown'
  BY DEF TrayInv, TrayTypes, IconKnown, ExplorerDies, Trouble
<1>3. DialogOpen'
  BY DEF TrayInv, DialogOpen, ExplorerDies, Trouble
<1> QED
  BY <1>1, <1>2, <1>3 DEF TrayInv

LEMMA ExplorerStartsTray ==
    ASSUME TrayInv, ExplorerStarts
    PROVE  TrayInv'
<1> USE TrayBounds
<1>1. TrayTypes'
  BY DEF TrayInv, TrayTypes, ExplorerStarts, WindowExists, Hosts, Messages, Commands
<1>2. IconKnown'
  BY DEF TrayInv, TrayTypes, IconKnown, ExplorerStarts, WindowExists
<1>3. DialogOpen'
  BY DEF TrayInv, DialogOpen, ExplorerStarts, WindowExists
<1> QED
  BY <1>1, <1>2, <1>3 DEF TrayInv

----------------------------------------------------------------------------
(* The tray thread in the process.                                         *)

LEMMA TrayStepKeeps ==
    ASSUME Inv, TrayStep
    PROVE  Inv'
<1>1. MainTypes' /\ UpdateTypes' /\ Gate' /\ Owned' /\ Honest'
  BY FlowStays DEF Inv, MainTypes, TrayStep
<1>2. TrayInv'
  BY CreateWindowTray, DispatchCheckTray, DispatchExitTray, DispatchTaskbarTray, RetryTimerTray,
     StatusTimerTray, CloseDialogTray, LoopEndsTray DEF Inv, TrayStep
<1>3. at = "tray" /\ UNCHANGED <<at, update, busy, slot, temp>>
  BY DEF TrayStep, otherVars, mainVars, updateVars
<1>4. Early'
  <2>1. CASE CreateWindow
    BY <1>3, <2>1 DEF Inv, Early, CreateWindow
  <2>2. CASE DispatchCheck \/ DispatchExit \/ DispatchTaskbar \/ RetryTimer \/ StatusTimer
    BY <1>3, <2>2 DEF Inv, Early, DispatchCheck, DispatchExit, DispatchTaskbar, RetryTimer,
       StatusTimer, Pumps
  <2>3. CASE CloseDialog
    BY <1>3, <2>3 DEF Inv, Early, CloseDialog
  <2>4. CASE LoopEnds
    BY <1>3, <2>4 DEF Inv, Early, LoopEnds
  <2> QED
    BY <2>1, <2>2, <2>3, <2>4 DEF TrayStep
<1> QED
  BY <1>1, <1>2, <1>4 DEF Inv

LEMMA TrayReadyKeeps ==
    ASSUME Inv, TrayReady
    PROVE  Inv'
<1>1. MainTypes' /\ UpdateTypes' /\ Gate' /\ Owned' /\ Honest'
  BY FlowStays DEF Inv, MainTypes, TrayReady
<1>2. TrayInv'
  BY EnterLoopTray DEF Inv, TrayReady
<1>3. Early'
  BY DEF Inv, Early, TrayReady, EnterLoop, otherVars, mainVars, updateVars
<1> QED
  BY <1>1, <1>2, <1>3 DEF Inv

LEMMA RunCheckKeeps ==
    ASSUME Inv, RunCheck
    PROVE  Inv'
<1>1. TrayInv'
  <2>1. TrayTypes'
    <3>1. modal' \in BOOLEAN /\ running' \subseteq Commands
      BY DEF Inv, TrayInv, TrayTypes, RunCheck
    <3> QED
      BY <3>1 DEF Inv, TrayInv, TrayTypes, RunCheck
  <2>2. IconKnown'
    BY DEF Inv, TrayInv, IconKnown, RunCheck
  <2>3. DialogOpen'
    BY DEF DialogOpen, RunCheck
  <2> QED
    BY <2>1, <2>2, <2>3 DEF TrayInv
<1>2. MainTypes' /\ Honest'
  BY DEF Inv, MainTypes, Honest, RunCheck, mainVars, workerVars
<1>3. UpdateTypes' /\ Gate' /\ Owned'
  <2>1. UNCHANGED <<at, launched, slot, temp, late, checks>> /\ at = "tray"
    BY DEF RunCheck, mainVars
  <2>2. CASE UNCHANGED <<busy, update>>
    BY <2>1, <2>2, FilesStay DEF Inv, updateVars
  <2>3. CASE ~busy /\ busy' = TRUE /\ update' = "check"
    <3>1. update = "none" /\ slot = FALSE /\ temp = {}
      <4>1. update = "none" /\ slot = FALSE
        BY <2>1, <2>3 DEF Inv, UpdateTypes, Gate
      <4> QED
        BY <2>1, <4>1 DEF Inv, Owned, Handed
    <3>2. UpdateTypes'
      BY <2>1, <2>3 DEF Inv, UpdateTypes
    <3>3. Gate' /\ Owned'
      BY <2>1, <2>3, <3>1 DEF Inv, Gate, Owned, Handed
    <3> QED
      BY <3>2, <3>3
  <2> QED
    BY <2>2, <2>3 DEF RunCheck
<1>4. Early'
  BY DEF Inv, Early, RunCheck, mainVars
<1> QED
  BY <1>1, <1>2, <1>3, <1>4 DEF Inv

\* The user, other processes and Explorer.
LEMMA DesktopKeeps ==
    ASSUME Inv, ExitAsked \/ CheckAsked \/ DialogClosed \/ ShellDies \/ ShellReturns
    PROVE  Inv'
<1>1. TrayInv'
  BY PostTray, CloseDialogTray, ExplorerDiesTray, ExplorerStartsTray
     DEF Inv, ExitAsked, CheckAsked, DialogClosed, ShellDies, ShellReturns, Messages
<1>2. MainTypes' /\ Honest'
  BY DEF Inv, MainTypes, Honest, ExitAsked, CheckAsked, DialogClosed, ShellDies, ShellReturns,
     mainVars, workerVars, shellRest
<1>3. UpdateTypes' /\ Gate' /\ Owned'
  <2>1. CASE CheckAsked
    BY <2>1, LifecycleBounds DEF Inv, UpdateTypes, Gate, Owned, Handed, CheckAsked, mainVars
  <2>2. CASE ExitAsked \/ DialogClosed \/ ShellDies \/ ShellReturns
    BY <2>2, FilesStay DEF Inv, ExitAsked, DialogClosed, ShellDies, ShellReturns, mainVars, shellRest
  <2> QED
    BY <2>1, <2>2
<1>4. Early'
  BY DEF Inv, Early, ExitAsked, CheckAsked, DialogClosed, ShellDies, ShellReturns,
     Post, CloseDialog, ExplorerDies, ExplorerStarts, mainVars, updateVars, shellRest
<1> QED
  BY <1>1, <1>2, <1>3, <1>4 DEF Inv

----------------------------------------------------------------------------
(* The main thread.                                                        *)

LEMMA StartUpKeeps ==
    ASSUME Inv, StartUp
    PROVE  Inv'
<1>1. TrayInv'
  BY DEF Inv, TrayInv, TrayTypes, IconKnown, DialogOpen, Early, StartUp, Hosts
<1>2. MainTypes'
  BY DEF Inv, MainTypes, StartUp
<1>3. UpdateTypes' /\ Gate' /\ Owned'
  BY DEF Inv, UpdateTypes, Gate, Owned, Handed, StartUp, updateVars
<1>4. Early'
  BY DEF Inv, Early, StartUp, updateVars
<1>5. Honest'
  BY DEF Inv, Honest, MainTypes, StartUp
<1> QED
  BY <1>1, <1>2, <1>3, <1>4, <1>5 DEF Inv

LEMMA StopWorkerKeeps ==
    ASSUME Inv, StopWorker
    PROVE  Inv'
<1>1. TrayInv'
  BY TrayStays DEF Inv, StopWorker
<1>2. MainTypes'
  BY DEF Inv, MainTypes, StopWorker, mainVars, workerVars
<1>3. UpdateTypes' /\ Gate' /\ Owned'
  BY DEF Inv, UpdateTypes, Gate, Early, Owned, Handed, Staged, StopWorker, mainVars, updateVars
<1>4. Early'
  BY DEF Inv, Early, StopWorker, trayVars, mainVars, updateVars
<1>5. Honest'
  BY DEF Inv, Honest, MainTypes, StopWorker, mainVars, workerVars
<1> QED
  BY <1>1, <1>2, <1>3, <1>4, <1>5 DEF Inv

LEMMA JoinWorkerKeeps ==
    ASSUME Inv, JoinWorker
    PROVE  Inv'
<1>1. TrayInv'
  BY TrayStays DEF Inv, JoinWorker, AfterJoin, Return
<1>2. MainTypes'
  BY DEF Inv, MainTypes, JoinWorker, AfterJoin, Return, mainVars, workerVars
<1>3. UpdateTypes' /\ Gate' /\ Owned'
  BY DEF Inv, UpdateTypes, Gate, Early, Owned, Handed, Staged, JoinWorker, AfterJoin, Return, mainVars, updateVars
<1>4. Early'
  BY DEF Inv, Early, JoinWorker, AfterJoin, Return, trayVars, mainVars, updateVars
<1>5. Honest'
  BY DEF Inv, Honest, MainTypes, JoinWorker, AfterJoin, Return, mainVars, workerVars
<1> QED
  BY <1>1, <1>2, <1>3, <1>4, <1>5 DEF Inv

LEMMA JoinTimesOutKeeps ==
    ASSUME Inv, JoinTimesOut
    PROVE  Inv'
<1>1. TrayInv'
  BY TrayStays DEF Inv, JoinTimesOut, AfterJoin, Return
<1>2. MainTypes'
  BY DEF Inv, MainTypes, JoinTimesOut, AfterJoin, Return, mainVars, workerVars
<1>3. UpdateTypes' /\ Gate' /\ Owned'
  BY DEF Inv, UpdateTypes, Gate, Early, Owned, Handed, Staged, JoinTimesOut, AfterJoin, Return, mainVars, updateVars
<1>4. Early'
  BY DEF Inv, Early, JoinTimesOut, AfterJoin, Return, trayVars, mainVars, updateVars
<1>5. Honest'
  BY DEF Inv, Honest, MainTypes, JoinTimesOut, AfterJoin, Return, mainVars, workerVars
<1> QED
  BY <1>1, <1>2, <1>3, <1>4, <1>5 DEF Inv

LEMMA TakeSlotKeeps ==
    ASSUME Inv, TakeSlot
    PROVE  Inv'
<1>1. TrayInv'
  BY TrayStays DEF Inv, TakeSlot, CodeOf, Return
<1>2. MainTypes'
  BY DEF Inv, MainTypes, TakeSlot, CodeOf, Return, mainVars, workerVars
<1>3. UpdateTypes' /\ Gate' /\ Owned'
  BY DEF Inv, UpdateTypes, Gate, Early, Owned, Handed, Staged, TakeSlot, CodeOf, Return, mainVars, updateVars
<1>4. Early'
  BY DEF Inv, Early, TakeSlot, CodeOf, Return, trayVars, mainVars, updateVars
<1>5. Honest'
  BY DEF Inv, Honest, MainTypes, TakeSlot, CodeOf, Return, mainVars, workerVars
<1> QED
  BY <1>1, <1>2, <1>3, <1>4, <1>5 DEF Inv

LEMMA LaunchKeeps ==
    ASSUME Inv, Launch
    PROVE  Inv'
<1>1. TrayInv'
  BY TrayStays DEF Inv, Launch, CodeOf, Return
<1>2. MainTypes'
  <2>1. launched' \in BOOLEAN
    BY DEF Inv, MainTypes, Launch
  <2>2. at' = "leave" /\ code' \in {"ok", "error"}
    BY DEF Launch, CodeOf, Return
  <2> QED
    BY <2>1, <2>2 DEF Inv, MainTypes, Launch, workerVars
<1>3. UpdateTypes' /\ Gate' /\ Owned'
  BY DEF Inv, UpdateTypes, Gate, Early, Owned, Handed, Staged, Launch, CodeOf, Return, mainVars, updateVars
<1>4. Early'
  BY DEF Inv, Early, Launch, CodeOf, Return, trayVars, mainVars, updateVars
<1>5. Honest'
  BY DEF Inv, Honest, MainTypes, Launch, CodeOf, Return, mainVars, workerVars
<1> QED
  BY <1>1, <1>2, <1>3, <1>4, <1>5 DEF Inv

LEMMA ProcessEndsKeeps ==
    ASSUME Inv, ProcessEnds
    PROVE  Inv'
<1>1. TrayInv'
  BY TrayStays DEF Inv, ProcessEnds
<1>2. MainTypes'
  BY DEF Inv, MainTypes, ProcessEnds, mainVars, workerVars
<1>3. UpdateTypes' /\ Gate' /\ Owned'
  BY DEF Inv, UpdateTypes, Gate, Early, Owned, Handed, Staged, ProcessEnds, mainVars, updateVars
<1>4. Early'
  BY DEF Inv, Early, ProcessEnds, trayVars, mainVars, updateVars
<1>5. Honest'
  BY DEF Inv, Honest, MainTypes, ProcessEnds, mainVars, workerVars
<1> QED
  BY <1>1, <1>2, <1>3, <1>4, <1>5 DEF Inv

----------------------------------------------------------------------------
(* Worker, watchdog, readiness thread, exit timer.                         *)

LEMMA WorkerKeeps ==
    ASSUME Inv, WorkerReady \/ WorkerEnds \/ WorkerDies
    PROVE  Inv'
<1>1. UNCHANGED <<trayVars, at, code, joined, launched, stopping, dog, ack, updateVars, bell>>
  BY DEF WorkerReady, WorkerEnds, WorkerDies, envVars, mainVars
<1>2. TrayInv' /\ UpdateTypes' /\ Gate' /\ Owned'
  BY <1>1, TrayStays, FilesStay DEF Inv
<1>3. Early'
  BY <1>1, EarlyStays DEF Inv, trayVars, updateVars
<1>4. MainTypes'
  <2>1. worker' \in {"none", "starting", "working", "ended", "dead"}
    BY DEF WorkerReady, WorkerEnds, WorkerDies
  <2>2. held' \in BOOLEAN /\ ready' \in BOOLEAN
    BY Zenon DEF Inv, MainTypes, WorkerReady, WorkerEnds, WorkerDies
  <2> QED
    BY <1>1, <2>1, <2>2 DEF Inv, MainTypes
<1>5. Honest'
  BY <1>1 DEF Inv, Honest, WorkerReady, WorkerEnds, WorkerDies
<1> QED
  BY <1>2, <1>3, <1>4, <1>5 DEF Inv

LEMMA WatchersKeep ==
    ASSUME Inv, Watchdog \/ AckWaits \/ AckWrites
    PROVE  Inv'
<1>1. UNCHANGED <<trayVars, at, code, joined, launched, stopping, worker, held, ready, updateVars, bell>>
  BY DEF Watchdog, WatchdogLooks, WatchdogReports, AckWaits, AckWrites, ackRest, mainVars, workerVars
<1>2. TrayInv' /\ UpdateTypes' /\ Gate' /\ Owned' /\ Honest'
  BY <1>1, TrayStays, FilesStay, HonestStays DEF Inv
<1>3. Early'
  BY <1>1, EarlyStays DEF Inv, trayVars, updateVars
<1>4. dog' \in {"none", "asleep", "looked", "told", "over"}
  BY DEF Inv, MainTypes, Watchdog, WatchdogLooks, WatchdogReports, AckWaits, AckWrites, ackRest
<1>5. ack' \in {"off", "asked", "waiting", "seen", "written"}
  BY DEF Inv, MainTypes, Watchdog, WatchdogLooks, WatchdogReports, AckWaits, AckWrites
<1>6. MainTypes'
  BY <1>1, <1>4, <1>5 DEF Inv, MainTypes
<1> QED
  BY <1>2, <1>3, <1>6 DEF Inv

LEMMA BellKeeps ==
    ASSUME Inv, BellRings \/ BellEnds
    PROVE  Inv'
<1>1. UNCHANGED <<at, code, joined, launched, worker, held, ready, dog, ack, updateVars>>
  BY DEF BellRings, BellEnds, bellRest, mainVars, workerVars
<1>2. TrayInv'
  BY TrayStays, PostTray DEF Inv, BellRings, BellEnds, Messages
<1>3. UpdateTypes' /\ Gate' /\ Owned' /\ Honest'
  BY <1>1, FilesStay, HonestStays DEF Inv
<1>4. UNCHANGED <<host, running, pending>>
  BY DEF BellRings, BellEnds, Post, trayVars
<1>5. Early'
  BY <1>1, <1>4, EarlyStays DEF Inv, updateVars
<1>6. MainTypes'
  <2>1. stopping' \in BOOLEAN
    BY Zenon DEF Inv, MainTypes, BellRings, BellEnds
  <2>2. bell' \in {"off", "set", "ringing"}
    BY DEF BellRings, BellEnds
  <2> QED
    BY <1>1, <2>1, <2>2 DEF Inv, MainTypes
<1> QED
  BY <1>2, <1>3, <1>5, <1>6 DEF Inv

----------------------------------------------------------------------------
(* The update thread.                                                      *)

LEMMA UpdateChecksKeeps ==
    ASSUME Inv, UpdateChecks
    PROVE  Inv'
<1>1. UNCHANGED <<trayVars, mainVars, workerVars, dog, ack, bell, checks>>
  BY DEF UpdateChecks, updateRest
<1>2. TrayInv' /\ Honest'
  BY <1>1, TrayStays, HonestStays DEF Inv, mainVars, workerVars
<1>3. MainTypes'
  BY <1>1 DEF Inv, MainTypes, UpdateChecks, mainVars, workerVars
<1>4. UpdateTypes' /\ Gate' /\ Owned'
  <2>1. UNCHANGED <<at, launched, slot, late, checks>> /\ ~slot /\ at # "launch"
    BY <1>1 DEF Inv, Owned, Handed, UpdateChecks, mainVars
  <2>2. CASE update' = "stage" /\ UNCHANGED <<busy, temp>>
    <3>1. UpdateTypes'
      BY <2>1, <2>2 DEF Inv, UpdateTypes, Staged, UpdateChecks
    <3>2. Gate'
      BY <2>1, <2>2 DEF Inv, Gate, UpdateChecks
    <3>3. Owned'
      BY <2>1, <2>2 DEF Inv, Owned, Handed, Staged, UpdateChecks
    <3> QED
      BY <3>1, <3>2, <3>3
  <2>3. CASE update' = "none" /\ busy' = FALSE /\ temp' = {}
    <3>1. UpdateTypes'
      BY <2>1, <2>3 DEF Inv, UpdateTypes
    <3>2. Gate'
      BY <2>1, <2>3 DEF Gate
    <3>3. Owned'
      BY <2>1, <2>3 DEF Inv, Owned, Handed
    <3> QED
      BY <3>1, <3>2, <3>3
  <2> QED
    BY <2>2, <2>3 DEF Inv, Owned, UpdateChecks, UpdateEnds, Staged
<1>5. Early'
  BY <1>1 DEF Inv, Early, UpdateTypes, UpdateChecks, UpdateEnds, trayVars, mainVars
<1> QED
  BY <1>2, <1>3, <1>4, <1>5 DEF Inv

LEMMA StageHelperKeeps ==
    ASSUME Inv, StageHelper
    PROVE  Inv'
<1>1. UNCHANGED <<trayVars, mainVars, workerVars, dog, ack, bell, checks>>
  BY DEF StageHelper, updateRest
<1>2. TrayInv' /\ Honest'
  BY <1>1, TrayStays, HonestStays DEF Inv, mainVars, workerVars
<1>3. MainTypes'
  BY <1>1 DEF Inv, MainTypes, StageHelper, mainVars, workerVars
<1>4. UpdateTypes' /\ Gate' /\ Owned'
  <2>1. UNCHANGED <<at, launched, slot, late, checks>> /\ ~slot /\ at # "launch"
    BY <1>1 DEF Inv, Owned, Handed, StageHelper, mainVars
  <2>2. CASE update' = "download" /\ temp' = temp \cup {"helper"} /\ UNCHANGED busy
    <3>1. UpdateTypes'
      BY <2>1, <2>2 DEF Inv, UpdateTypes, Staged, StageHelper
    <3>2. Gate'
      BY <2>1, <2>2 DEF Inv, Gate, StageHelper
    <3>3. Owned'
      BY <2>1, <2>2 DEF Inv, Owned, Handed, Staged, StageHelper
    <3> QED
      BY <3>1, <3>2, <3>3
  <2>3. CASE update' = "none" /\ busy' = FALSE /\ temp' = {}
    <3>1. UpdateTypes'
      BY <2>1, <2>3 DEF Inv, UpdateTypes
    <3>2. Gate'
      BY <2>1, <2>3 DEF Gate
    <3>3. Owned'
      BY <2>1, <2>3 DEF Inv, Owned, Handed
    <3> QED
      BY <3>1, <3>2, <3>3
  <2> QED
    BY <2>2, <2>3 DEF Inv, Owned, StageHelper, UpdateEnds, Staged
<1>5. Early'
  BY <1>1 DEF Inv, Early, UpdateTypes, StageHelper, UpdateEnds, trayVars, mainVars
<1> QED
  BY <1>2, <1>3, <1>4, <1>5 DEF Inv

LEMMA DownloadKeeps ==
    ASSUME Inv, Download
    PROVE  Inv'
<1>1. UNCHANGED <<trayVars, mainVars, workerVars, dog, ack, bell, checks>>
  BY DEF Download, updateRest
<1>2. TrayInv' /\ Honest'
  BY <1>1, TrayStays, HonestStays DEF Inv, mainVars, workerVars
<1>3. MainTypes'
  BY <1>1 DEF Inv, MainTypes, Download, mainVars, workerVars
<1>4. UpdateTypes' /\ Gate' /\ Owned'
  <2>1. UNCHANGED <<at, launched, slot, late, checks>> /\ ~slot /\ at # "launch"
    BY <1>1 DEF Inv, Owned, Handed, Download, mainVars
  <2>2. CASE update' = "store" /\ temp' = temp \cup {"replacement"} /\ UNCHANGED busy
    <3>1. UpdateTypes'
      BY <2>1, <2>2 DEF Inv, UpdateTypes, Staged, Download
    <3>2. Gate'
      BY <2>1, <2>2 DEF Inv, Gate, Download
    <3>3. Owned'
      BY <2>1, <2>2 DEF Inv, Owned, Handed, Staged, Download
    <3> QED
      BY <3>1, <3>2, <3>3
  <2>3. CASE update' = "none" /\ busy' = FALSE /\ temp' = {}
    <3>1. UpdateTypes'
      BY <2>1, <2>3 DEF Inv, UpdateTypes
    <3>2. Gate'
      BY <2>1, <2>3 DEF Gate
    <3>3. Owned'
      BY <2>1, <2>3 DEF Inv, Owned, Handed
    <3> QED
      BY <3>1, <3>2, <3>3
  <2> QED
    BY <2>2, <2>3 DEF Inv, Owned, Download, UpdateEnds, Staged
<1>5. Early'
  BY <1>1 DEF Inv, Early, UpdateTypes, Download, UpdateEnds, trayVars, mainVars
<1> QED
  BY <1>2, <1>3, <1>4, <1>5 DEF Inv

LEMMA StoreUpdateKeeps ==
    ASSUME Inv, StoreUpdate
    PROVE  Inv'
<1>1. UNCHANGED <<trayVars, mainVars, workerVars, dog, ack, bell, checks>>
  BY DEF StoreUpdate, updateRest
<1>2. TrayInv' /\ Honest'
  BY <1>1, TrayStays, HonestStays DEF Inv, mainVars, workerVars
<1>3. MainTypes'
  BY <1>1 DEF Inv, MainTypes, StoreUpdate, mainVars, workerVars
<1>4. UpdateTypes' /\ Gate' /\ Owned'
  BY <1>1 DEF Inv, MainTypes, UpdateTypes, Gate, Owned, Handed, Staged, StoreUpdate, Running, mainVars
<1>5. Early'
  BY <1>1 DEF Inv, Early, UpdateTypes, StoreUpdate, Running, trayVars, mainVars
<1> QED
  BY <1>2, <1>3, <1>4, <1>5 DEF Inv

LEMMA UpdateStopsKeeps ==
    ASSUME Inv, UpdateStops
    PROVE  Inv'
<1>1. UNCHANGED <<trayVars, mainVars, workerVars, dog, ack, bell, checks>>
  BY DEF UpdateStops, updateRest
<1>2. TrayInv' /\ Honest'
  BY <1>1, TrayStays, HonestStays DEF Inv, mainVars, workerVars
<1>3. MainTypes'
  BY <1>1 DEF Inv, MainTypes, UpdateStops, mainVars, workerVars
<1>4. UpdateTypes' /\ Gate' /\ Owned'
  BY <1>1 DEF Inv, MainTypes, UpdateTypes, Gate, Owned, Handed, Staged, UpdateStops, mainVars
<1>5. Early'
  BY <1>1 DEF Inv, Early, UpdateTypes, UpdateStops, trayVars, mainVars
<1> QED
  BY <1>2, <1>3, <1>4, <1>5 DEF Inv

LEMMA UpdateQuitsKeeps ==
    ASSUME Inv, UpdateQuits
    PROVE  Inv'
<1>1. UNCHANGED <<mainVars, stopping, workerVars, dog, ack, bell, busy, slot, temp, late, checks>>
  BY DEF UpdateQuits
<1>2. UNCHANGED <<host, running, pending>>
  BY DEF UpdateQuits, Post, trayVars
<1>3. TrayInv'
  BY TrayStays, PostTray DEF Inv, UpdateQuits, Messages
<1>4. MainTypes' /\ Honest'
  BY <1>1 DEF Inv, MainTypes, Honest, mainVars, workerVars
<1>5. UpdateTypes' /\ Gate' /\ Owned'
  <2>1. update = "quit" /\ update' = "none"
    BY DEF UpdateQuits
  <2>2. UpdateTypes'
    BY <1>1, <2>1 DEF Inv, UpdateTypes
  <2>3. Gate'
    BY <1>1, <2>1 DEF Inv, Gate, Owned, mainVars
  <2>4. Owned'
    BY <1>1, <2>1 DEF Inv, MainTypes, Owned, Handed, mainVars
  <2> QED
    BY <2>2, <2>3, <2>4
<1>6. Early'
  BY <1>1, <1>2 DEF Inv, Early, UpdateQuits, mainVars
<1> QED
  BY <1>3, <1>4, <1>5, <1>6 DEF Inv

----------------------------------------------------------------------------
(* The theorems.                                                           *)

LEMMA InvInit == Init => Inv
<1> SUFFICES ASSUME Init PROVE Inv
  OBVIOUS
<1> USE TrayBounds, LifecycleBounds
<1>1. TrayInv
  <2>1. troubles \in 0 .. Troubles
    BY DEF Init, TrayInit
  <2> QED
    BY <2>1 DEF Init, TrayInit, TrayInv, TrayTypes, IconKnown, DialogOpen, Hosts
<1>2. MainTypes /\ UpdateTypes
  <2>1. checks \in 0 .. Checks
    BY DEF Init
  <2>2. MainTypes
    BY Zenon DEF Init, MainTypes
  <2>3. UpdateTypes
    BY <2>1 DEF Init, UpdateTypes
  <2> QED
    BY <2>2, <2>3
<1>3. Gate /\ Early /\ Owned /\ Honest
  BY DEF Init, TrayInit, Gate, Early, Owned, Handed, Honest
<1> QED
  BY <1>1, <1>2, <1>3 DEF Inv

LEMMA InvStep == Inv /\ [Next]_vars => Inv'
<1> SUFFICES ASSUME Inv, [Next]_vars PROVE Inv'
  OBVIOUS
<1>1. CASE Main
  BY <1>1, StartUpKeeps, TrayStepKeeps, TrayReadyKeeps, RunCheckKeeps, StopWorkerKeeps,
     JoinWorkerKeeps, JoinTimesOutKeeps, TakeSlotKeeps, LaunchKeeps, ProcessEndsKeeps DEF Main
<1>2. CASE WorkerReady \/ WorkerEnds \/ WorkerDies
  BY <1>2, WorkerKeeps
<1>3. CASE Watchdog \/ AckWaits \/ AckWrites
  BY <1>3, WatchersKeep
<1>4. CASE Update \/ UpdateChecks
  BY <1>4, UpdateChecksKeeps, StageHelperKeeps, DownloadKeeps, StoreUpdateKeeps,
     UpdateStopsKeeps, UpdateQuitsKeeps DEF Update
<1>5. CASE BellRings \/ BellEnds
  BY <1>5, BellKeeps
<1>6. CASE ExitAsked \/ CheckAsked \/ DialogClosed \/ ShellDies \/ ShellReturns
  BY <1>6, DesktopKeeps
<1>7. CASE UNCHANGED vars
  <2>1. UNCHANGED <<trayVars, mainVars, stopping, workerVars, dog, ack, updateVars, bell>>
    BY <1>7 DEF vars
  <2>2. TrayInv' /\ UpdateTypes' /\ Gate' /\ Owned' /\ Honest'
    BY <2>1, TrayStays, FilesStay, HonestStays DEF Inv, mainVars, workerVars
  <2>3. MainTypes'
    BY <2>1 DEF Inv, MainTypes, mainVars, workerVars
  <2>4. Early'
    BY <2>1, EarlyStays DEF Inv, trayVars, mainVars, updateVars
  <2> QED
    BY <2>2, <2>3, <2>4 DEF Inv
<1> QED
  BY <1>1, <1>2, <1>3, <1>4, <1>5, <1>6, <1>7 DEF Next

LEMMA InvAlways == Spec => []Inv
  BY InvInit, InvStep, PTL DEF Spec

\* Type correctness of all threads, with what the icon shows against what the tray
\* believes, and the update gate, closed exactly while an update is under way
\* (TrayHost, SharedFlags, UPDATE_IN_PROGRESS).
THEOREM LifecycleTypes == Spec => []TypeOK
<1>1. Inv => TypeOK
  <2> SUFFICES ASSUME Inv PROVE TypeOK
    OBVIOUS
  <2>1. TrayTypeOK
    BY DEF Inv, TrayInv, TrayTypes, IconKnown, DialogOpen, TrayTypeOK
  <2>2. {stopping, held, ready, busy, slot, late, launched} \subseteq BOOLEAN
    BY DEF Inv, MainTypes, UpdateTypes
  <2> QED
    BY <2>1, <2>2 DEF Inv, MainTypes, UpdateTypes, Gate, Owned, TypeOK
<1> QED
  BY <1>1, InvAlways, PTL

\* However exit, download and deaths of threads interleave: when the process is over,
\* staged files are there only for a started helper, or because the update thread was
\* cut off or late (prepare_update, discard_staged, run_with_args).
THEOREM StagedFilesOwned == Spec => []NoStagedLeftBehind
<1>1. Inv => NoStagedLeftBehind
  BY DEF Inv, Owned, Handed, NoStagedLeftBehind
<1> QED
  BY <1>1, InvAlways, PTL

\* Exit code 0 only after the worker gave all windows back, and never with an update
\* left in the slot that main could have seen (run_with_args, join_with_timeout).
THEOREM ExitCodeIsHonest == Spec => []ExitCodeHonest
<1>1. Inv => ExitCodeHonest
  BY DEF Inv, Honest, Owned, MainTypes, ExitCodeHonest
<1> QED
  BY <1>1, InvAlways, PTL

----------------------------------------------------------------------------
(* How far the process is from its end once its message loop has ended.    *)

Leaving == host \in {"quit", "closed", "failed"}

\* What the main thread still goes through; at first a command may be about to open a
\* dialog, or have one open that WM_QUIT closes.
ToGo ==
    CASE at = "over"   -> 0
      [] at = "leave"  -> 1
      [] at = "launch" -> 2
      [] at = "take"   -> 3
      [] at = "join"   -> 4
      [] at \in {"start", "tray"} /\ host # "quit"                              -> 5
      [] at \in {"start", "tray"} /\ host = "quit" /\ running = {}              -> 6
      [] at \in {"start", "tray"} /\ host = "quit" /\ running # {} /\ modal     -> 7
      [] at \in {"start", "tray"} /\ host = "quit" /\ running # {} /\ ~modal    -> 8

\* A loop that has ended leaves no command behind.
Finished == host = "closed" => running = {}

LEMMA FinishedStep ==
    ASSUME Finished, [Next]_vars
    PROVE  Finished'
<1> USE DEF Finished
<1>1. CASE UNCHANGED <<host, running>>
  BY <1>1
<1>2. CASE TrayStep
  BY <1>2 DEF TrayStep, CreateWindow, DispatchCheck, DispatchExit, DispatchTaskbar, RetryTimer,
         StatusTimer, Pumps, CloseDialog, LoopEnds
<1>3. CASE BellRings \/ BellEnds \/ ExitAsked \/ CheckAsked \/ DialogClosed \/ ShellDies \/ ShellReturns
  BY <1>3 DEF BellRings, BellEnds, ExitAsked, CheckAsked, DialogClosed, CloseDialog, ShellDies,
         ShellReturns, ExplorerDies, ExplorerStarts, Post, trayVars
<1>4. CASE Update \/ UpdateChecks
  BY <1>4 DEF Update, UpdateChecks, StageHelper, Download, StoreUpdate, UpdateStops,
         UpdateQuits, Post, trayVars, updateRest
<1>5. CASE WorkerReady \/ WorkerEnds \/ WorkerDies \/ Watchdog \/ AckWaits \/ AckWrites
  BY <1>1, <1>5 DEF WorkerReady, WorkerEnds, WorkerDies, Watchdog, WatchdogLooks,
         WatchdogReports, AckWaits, AckWrites, envVars, ackRest, trayVars
<1>6. CASE Main /\ ~TrayStep
  BY <1>1, <1>6 DEF Main, StartUp, TrayReady, EnterLoop, RunCheck, StopWorker, JoinWorker,
         JoinTimesOut, AfterJoin, TakeSlot, Launch, ProcessEnds, trayVars
<1>7. CASE UNCHANGED vars
  BY <1>1, <1>7 DEF vars, trayVars
<1> QED
  BY <1>2, <1>3, <1>4, <1>5, <1>6, <1>7 DEF Next

LEMMA FinishedAlways == Spec => []Finished
<1>1. Init => Finished
  BY DEF Init, TrayInit, Finished
<1> QED
  BY <1>1, FinishedStep, PTL DEF Spec

LEMMA MainGoesOn ==
    ASSUME Inv, Finished, Leaving, Main
    PROVE  Leaving' /\ ToGo' < ToGo
<1> USE DEF Leaving, ToGo
<1>1. at # "start" /\ (modal => running # {})
  BY DEF Inv, Early, TrayInv, DialogOpen
<1>2. CASE StartUp \/ TrayReady
  BY <1>1, <1>2 DEF StartUp, TrayReady, EnterLoop
<1>3. CASE TrayStep
  <2>1. \/ CloseDialog /\ host = "quit" /\ UNCHANGED at
        \/ LoopEnds /\ UNCHANGED at
    BY <1>3 DEF TrayStep, CreateWindow, DispatchCheck, DispatchExit, DispatchTaskbar, RetryTimer,
           StatusTimer, Pumps, otherVars, mainVars
  <2>2. at = "tray"
    BY <1>3 DEF TrayStep
  <2> QED
    BY <1>1, <2>1, <2>2 DEF CloseDialog, LoopEnds
<1>4. CASE RunCheck
  <2>1. at = "tray" /\ host = "quit" /\ running # {} /\ ~modal
    BY <1>1, <1>4 DEF RunCheck, Finished, Inv, Early
  <2>2. UNCHANGED <<at, host>> /\ (running' = {} \/ (running' = running /\ modal'))
    BY <1>4 DEF RunCheck, mainVars
  <2> QED
    BY <2>1, <2>2
<1>5. CASE StopWorker
  BY <1>5 DEF StopWorker, trayVars
<1>6. CASE JoinWorker \/ JoinTimesOut
  BY <1>6 DEF JoinWorker, JoinTimesOut, AfterJoin, Return, trayVars
<1>7. CASE TakeSlot
  BY <1>7 DEF TakeSlot, Return, trayVars
<1>8. CASE Launch
  BY <1>8 DEF Launch, Return, trayVars
<1>9. CASE ProcessEnds
  BY <1>9 DEF ProcessEnds, trayVars
<1> QED
  BY <1>2, <1>3, <1>4, <1>5, <1>6, <1>7, <1>8, <1>9 DEF Main

LEMMA OthersLetGo ==
    ASSUME Inv, Leaving, [Next]_vars, ~Main
    PROVE  Leaving' /\ ToGo' <= ToGo
<1> USE DEF Leaving
<1>0. /\ at \in {"start", "tray", "join", "take", "launch", "leave", "over"}
      /\ modal \in BOOLEAN /\ (modal => running # {})
  BY DEF Inv, MainTypes, TrayInv, TrayTypes, DialogOpen
<1>1. CASE DialogClosed
  <2>1. UNCHANGED <<at, host>> /\ modal /\ ~modal' /\ running' = {}
    BY <1>1 DEF DialogClosed, CloseDialog, mainVars
  <2> QED
    BY <1>0, <2>1 DEF ToGo
<1>2. CASE UNCHANGED <<at, host, running, modal>>
  <2>1. ToGo \in Nat
    BY <1>0 DEF ToGo
  <2>2. ToGo' = ToGo
    BY <1>2 DEF ToGo
  <2> QED
    BY <1>2, <2>1, <2>2
<1>3. CASE BellRings \/ BellEnds \/ ExitAsked \/ CheckAsked \/ ShellDies \/ ShellReturns
  BY <1>2, <1>3 DEF BellRings, BellEnds, ExitAsked, CheckAsked, ShellDies, ShellReturns, Post,
         trayVars, mainVars, bellRest, shellRest
<1>4. CASE Update \/ UpdateChecks
  BY <1>2, <1>4 DEF Update, UpdateChecks, StageHelper, Download, StoreUpdate, UpdateStops,
         UpdateQuits, Post, trayVars, mainVars, updateRest
<1>5. CASE WorkerReady \/ WorkerEnds \/ WorkerDies \/ Watchdog \/ AckWaits \/ AckWrites
  BY <1>2, <1>5 DEF WorkerReady, WorkerEnds, WorkerDies, Watchdog, WatchdogLooks,
         WatchdogReports, AckWaits, AckWrites, envVars, ackRest, trayVars, mainVars
<1>6. CASE UNCHANGED vars
  BY <1>2, <1>6 DEF vars, trayVars, mainVars
<1> QED
  BY <1>1, <1>3, <1>4, <1>5, <1>6 DEF Next

\* A request in the queue stays there until the loop dispatches it.
LEMMA ExitStaysPosted ==
    ASSUME "exit" \in posted, [Next]_vars
    PROVE  "exit" \in posted' \/ Leaving'
<1> DEFINE Goal == "exit" \in posted' \/ Leaving'
<1>1. CASE UNCHANGED posted
  BY <1>1
<1>2. CASE TrayStep
  BY <1>2 DEF TrayStep, CreateWindow, DispatchCheck, DispatchExit, DispatchTaskbar, RetryTimer,
         StatusTimer, CloseDialog, LoopEnds, Leaving
<1>3. CASE BellRings \/ BellEnds \/ ExitAsked \/ CheckAsked \/ DialogClosed \/ ShellDies \/ ShellReturns
  BY <1>3 DEF BellRings, BellEnds, ExitAsked, CheckAsked, DialogClosed, CloseDialog, ShellDies,
         ShellReturns, ExplorerDies, ExplorerStarts, Post, trayVars
<1>4. CASE Update \/ UpdateChecks
  BY <1>4 DEF Update, UpdateChecks, StageHelper, Download, StoreUpdate, UpdateStops,
         UpdateQuits, Post, trayVars, updateRest
<1>5. CASE WorkerReady \/ WorkerEnds \/ WorkerDies \/ Watchdog \/ AckWaits \/ AckWrites
  BY <1>1, <1>5 DEF WorkerReady, WorkerEnds, WorkerDies, Watchdog, WatchdogLooks,
         WatchdogReports, AckWaits, AckWrites, envVars, ackRest, trayVars
<1>6. CASE Main /\ ~TrayStep
  BY <1>1, <1>6 DEF Main, StartUp, TrayReady, EnterLoop, RunCheck, StopWorker, JoinWorker,
         JoinTimesOut, AfterJoin, TakeSlot, Launch, ProcessEnds, trayVars
<1>7. CASE UNCHANGED vars
  BY <1>1, <1>7 DEF vars, trayVars
<1> QED
  BY <1>2, <1>3, <1>4, <1>5, <1>6, <1>7 DEF Next

\* What ExitHappens rests on: a request to exit is never lost, and from the end of the
\* message loop on each step of the main thread brings the end of the process closer,
\* while no dialog, update or worker sets it back (the WM_QUIT that DestroyWindow posts
\* ends a dialog's loop first; run_with_args takes each of its last steps once).
THEOREM ExitIsWorkedOff ==
    Spec => [][ /\ "exit" \in posted => "exit" \in posted' \/ Leaving'
                /\ Leaving => Leaving' /\ (Main => ToGo' < ToGo) /\ (~Main => ToGo' <= ToGo) ]_vars
<1> QED
  BY InvAlways, FinishedAlways, MainGoesOn, OthersLetGo, ExitStaysPosted, PTL DEF Spec

=============================================================================
