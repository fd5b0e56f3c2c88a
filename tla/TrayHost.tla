----------------------------- MODULE TrayHost -----------------------------
(***************************************************************************)
(* The tray window of kakao-win32/tray: created on the main thread, its    *)
(* icon registered with the shell, lost when Explorer dies and registered  *)
(* again on TaskbarCreated or by a retry timer; messages and menu commands *)
(* run one by one, unless a dialog that a command opened pumps messages    *)
(* inside it.  What a command does beyond the tray is the business of the  *)
(* module that empties "running".                                          *)
(***************************************************************************)
EXTENDS Naturals

CONSTANTS
    Troubles        \* bound: how often Explorer dies or refuses an icon

ASSUME TrayBounds == Troubles \in Nat

VARIABLES
    host,       \* where the tray thread is
    hwnd,       \* TRAY_HWND is set
    shell,      \* Explorer and its notification area are there
    icon,       \* the shell shows the icon
    added,      \* TrayHost.icon_added
    timer,      \* the retry timer runs
    helpless,   \* that timer could once not be set
    posted,     \* messages in the window's queue
    pending,    \* TrayHost.pending
    running,    \* the commands that were drained and are being run
    modal,      \* a command has a dialog open that pumps messages
    troubles

trayVars == <<host, hwnd, shell, icon, added, timer, helpless, posted, pending, running,
              modal, troubles>>

Hosts    == {"off", "wait", "add", "loop", "quit", "closed", "failed"}
Messages == {"exit", "check", "taskbar"}    \* WM_COMMAND twice, TaskbarCreated
Commands == {"check"}                       \* Exit is queued as well and does nothing

WindowExists == host \in {"add", "loop"}

TrayInit ==
    /\ host = "off" /\ hwnd = FALSE /\ shell = FALSE
    /\ icon = FALSE /\ added = FALSE /\ timer = FALSE /\ helpless = FALSE
    /\ posted = {} /\ pending = {} /\ running = {} /\ modal = FALSE
    /\ troubles = 0

\* With what is shown and what the host believes: a missing icon is known to the
\* host, or Explorer is away or has just announced that it is back.
TrayTypeOK ==
    /\ host \in Hosts
    /\ {hwnd, shell, icon, added, timer, helpless, modal} \subseteq BOOLEAN
    /\ posted \subseteq Messages /\ pending \subseteq Commands /\ running \subseteq Commands
    /\ modal => running # {}
    /\ troubles \in 0 .. Troubles
    /\ icon => shell
    /\ hwnd <=> host = "loop"
    /\ timer => host = "loop" /\ ~added
    /\ host = "loop" /\ added /\ ~icon => ~shell \/ "taskbar" \in posted
    /\ host = "loop" /\ ~added => timer \/ helpless

Trouble == troubles < Troubles /\ troubles' = troubles + 1

\* Shell_NotifyIconW(NIM_ADD)
NotifyAdd(ok) ==
    \/ ok /\ shell /\ icon' = TRUE /\ UNCHANGED troubles
    \/ ~ok /\ icon' = FALSE /\ IF shell THEN Trouble ELSE UNCHANGED troubles

\* Mutant: a failed registration does not start the timer.
ReconcileNoTimer(ok) ==
    /\ added' = ok /\ timer' = FALSE /\ helpless' = helpless

\* reconcile_registration: without an icon a timer tries again every two seconds.
Reconcile(ok) ==
    /\ added' = ok
    /\ \/ ok /\ timer' = FALSE /\ UNCHANGED helpless
       \/ ~ok /\ timer' = TRUE /\ UNCHANGED helpless
       \/ ~ok /\ timer' = timer /\ helpless' = TRUE

----------------------------------------------------------------------------
(* run_loop_inner up to its loop.                                          *)

\* The shell shows up twice in a row, or fifteen seconds are over; then there is a
\* window, which other processes can find.
CreateWindow ==
    /\ host = "wait" /\ host' \in {"add", "failed"}
    /\ UNCHANGED <<hwnd, shell, icon, added, timer, helpless, posted, pending, running,
                   modal, troubles>>

\* After up to seven attempts in eight seconds the loop begins, with the icon or
\* without.
EnterLoop ==
    /\ host = "add" /\ host' = "loop" /\ hwnd' = TRUE
    /\ \E ok \in BOOLEAN : NotifyAdd(ok) /\ Reconcile(ok)
    /\ UNCHANGED <<shell, posted, pending, running, modal>>

----------------------------------------------------------------------------
(* The message loop.                                                       *)

\* The loop takes the next message when the commands of the last are done, or
\* a dialog takes it in its place.
Pumps == host = "loop" /\ (modal \/ running = {})

\* After a message the list is drained, but not inside a dialog.
Drain(commands) ==
    /\ IF modal THEN pending' = pending \cup commands /\ UNCHANGED running
                ELSE pending' = {} /\ running' = pending \cup commands
    /\ UNCHANGED modal

\* WM_COMMAND of the menu item "check for updates"
DispatchCheck ==
    /\ Pumps /\ "check" \in posted /\ posted' = posted \ {"check"}
    /\ Drain({"check"})
    /\ UNCHANGED <<host, hwnd, shell, icon, added, timer, helpless, troubles>>

\* WM_COMMAND Exit: DestroyWindow sends WM_DESTROY, which ends the timers and
\* the icon and posts WM_QUIT.
DispatchExit ==
    /\ Pumps /\ "exit" \in posted /\ posted' = {}
    /\ host' = "quit" /\ hwnd' = FALSE /\ timer' = FALSE /\ icon' = FALSE /\ added' = FALSE
    /\ Drain({})
    /\ UNCHANGED <<shell, helpless, troubles>>

DispatchTaskbar ==
    /\ Pumps /\ "taskbar" \in posted /\ posted' = posted \ {"taskbar"}
    /\ \E ok \in BOOLEAN : NotifyAdd(ok) /\ Reconcile(ok)
    /\ Drain({})
    /\ UNCHANGED <<host, hwnd, shell>>

RetryTimer ==
    /\ Pumps /\ timer /\ ~added
    /\ \E ok \in BOOLEAN : NotifyAdd(ok) /\ Reconcile(ok)
    /\ Drain({})
    /\ UNCHANGED <<host, hwnd, shell, posted>>

\* Once a second: commands that a dialog left in the list are run.
StatusTimer ==
    /\ Pumps /\ pending # {} /\ ~modal
    /\ Drain({})
    /\ UNCHANGED <<host, hwnd, shell, icon, added, timer, helpless, posted, troubles>>

\* The user closes the dialog, or WM_QUIT does: the command is over.
CloseDialog ==
    /\ modal /\ modal' = FALSE /\ running' = {}
    /\ UNCHANGED <<host, hwnd, shell, icon, added, timer, helpless, posted, pending,
                   troubles>>

\* GetMessage returns WM_QUIT; commands still in the list are dropped.
LoopEnds ==
    /\ host = "quit" /\ running = {} /\ host' = "closed" /\ pending' = {}
    /\ UNCHANGED <<hwnd, shell, icon, added, timer, helpless, posted, running, modal,
                   troubles>>

----------------------------------------------------------------------------
(* The rest of the desktop.                                                *)

\* request_exit and request_existing_exit, and the menu: a message is posted.
Post(message) ==
    /\ posted' = posted \cup {message}
    /\ UNCHANGED <<host, hwnd, shell, icon, added, timer, helpless, pending, running,
                   modal, troubles>>

ExplorerDies ==
    /\ shell /\ Trouble
    /\ shell' = FALSE /\ icon' = FALSE
    /\ UNCHANGED <<host, hwnd, added, timer, helpless, posted, pending, running, modal>>

\* Explorer is back and tells every window.
ExplorerStarts ==
    /\ ~shell /\ shell' = TRUE
    /\ posted' = IF WindowExists THEN posted \cup {"taskbar"} ELSE posted
    /\ UNCHANGED <<host, hwnd, icon, added, timer, helpless, pending, running, modal, troubles>>

----------------------------------------------------------------------------
\* A tray that runs shows its icon again, however often Explorer dies or refuses
\* it.  It says nothing of a tray for which Windows once had no timer left: the code notes
\* that in the tooltip of the icon that is missing
\* (reconcile_registration, WM_TIMER, TaskbarCreated).
IconComesBack == host = "loop" ~> icon \/ helpless \/ host # "loop"
=============================================================================
