---------------------------- MODULE UpdateHelper ----------------------------
(***************************************************************************)
(* kakao-updater: the process that replaces the installed program after    *)
(* the app has started it and is on its way out, launches the new version, *)
(* and puts the old one back when the new one does not get ready.  One     *)
(* action per file operation or process event; the helper may die between  *)
(* any two of them, every file operation may fail, and the user may start  *)
(* and end the app at any time.                                            *)
(*                                                                         *)
(* A file's content is the version it holds, a copy that is not finished,  *)
(* or bytes that are no released version.  A digest matches exactly the    *)
(* version it was taken of.  Renames are atomic, and a program that runs   *)
(* from a file keeps the file from being replaced, as Windows has it.      *)
(***************************************************************************)
EXTENDS Naturals

CONSTANTS
    Versions,   \* versions 1 .. Versions exist
    Broken,     \* those that start but get neither ready nor to an update of theirs
    Runs,       \* bound: how often a helper is started
    Faults,     \* bound: how many operations fail
    Crashes     \* bound: how often the helper dies

Version == 1 .. Versions

ASSUME VersionsAssumption == Versions \in Nat \ {0}
ASSUME BrokenAssumption   == Broken \subseteq Version
ASSUME BoundsAssumption   == Runs \in Nat /\ Faults \in Nat /\ Crashes \in Nat

NoFile  == 0
Partial == Versions + 1
Altered == Versions + 2
Content == Version \cup {NoFile, Partial, Altered}
NoApp   == 0

VARIABLES
    current, backup,    \* the installed executable and its .exe.old
    download,           \* the staged replacement in the temporary folder
    local,              \* .kakao-install-*.tmp, the copy that will be installed
    saved,              \* .kakao-install-*.tmp, the copy that will be the backup
    pc,                 \* where the helper is, "idle" when none runs
    mode,               \* "update" or "recover"
    target,             \* the version whose digest was passed with --sha256
    late,               \* the wait for the app ran out of time
    said,               \* what the last helper told the user
    app,                \* the version of the app that runs, NoApp when none does
    waited,             \* that app is the one the helper waits for
    child,              \* the app that the helper launched and watches
    runs, faults, crashes,
    proven              \* history: versions that worked on this machine

fileVars == <<current, backup, download, local, saved>>
helperVars == <<pc, mode, target, late, said>>
appVars == <<app, waited, child>>
countVars == <<runs, faults, crashes>>
vars == <<fileVars, helperVars, appVars, countVars, proven>>

\* Installed and running, or left by an older helper with the only copy in the backup.
Init ==
    /\ \/ current \in Version \ Broken /\ backup = NoFile /\ app = current
       \/ current = NoFile /\ backup \in Version \ Broken /\ app = NoApp
    /\ proven = {current, backup} \ {NoFile}
    /\ download = NoFile /\ local = NoFile /\ saved = NoFile
    /\ pc = "idle" /\ mode = "update" /\ target = 1 /\ late = FALSE /\ said = "nothing"
    /\ waited = FALSE /\ child = "none"
    /\ runs = 0 /\ faults = 0 /\ crashes = 0

Fault == faults < Faults /\ faults' = faults + 1 /\ UNCHANGED <<runs, crashes>>

----------------------------------------------------------------------------
(* The user, the app and the machine.                                      *)

UserStartsApp ==
    /\ app = NoApp /\ current \in Version
    /\ app' = current /\ waited' = FALSE
    /\ proven' = IF current \in Broken THEN proven ELSE proven \cup {current}
    /\ UNCHANGED <<fileVars, helperVars, child, countVars>>

AppEnds ==
    /\ app # NoApp
    /\ app' = NoApp /\ waited' = FALSE
    /\ child' = IF child = "none" THEN "none" ELSE "gone"
    /\ UNCHANGED <<fileVars, helperVars, countVars, proven>>

\* The readiness thread of the launched app writes the file it was given, ...
AppAcknowledges ==
    /\ child = "starting" /\ app \notin Broken
    /\ child' = "acknowledged" /\ proven' = proven \cup {app}
    /\ UNCHANGED <<fileVars, helperVars, app, waited, countVars>>

\* ... or gives up after five seconds; the app itself may get ready later.
AppGivesUp ==
    /\ child = "starting"
    /\ child' = "silent"
    /\ UNCHANGED <<fileVars, helperVars, app, waited, countVars, proven>>

AppReadyLate ==
    /\ child = "silent" /\ app \notin Broken /\ app \notin proven
    /\ proven' = proven \cup {app}
    /\ UNCHANGED <<fileVars, helperVars, appVars, countVars>>

\* The staged file lies in the temporary folder: somebody changes or removes it.
DownloadChanges ==
    /\ pc # "idle" /\ download # NoFile
    /\ download' \in {NoFile, Altered} \ {download}
    /\ Fault
    /\ UNCHANGED <<current, backup, local, saved, helperVars, appVars, proven>>

\* The helper dies, alone or together with the app; temporary files stay where
\* they are and no later run looks at them.
Crash ==
    /\ pc # "idle" /\ crashes < Crashes
    /\ crashes' = crashes + 1
    /\ pc' = "idle" /\ local' = NoFile /\ saved' = NoFile
    /\ child' = "none" /\ waited' = FALSE /\ app' \in {app, NoApp}
    /\ UNCHANGED <<current, backup, download, mode, target, late, said, runs, faults, proven>>

----------------------------------------------------------------------------
(* Start of a helper.                                                      *)

Begin(how, next) ==
    /\ pc = "idle" /\ runs < Runs
    /\ runs' = runs + 1
    /\ pc' = next /\ mode' = how
    /\ late' = FALSE /\ said' = "nothing" /\ child' = "none"
    /\ UNCHANGED <<faults, crashes, current, backup, local, saved, app>>

\* A working app has downloaded and checked the latest version, starts the helper and
\* ends; it has shown that it works.  With no installed file left, the helper is run by hand.
StartUpdate ==
    /\ Begin("update", "wait")
    /\ \/ app \in Version \ Broken /\ target' \in app + 1 .. Versions
          /\ waited' = TRUE /\ proven' = proven \cup {app}
       \/ /\ current = NoFile /\ app = NoApp
          /\ target' \in backup + 1 .. Versions /\ UNCHANGED <<waited, proven>>
    /\ download' = target'

\* The helper run without arguments: restore the backup; nobody is waited for.
StartRecovery ==
    /\ Begin("recover", "restore")
    /\ UNCHANGED <<target, waited, download, proven>>

----------------------------------------------------------------------------
(* update_executable_with.                                                 *)

\* An error ends the update; the temporary files are dropped on the way out.
Fail ==
    /\ pc' = "discard"
    /\ local' = NoFile /\ saved' = NoFile

Goto(label) == pc' = label /\ UNCHANGED <<mode, target, late, said>>

WaitForExit ==
    /\ pc = "wait"
    /\ \/ ~waited /\ pc' = "adopt" /\ UNCHANGED <<late, fileVars>>
       \/ waited /\ late' = TRUE /\ Fail /\ UNCHANGED <<current, backup, download>>
    /\ UNCHANGED <<mode, target, said, appVars, countVars, proven>>

\* Mutant: the backup is taken for the only copy although a version is installed.
AdoptAlways ==
    /\ pc = "adopt"
    /\ \/ backup = NoFile /\ Goto("verify") /\ UNCHANGED fileVars
       \/ /\ backup # NoFile /\ app = NoApp
          /\ current' = backup /\ backup' = NoFile
          /\ Goto("verify") /\ UNCHANGED <<download, local, saved>>
    /\ UNCHANGED <<appVars, countVars, proven>>

\* recover_interrupted_swap: a rename, when there is nothing but the backup.
AdoptBackup ==
    /\ pc = "adopt"
    /\ \/ /\ current # NoFile \/ backup = NoFile
          /\ Goto("verify") /\ UNCHANGED <<fileVars, countVars>>
       \/ /\ current = NoFile /\ backup # NoFile
          /\ current' = backup /\ backup' = NoFile
          /\ Goto("verify") /\ UNCHANGED <<download, local, saved, countVars>>
       \/ /\ current = NoFile /\ backup # NoFile
          /\ Fault /\ Fail
          /\ UNCHANGED <<mode, target, late, said, current, backup, download>>
    /\ UNCHANGED <<appVars, proven>>

\* Paths and the digest of the staged file; one that does not match is deleted.
Verify ==
    /\ pc = "verify"
    /\ \/ /\ current # NoFile /\ download = target
          /\ Goto("copy") /\ UNCHANGED <<fileVars>>
       \/ /\ current = NoFile \/ download # target
          /\ Fail
          /\ download' = IF current # NoFile THEN NoFile ELSE download
          /\ UNCHANGED <<mode, target, late, said, current, backup>>
    /\ UNCHANGED <<appVars, countVars, proven>>

\* synced_copy: the new file is there, empty, before its bytes are.
CopyBegins ==
    /\ \/ /\ pc = "copy" /\ download # NoFile /\ Goto("copying")
          /\ local' = Partial /\ UNCHANGED saved
       \/ /\ pc = "save" /\ Goto("saving")
          /\ saved' = Partial /\ UNCHANGED local
       \/ /\ pc = "restore" /\ backup # NoFile /\ Goto("restoring")
          /\ local' = Partial /\ UNCHANGED saved
    /\ UNCHANGED <<current, backup, download, appVars, countVars, proven>>

\* Mutant: only the staged file is checked, not the copy that gets installed.
TrustCopy == local # NoFile

\* The copy is what its digest says it must be.
CopyMatches == local = target

\* The file being copied was opened while it matched: its bytes can be read to the
\* end even when somebody replaces or removes it.
CopyEnds ==
    /\ \/ /\ pc = "copying" /\ Goto("check")
          /\ local' \in {target, download} \ {NoFile} /\ UNCHANGED saved
       \/ /\ pc = "saving" /\ Goto("publish")
          /\ saved' = current /\ UNCHANGED local
       \/ /\ pc = "restoring" /\ Goto("revert")
          /\ local' = backup /\ UNCHANGED saved
    /\ UNCHANGED <<current, backup, download, appVars, countVars, proven>>

CheckCopy ==
    /\ pc = "check"
    /\ \/ CopyMatches /\ Goto("save") /\ UNCHANGED <<local, saved>>
       \/ ~CopyMatches /\ Fail /\ UNCHANGED <<mode, target, late, said>>
    /\ UNCHANGED <<current, backup, download, appVars, countVars, proven>>

\* The source of a copy is gone, or the copy fails.
CopyFails ==
    /\ pc \in {"copy", "copying", "save", "saving"}
    /\ \/ pc = "copy" /\ download = NoFile /\ UNCHANGED countVars
       \/ Fault
    /\ Fail
    /\ UNCHANGED <<current, backup, download, mode, target, late, said, appVars, proven>>

\* commit, first rename: the complete backup is published ...
Publish ==
    /\ pc = "publish"
    /\ \/ backup' = saved /\ saved' = NoFile /\ Goto("swap") /\ UNCHANGED <<local, countVars>>
       \/ Fault /\ Fail /\ UNCHANGED <<backup, mode, target, late, said>>
    /\ UNCHANGED <<current, download, appVars, proven>>

\* Mutant: the backup is removed before the new version has shown that it works.
SwapDropsBackup ==
    /\ pc = "swap" /\ app = NoApp
    /\ current' = local /\ local' = NoFile /\ backup' = NoFile /\ Goto("launch")
    /\ UNCHANGED <<download, saved, appVars, countVars, proven>>

\* ... second rename: the new version takes the place of the installed one, unless
\* an app that was started meanwhile runs from it.
Swap ==
    /\ pc = "swap"
    /\ \/ /\ app = NoApp
          /\ current' = local /\ local' = NoFile /\ Goto("launch") /\ UNCHANGED <<saved, countVars>>
       \/ /\ app # NoApp
          /\ Fail /\ UNCHANGED <<current, mode, target, late, said, countVars>>
       \/ Fault /\ Fail /\ UNCHANGED <<current, mode, target, late, said>>
    /\ UNCHANGED <<backup, download, appVars, proven>>

----------------------------------------------------------------------------
(* launch_verified and what follows.                                       *)

\* A second instance ends at once, because the first one holds the mutex.
Launch ==
    /\ pc = "launch"
    /\ download' = NoFile
    /\ \/ /\ app = NoApp /\ app' = current /\ child' = "starting" /\ Goto("watch")
          /\ UNCHANGED <<waited, countVars>>
       \/ /\ app # NoApp /\ child' = "gone" /\ Goto("watch")
          /\ UNCHANGED <<app, waited, countVars>>
       \/ Fault /\ Goto("restore") /\ UNCHANGED appVars
    /\ UNCHANGED <<current, backup, local, saved, proven>>

\* The helper saw the acknowledgment and the app has lived on for 250 ms.
WatchSucceeds ==
    /\ pc = "watch" /\ child = "acknowledged"
    /\ Goto("cleanup")
    /\ UNCHANGED <<fileVars, appVars, countVars, proven>>

\* Mutant: there is no deadline for an app that does not answer.
WatchForever ==
    /\ pc = "watch" /\ child = "acknowledged"
    /\ app' = NoApp /\ child' = "gone"
    /\ Goto("restore")
    /\ UNCHANGED <<fileVars, waited, countVars, proven>>

\* After a minute the helper kills the app, an acknowledgment it has not yet acted
\* upon notwithstanding.
WatchTimesOut ==
    /\ pc = "watch" /\ child \in {"starting", "acknowledged", "silent"}
    /\ app' = NoApp /\ child' = "gone"
    /\ Goto("restore")
    /\ UNCHANGED <<fileVars, waited, countVars, proven>>

WatchSeesExit ==
    /\ pc = "watch" /\ child = "gone"
    /\ Goto("restore")
    /\ UNCHANGED <<fileVars, appVars, countVars, proven>>

\* restore_previous_version; in an update its end is the end of a failed update.
Restored(how) ==
    IF mode = "update" THEN pc' = "discard" /\ UNCHANGED said
    ELSE IF how = "done" THEN pc' = "relaunch" /\ UNCHANGED said
    ELSE pc' = "idle" /\ said' = "failed"

Revert ==
    /\ pc = "revert"
    /\ \/ app = NoApp /\ current' = local /\ Restored("done") /\ UNCHANGED countVars
       \/ app # NoApp /\ Restored("failed") /\ UNCHANGED <<current, countVars>>
       \/ Fault /\ Restored("failed") /\ UNCHANGED current
    /\ local' = NoFile
    /\ UNCHANGED <<backup, download, saved, mode, target, late, appVars, proven>>

RestoreFails ==
    /\ pc \in {"restore", "restoring"}
    /\ \/ backup = NoFile /\ UNCHANGED countVars
       \/ Fault
    /\ local' = NoFile /\ Restored("failed")
    /\ UNCHANGED <<current, backup, download, saved, mode, target, late, appVars, proven>>

\* The backup of a version that is not needed any more is removed if possible.
Cleanup ==
    /\ pc = "cleanup"
    /\ backup' \in {NoFile, backup}
    /\ pc' = "idle" /\ said' = "updated"
    /\ UNCHANGED <<current, download, local, saved, mode, target, late, appVars, countVars, proven>>

----------------------------------------------------------------------------
(* main, after an error.                                                   *)

Discard ==
    /\ pc = "discard"
    /\ download' = NoFile
    /\ IF late THEN pc' = "idle" /\ said' = "failed" ELSE pc' = "relaunch" /\ UNCHANGED said
    /\ UNCHANGED <<current, backup, local, saved, mode, target, late, appVars, countVars, proven>>

\* relaunch_previous: what is installed is started, whatever it is.
Relaunch ==
    /\ pc = "relaunch"
    /\ pc' = "idle"
    /\ \/ /\ current \in Version
          /\ said' = IF mode = "update" THEN "previous" ELSE "restored"
          /\ IF app = NoApp
             THEN /\ app' = current
                  /\ proven' = IF current \in Broken THEN proven ELSE proven \cup {current}
             ELSE UNCHANGED <<app, proven>>
          /\ UNCHANGED countVars
       \/ /\ \/ current \notin Version /\ UNCHANGED countVars
             \/ Fault
          /\ said' = "failed" /\ UNCHANGED <<app, proven>>
    /\ child' = "none"
    /\ UNCHANGED <<fileVars, mode, target, late, waited>>

Helper == \/ WaitForExit \/ AdoptBackup \/ Verify \/ CopyBegins \/ CopyEnds \/ CheckCopy
          \/ CopyFails \/ Publish \/ Swap \/ Launch \/ WatchSucceeds \/ WatchTimesOut
          \/ WatchSeesExit \/ Revert \/ RestoreFails \/ Cleanup \/ Discard \/ Relaunch

Environment == \/ UserStartsApp \/ AppEnds \/ AppAcknowledges \/ AppGivesUp \/ AppReadyLate
               \/ DownloadChanges \/ Crash \/ StartUpdate \/ StartRecovery

Next == Helper \/ Environment

Spec == Init /\ [][Next]_vars

\* Every wait of the helper has a deadline, and nothing else holds it up.
Fairness == WF_vars(Helper)
FairSpec == Spec /\ Fairness

----------------------------------------------------------------------------
(* Properties.                                                             *)

Steps == {"wait", "adopt", "verify", "copy", "copying", "check", "save", "saving", "publish",
          "swap", "launch", "watch", "cleanup", "restore", "restoring", "revert", "discard",
          "relaunch"}

\* Every variable holds a value of its kind.  What the app can be started from is a
\* whole version or missing; the copies are the helper's own and exist only in the
\* steps that make and use them.
TypeOK ==
    /\ current \in Version \cup {NoFile} /\ backup \in Version \cup {NoFile}
    /\ download \in Version \cup {NoFile, Altered}
    /\ local \in Content /\ saved \in Version \cup {NoFile, Partial}
    /\ local # NoFile =>
         pc \in {"copying", "check", "save", "saving", "publish", "swap", "restoring", "revert"}
    /\ saved # NoFile => pc \in {"saving", "publish"}
    /\ pc \in Steps \cup {"idle"} /\ mode \in {"update", "recover"}
    /\ target \in Version /\ late \in BOOLEAN
    /\ said \in {"nothing", "failed", "previous", "restored", "updated"}
    /\ app \in Version \cup {NoApp} /\ waited \in BOOLEAN
    /\ child \in {"none", "starting", "acknowledged", "silent", "gone"}
    /\ runs \in 0 .. Runs /\ faults \in 0 .. Faults /\ crashes \in 0 .. Crashes
    /\ proven \subseteq Version

\* Whatever fails and whenever the helper dies, a version that has worked on this
\* machine is installed or waits in the backup from which --recover brings it back
\* (transaction.rs: "A preparation/commit error leaves current intact and preserves
\* backups").
SomethingGood == current \in proven \/ backup \in proven

\* Once a program is installed the path never again shows no file, half a copy, or
\* bytes that were changed after the download had been checked; and while an app
\* runs from it, it is not replaced.
NeverHalfInstalled ==
    [][ /\ current \in Version => current' \in Version
        /\ current' # current => current' \in {target, backup} /\ app = NoApp ]_vars

\* The helper with its copies, failures and deaths does what InstalledVersion says.
Promise == INSTANCE InstalledVersion WITH
    installed <- current, fallback <- backup, trusted <- proven, None <- NoFile

ImplementsInstalledVersion == Promise!Spec

\* A helper that was started ends: every wait of it has a deadline.
HelperEnds == pc # "idle" ~> pc = "idle"

\* main.rs tells the user after a failed update that the previous version runs again;
\* it then is what is installed.  (The code tells so whenever it could start the
\* installed file.)
PreviousMeansPrevious == said = "previous" => current # target

=============================================================================
