--------------------------- MODULE TraySettings ---------------------------
(***************************************************************************)
(* The tray app between the settings file and the registry: what it reads  *)
(* and repairs when it starts, and the two menu commands that are saved,   *)
(* the switch and "start with Windows".  Beside it --self-check may run,   *)
(* the user edits the file and the registry, any operation may fail, and   *)
(* the app may die anywhere and be started again.                          *)
(*                                                                         *)
(* The commands run on the thread of the tray window, one at a time; the   *)
(* steps of a settings transaction are those of ConfigStore.               *)
(***************************************************************************)
EXTENDS ConfigStore, StartupRegistry

CONSTANTS
    Starts,     \* bound: how often the app is started
    Checks      \* bound: how often --self-check is started

ASSUME CountsAssumption == Starts \in Nat /\ Checks \in Nat

VARIABLES
    at,         \* where the app is
    checkAt,    \* where --self-check is
    flag,       \* SharedFlags.enabled and .startup, what the menu shows
    previous,   \* the Run value before a startup toggle
    starts, checks,
    trip,       \* history of the start or the command under way: its failures (2 for
                \* more), whether the user changed the registry, and what was there before
    faithful    \* history: the start read the file, and the user did not save since it set out to

appVars == <<at, flag, previous>>
historyVars == <<trip, faithful>>
vars == <<storeVars, registryVars, appVars, checkAt, starts, checks, historyVars>>

NoTrip == [hits |-> 0, disturbed |-> FALSE, run |-> "none", saved |-> "off"]

Places == {"down", "ensure", "load", "adopt", "adopted", "repair", "approve", "ready",
           "switch", "change", "approving", "save", "undo", "unapprove", "settle"}

Init ==
    /\ StoreInit /\ RegistryInit
    /\ at = "down" /\ checkAt = "down"
    /\ flag = [enabled |-> "on", startup |-> "off"] /\ previous = "none"
    /\ starts = 0 /\ checks = 0
    /\ trip = NoTrip /\ faithful = FALSE

\* The type invariant: values in their sets; the app is inside a transaction
\* exactly at the places that started one, and --self-check likewise.
TypeOK ==
    /\ StoreTypeOK /\ RegistryTypeOK
    /\ at \in Places /\ checkAt \in {"down", "ensure", "load"}
    /\ flag \in [enabled : Setting, startup : Setting]
    /\ previous \in {"none"} \cup Command
    /\ starts \in 0 .. Starts /\ checks \in 0 .. Checks
    /\ trip \in [hits : 0 .. 2, disturbed : BOOLEAN, run : {"none"} \cup Command, saved : Setting]
    /\ faithful \in BOOLEAN
    /\ io["app"] # "none" <=> at \in {"ensure", "load", "adopted", "switch", "save"}
    /\ io["check"] # "none" <=> checkAt # "down"

Flip(setting) == IF setting = "on" THEN "off" ELSE "on"
Finished(p) == io[p] = "done"

\* What a start would load for a field.
OnDisk(field) == Merge(Default, file.value)[field]

\* A failure of the app's own step, remembered for the trip under way.
Hits == IF trip.hits + faults' - faults > 2 THEN 2 ELSE trip.hits + faults' - faults
Count == trip' = [trip EXCEPT !.hits = Hits]
Begin(hits) == trip' = [hits |-> hits, disturbed |-> FALSE, run |-> run, saved |-> OnDisk("startup")]

\* The thread is back in its message loop.
Ready == at' = "ready" /\ want' = NoWish /\ previous' = "none" /\ trip' = NoTrip
Go(place) == at' = place /\ Count /\ UNCHANGED <<want, previous>>

\* get_run_command: a read that fails looks like no command.
RunRead(command) ==
    \/ command = run /\ NoFault
    \/ command = "none" /\ Fault

restStore == <<file, backups, lock, edits, kept, precious>>
counts == <<starts, checks>>

----------------------------------------------------------------------------
(* Start of the app.                                                       *)

Start ==
    /\ at = "down" /\ starts < Starts /\ starts' = starts + 1
    /\ at' = "ensure" /\ Enter("app", "ensure")
    /\ settings' = Default /\ faithful' = FALSE
    /\ Begin(0)
    /\ UNCHANGED <<restStore, want, faults, registryVars, flag, previous, checkAt, checks>>

Ensured ==
    /\ at = "ensure" /\ Finished("app")
    /\ NoFault /\ Go("load") /\ Enter("app", "load")
    /\ faithful' = TRUE
    /\ UNCHANGED <<restStore, settings, registryVars, flag, checkAt, counts>>

\* load_settings, SharedFlags::from_settings
Loaded ==
    /\ at = "load" /\ Finished("app")
    /\ NoFault /\ Go("adopt") /\ Leave("app")
    /\ settings' = Merge(Default, seen["app"])
    /\ flag' = [enabled |-> settings'.enabled, startup |-> settings'.startup]
    /\ faithful' = (faithful /\ result["app"] = "ok")
    /\ UNCHANGED <<restStore, registryVars, checkAt, counts>>

\* adopt_registry_startup_state: a Run value that is not blank turns the setting on.
Adopt ==
    /\ at = "adopt"
    /\ \E command \in {"none"} \cup Command :
        /\ RunRead(command)
        /\ \/ /\ settings.startup = "off" /\ Registered(command)
              /\ settings' = [settings EXCEPT !.startup = "on"]
              /\ flag' = [flag EXCEPT !.startup = "on"]
              /\ want' = [field |-> "startup", to |-> "on"]
              /\ at' = "adopted" /\ Enter("app", "update") /\ Count /\ UNCHANGED previous
           \/ /\ settings.startup = "on" \/ ~Registered(command)
              /\ Go("repair")
              /\ UNCHANGED <<settings, flag, io, job, seen, result>>
    /\ UNCHANGED <<restStore, registryVars, checkAt, counts, faithful>>

\* Whether it could be saved or not is only logged.
Adopted ==
    /\ at = "adopted" /\ Finished("app")
    /\ NoFault /\ Go("repair") /\ Leave("app")
    /\ UNCHANGED <<restStore, settings, registryVars, flag, checkAt, counts, faithful>>

\* maybe_repair_startup_registration, up to the approval; one that cannot be read passes
\* for enabled.
Repair ==
    /\ at = "repair"
    /\ \/ settings.startup = "off" /\ Ready /\ NoFault /\ UNCHANGED registryVars
       \/ /\ settings.startup = "on"
          /\ \E command \in {"none"} \cup Command :
                \/ /\ ~ShouldRepair(Health(command)) /\ RunRead(command) /\ UNCHANGED registryVars
                   /\ IF Health(command) = "custom" \/ ApprovedEnabled
                      THEN Ready ELSE Go("approve")
                \/ /\ ~ShouldRepair(Health(command)) /\ command = run /\ UNCHANGED registryVars
                   /\ Health(command) # "custom" /\ Fault /\ Ready
                \/ ShouldRepair(Health(command)) /\ RunRead(command) /\ SetRun("ours") /\ Go("approve")
                \/ /\ ShouldRepair(Health(command)) /\ command = run
                   /\ Fault /\ SetRunFails("ours") /\ Ready
    /\ UNCHANGED <<restStore, transVars, settings, flag, checkAt, counts, faithful>>

\* The approval after the command, or ensure_startup_approved_enabled.
Approve ==
    /\ at = "approve" /\ Ready
    /\ \/ SetApproval /\ NoFault
       \/ UNCHANGED registryVars /\ Fault
    /\ UNCHANGED <<restStore, transVars, settings, flag, checkAt, counts, faithful>>

----------------------------------------------------------------------------
(* TrayCommand::ToggleEnabled (ToggleAggressive is the same with another   *)
(* field).                                                                 *)

ToggleEnabled ==
    /\ at = "ready" /\ at' = "switch" /\ Enter("app", "update")
    /\ want' = [field |-> "enabled", to |-> Flip(flag.enabled)]
    /\ Begin(0)
    /\ UNCHANGED <<restStore, settings, faults, registryVars, flag, previous, checkAt, counts, faithful>>

\* What update_settings returned: the settings as they were written.
Written == [Merge(settings, seen["app"]) EXCEPT ![want.field] = want.to]

\* Mutant: the switch is set although the file was not written.
SwitchedAnyway ==
    /\ at = "switch" /\ Finished("app") /\ Ready /\ Leave("app")
    /\ settings' = Written /\ flag' = [flag EXCEPT !.enabled = want.to]
    /\ UNCHANGED <<restStore, faults, registryVars, checkAt, counts, faithful>>

Switched ==
    /\ at = "switch" /\ Finished("app") /\ Ready /\ Leave("app")
    /\ IF result["app"] = "ok"
       THEN settings' = Written /\ flag' = [flag EXCEPT !.enabled = want.to]
       ELSE UNCHANGED <<settings, flag>>
    /\ UNCHANGED <<restStore, faults, registryVars, checkAt, counts, faithful>>

----------------------------------------------------------------------------
(* TrayCommand::ToggleStartup: commit_toggle over registry and file.       *)

ToggleStartup ==
    /\ at = "ready" /\ at' = "change"
    /\ want' = [field |-> "startup", to |-> Flip(flag.startup)]
    /\ RunRead(previous') /\ Begin(faults' - faults)
    /\ UNCHANGED <<restStore, transVars, settings, registryVars, flag, checkAt, counts, faithful>>

NewCommand == IF want.to = "on" THEN "ours" ELSE "none"

\* set_enabled, first the Run value, ...
Change ==
    /\ at = "change"
    /\ \/ SetRun(NewCommand) /\ NoFault /\ Go("approving")
       \/ SetRunFails(NewCommand) /\ Fault /\ Go("undo")
    /\ UNCHANGED <<restStore, transVars, settings, flag, checkAt, counts, faithful>>

\* ... then the approval; only then the file.
Approving ==
    /\ at = "approving"
    /\ \/ /\ \/ SetApproval /\ NoFault
             \/ ApprovalLeft(NewCommand) /\ Fault
          /\ Go("save") /\ Enter("app", "update")
       \/ /\ UNCHANGED registryVars /\ Fault /\ Go("undo")
          /\ UNCHANGED <<io, job, seen, result>>
    /\ UNCHANGED <<restStore, settings, flag, checkAt, counts, faithful>>

Saved ==
    /\ at = "save" /\ Finished("app") /\ Leave("app") /\ NoFault
    /\ IF result["app"] = "ok"
       THEN Ready /\ settings' = Written /\ flag' = [flag EXCEPT !.startup = want.to]
       ELSE Go("undo") /\ UNCHANGED <<settings, flag>>
    /\ UNCHANGED <<restStore, registryVars, checkAt, counts, faithful>>

\* Mutant: the rollback registers the app instead of the command that was there.
UndoOurs ==
    /\ at = "undo"
    /\ \/ SetRun(IF previous = "none" THEN "none" ELSE "ours") /\ NoFault /\ Go("unapprove")
       \/ SetRunFails(previous) /\ Fault /\ Go("settle")
    /\ UNCHANGED <<restStore, transVars, settings, flag, checkAt, counts, faithful>>

\* restore_command
Undo ==
    /\ at = "undo"
    /\ \/ SetRun(previous) /\ NoFault /\ Go("unapprove")
       \/ SetRunFails(previous) /\ Fault /\ Go("settle")
    /\ UNCHANGED <<restStore, transVars, settings, flag, checkAt, counts, faithful>>

Unapprove ==
    /\ at = "unapprove"
    /\ \/ SetApproval /\ NoFault
       \/ UNCHANGED registryVars /\ Fault
    /\ Go("settle")
    /\ UNCHANGED <<restStore, transVars, settings, flag, checkAt, counts, faithful>>

\* After a failure the menu shows whether there is a Run value, were it blank.
Settle ==
    /\ at = "settle" /\ Ready
    /\ \E command \in {"none"} \cup Command :
        /\ RunRead(command)
        /\ flag' = [flag EXCEPT !.startup = IF command # "none" THEN "on" ELSE "off"]
    /\ UNCHANGED <<restStore, transVars, settings, registryVars, checkAt, counts, faithful>>

----------------------------------------------------------------------------
(* The other actors.                                                       *)

AppWorks ==
    /\ at # "down" /\ Transaction("app")
    /\ Count
    /\ UNCHANGED <<registryVars, appVars, checkAt, counts, faithful>>

AppEnds ==
    /\ at # "down" /\ at' = "down" /\ Abandon("app")
    /\ want' = NoWish /\ previous' = "none" /\ trip' = NoTrip
    /\ settings' = Default /\ flag' = [enabled |-> "on", startup |-> "off"]
    /\ UNCHANGED <<registryVars, checkAt, counts, faithful>>

CheckStarts ==
    /\ checkAt = "down" /\ checks < Checks /\ checks' = checks + 1
    /\ checkAt' = "ensure" /\ Enter("check", "ensure")
    /\ UNCHANGED <<restStore, want, settings, faults, registryVars, appVars, starts, historyVars>>

CheckWorks ==
    /\ checkAt # "down" /\ Transaction("check")
    /\ UNCHANGED <<registryVars, appVars, checkAt, counts, historyVars>>

CheckLoads ==
    /\ checkAt = "ensure" /\ Finished("check")
    /\ checkAt' = "load" /\ Enter("check", "load")
    /\ UNCHANGED <<restStore, want, settings, faults, registryVars, appVars, counts, historyVars>>

\* Its report follows, or it dies anywhere.
CheckEnds ==
    /\ checkAt # "down" /\ checkAt' = "down" /\ Abandon("check")
    /\ UNCHANGED <<want, settings, registryVars, appVars, counts, historyVars>>

UserEdits ==
    /\ UserSaves /\ faithful' = FALSE
    /\ UNCHANGED <<registryVars, appVars, checkAt, counts, trip>>

\* Task Manager, regedit, another installation, or a moved executable.
UserTweaks ==
    /\ edits < Edits /\ edits' = edits + 1
    /\ Tweak
    /\ trip' = [trip EXCEPT !.disturbed = at # "down" /\ at # "ready"]
    /\ UNCHANGED <<file, backups, transVars, want, settings, faults, kept, precious, appVars,
                   checkAt, counts, faithful>>

App ==
    \/ Ensured \/ Loaded \/ Adopt \/ Adopted \/ Repair \/ Approve
    \/ Switched \/ Change \/ Approving \/ Saved \/ Undo \/ Unapprove \/ Settle
    \/ AppWorks

Next ==
    \/ Start \/ App \/ ToggleEnabled \/ ToggleStartup \/ AppEnds
    \/ CheckStarts \/ CheckLoads \/ CheckWorks \/ CheckEnds
    \/ UserEdits \/ UserTweaks

Spec == Init /\ [][Next]_vars

----------------------------------------------------------------------------
(* Properties.                                                             *)

\* While the app waits for a command and the user has left the file alone since
\* the start set out to read it and could, the switch in the menu is the one a restart
\* would load, whatever failed in between (update_settings, ToggleEnabled).
MenuMatchesFile ==
    at = "ready" /\ faithful => OnDisk("enabled") = flag.enabled

\* A startup toggle in which at most one operation failed is all or nothing:
\* registration and saved setting are both as asked, or both as they were
\* (commit_toggle), provided the user did not interfere.
ToggleAllOrNothing ==
    [][ /\ at \in {"save", "settle"} /\ at' = "ready"
        /\ Hits <= 1 /\ ~trip.disturbed /\ faithful
        => \/ run = NewCommand /\ OnDisk("startup") = want.to /\ flag'.startup = want.to
           \/ run = trip.run /\ OnDisk("startup") = trip.saved ]_vars

\* When the app has started without a failure, the menu tells the loaded setting, and that
\* is "on" when a command that is not blank is registered; a registered program of this
\* app is there, and Task Manager does not keep it from starting; and the command of
\* another program is untouched.  With a blank command, which counts as another program's,
\* the menu says "on" if the file does, although nothing starts the app
\* (adopt_registry_startup_state, maybe_repair_startup_registration).
SyncedAfterStart ==
    [][ /\ at \in {"repair", "approve"} /\ at' = "ready" /\ Hits = 0 /\ ~trip.disturbed
        => /\ flag.startup = settings.startup
           /\ Registered(run') => flag.startup = "on"
           /\ flag.startup = "on" => run' # "none"
           /\ run' # "gone"
           /\ Health(trip.run) = "custom" => run' = trip.run
           /\ run' \in {"ours", "moved"} => approved' # "disabled" ]_vars

\* "preserving a user-customized command" (startup_repair.rs): a start leaves alone a
\* command that the user gave arguments of their own.  It does not: for its file name the
\* program counts as this app, and then the command is stale and replaced.
CustomisedCommandKept ==
    [][ /\ at \in {"repair", "approve"} /\ at' = "ready" /\ Hits = 0 /\ ~trip.disturbed
        /\ trip.run = "tuned"
        => run' = "tuned" ]_vars
=============================================================================
