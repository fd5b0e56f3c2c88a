-------------------------- MODULE StartupRegistry --------------------------
(***************************************************************************)
(* "Start with Windows": the value under HKCU\...\Run and the flag that    *)
(* Task Manager keeps under StartupApproved\Run.  Two values in two keys,  *)
(* written one after the other; each access may fail.  The operators are   *)
(* the pieces of kakao-win32/startup.rs and kakao-app/startup.rs that the  *)
(* tray app puts together in TraySettings.                                 *)
(***************************************************************************)

CONSTANT Packaged       \* the app runs from the released executable
ASSUME PackagedAssumption == Packaged \in BOOLEAN

VARIABLES
    run,        \* the command in the Run value, "none" when there is none
    approved    \* StartupApproved: "disabled", or "enabled", which an absent value means too

registryVars == <<run, approved>>

\* "ours" is what build_command gives.  "moved", "tuned" and "gone" run a program
\* that counts as this app, for its file name (is_managed_command): "moved" is the
\* released one at another place with the same arguments, "tuned" one that exists but
\* has the user's own arguments, or is a development build elsewhere; at "gone"
\* there is no such file.  "custom" runs another program, "blank" is only blanks.
Command  == {"ours", "moved", "tuned", "gone", "blank", "custom"}
Approval == {"enabled", "disabled"}

RegistryInit ==
    /\ run \in {"none"} \cup Command
    /\ approved \in Approval

RegistryTypeOK == run \in {"none"} \cup Command /\ approved \in Approval

\* registration_health of a command
Health(command) ==
    CASE command = "none"  -> "missing"
      [] command = "ours"  -> "healthy"
      [] command = "moved" -> IF Packaged THEN "stale" ELSE "source-compatible"
      [] command = "tuned" -> "stale"
      [] command = "gone"  -> "missing_target"
      [] command \in {"blank", "custom"} -> "custom"

\* Mutant: everything that is not as expected is repaired.
ShouldRepairCustom(health) == health # "healthy"

ShouldRepair(health) == health \in {"missing", "missing_target", "stale"}

\* What the menu calls registered: a command that is not just blanks.
Registered(command) == command \notin {"none", "blank"}

\* startup_approved_is_enabled: an odd first byte is what Task Manager writes.
ApprovedEnabled == approved = "enabled"

\* The first half of set_run_command or, for "none", of delete_run_command.
SetRun(command) == run' = command /\ UNCHANGED approved

\* It failed: set_run_command returns at once, delete_run_command still
\* deletes the approval when the Run key could be opened.
SetRunFails(command) ==
    /\ UNCHANGED run
    /\ approved' \in IF command = "none" THEN {approved, "enabled"} ELSE {approved}

\* The second half: the enabled blob is written, or the value deleted.
SetApproval == approved' = "enabled" /\ UNCHANGED run

\* delete_startup_approved reports success for a key that it could not open.
ApprovalLeft(command) == command = "none" /\ UNCHANGED registryVars

\* Task Manager disables the entry, regedit or another installation sets or
\* deletes the command.
Tweak ==
    \/ approved' = "disabled" /\ UNCHANGED run
    \/ run' \in {"none", "tuned", "gone", "blank", "custom"} \ {run} /\ UNCHANGED approved
=============================================================================
