-------------------------- MODULE InstalledVersion --------------------------
(***************************************************************************)
(* What the update helper promises about the install folder, without its   *)
(* copies, checks, processes and failures: the installed version changes   *)
(* in one step, only to a whole version, and never without a fallback that *)
(* is known to work.  UpdateHelper is shown to implement this module.      *)
(***************************************************************************)
EXTENDS Naturals

CONSTANTS
    Version,   \* the versions there are
    None       \* no file

VARIABLES
    installed,   \* the version at the install path
    fallback,    \* the version in the backup beside it
    trusted      \* versions that have been seen to work

vars == <<installed, fallback, trusted>>

\* An older helper may have stopped with the only copy in the backup.
Init ==
    /\ trusted \subseteq Version
    /\ \/ installed \in trusted /\ fallback = None
       \/ installed = None /\ fallback \in trusted

\* Keep the installed version.
KeepFallback ==
    /\ installed \in trusted
    /\ fallback' = installed
    /\ UNCHANGED <<installed, trusted>>

Switch ==
    /\ fallback = installed
    /\ installed' \in Version
    /\ UNCHANGED <<fallback, trusted>>

Revert ==
    /\ fallback \in trusted
    /\ installed' = fallback
    /\ UNCHANGED <<fallback, trusted>>

Forget ==
    /\ installed \in trusted
    /\ fallback' = None
    /\ UNCHANGED <<installed, trusted>>

\* Take the only copy back out of the backup.
Adopt ==
    /\ installed = None
    /\ installed' = fallback /\ fallback' = None
    /\ UNCHANGED trusted

Learn ==
    /\ installed \in Version
    /\ trusted' = trusted \cup {installed}
    /\ UNCHANGED <<installed, fallback>>

Next == KeepFallback \/ Switch \/ Revert \/ Forget \/ Adopt \/ Learn

Spec == Init /\ [][Next]_vars

=============================================================================
