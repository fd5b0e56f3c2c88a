\* A failed rollback and what the user is told.
\* The machine may stop for good when no program is installed and all runs are used.
CHECK_DEADLOCK FALSE
SPECIFICATION Spec
CONSTANTS
    Versions = 3
    Broken <- MCBroken
    Runs = 1
    Faults = 1
    Crashes = 0
INVARIANT PreviousMeansPrevious
