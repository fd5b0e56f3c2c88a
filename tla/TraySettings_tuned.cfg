SPECIFICATION Spec
CHECK_DEADLOCK FALSE
CONSTANTS
    Saves <- MCSaves
    Edits = 1
    Faults = 2
    Starts = 2
    Checks = 1
    Packaged = TRUE

PROPERTIES CustomisedCommandKept
