\* Over at the end: the process is gone.
CHECK_DEADLOCK FALSE
SPECIFICATION FairSpec
CONSTANTS
    Checks = 2
    Troubles = 1
INVARIANTS TypeOK NoStagedLeftBehind ExitCodeHonest
PROPERTIES AlarmComes ExitHappens IconComesBack
