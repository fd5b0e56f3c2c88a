\* Four versions, the second of which never gets ready; three updates or recoveries,
\* two failing operations, two deaths of the helper.
\* The machine may stop for good when no program is installed and all runs are used.
CHECK_DEADLOCK FALSE
SPECIFICATION FairSpec
CONSTANTS
    Versions = 4
    Broken <- MCBroken
    Runs = 3
    Faults = 2
    Crashes = 2
INVARIANTS TypeOK SomethingGood
PROPERTIES NeverHalfInstalled ImplementsInstalledVersion HelperEnds
