------------------------ MODULE UpdateHelperSafety --------------------------
(***************************************************************************)
(* Proofs about UpdateHelper for any number of versions, runs, failures    *)
(* and deaths of the helper: the safety properties that UpdateHelper_swap  *)
(* checks on a small instance, that it implements InstalledVersion, and    *)
(* that a helper never goes back to a step it has left behind.             *)
(*                                                                         *)
(* SomethingGood alone is not inductive.  What it rests on is what each    *)
(* step of the helper may assume of the files: up to the swap the          *)
(* installed version is one that works, at the swap the backup holds the   *)
(* same version, the copy to be installed has been checked, and the copy   *)
(* that a rollback installs is the backup's.                               *)
(***************************************************************************)
EXTENDS UpdateHelper, TLAPS

\* Every variable of TypeOK but the flags: what the steps below can disturb.
FileTypes ==
    /\ current \in Version \cup {NoFile} /\ backup \in Version \cup {NoFile}
    /\ download \in Version \cup {NoFile, Altered}
    /\ local \in Content /\ saved \in Version \cup {NoFile, Partial}

StepTypes ==
    /\ pc \in Steps \cup {"idle"} /\ mode \in {"update", "recover"}
    /\ target \in Version
    /\ said \in {"nothing", "failed", "previous", "restored", "updated"}
    /\ app \in Version \cup {NoApp}
    /\ child \in {"none", "starting", "acknowledged", "silent", "gone"}
    /\ proven \subseteq Version

FlagTypes == late \in BOOLEAN /\ waited \in BOOLEAN

CountTypes == runs \in 0 .. Runs /\ faults \in 0 .. Faults /\ crashes \in 0 .. Crashes

\* The copies exist only in the steps that make and use them.
CopiesOK ==
    /\ local # NoFile =>
         pc \in {"copying", "check", "save", "saving", "publish", "swap", "restoring", "revert"}
    /\ saved # NoFile => pc \in {"saving", "publish"}

\* A running app runs from the installed file, and the launched one has not ended.
AppOK ==
    /\ app # NoApp => app = current
    /\ child \in {"starting", "acknowledged", "silent"} => app # NoApp
    /\ child = "acknowledged" => app \in proven

\* What the steps of the helper may assume of the files.
StepOK ==
    /\ backup # NoFile => backup \in proven
    /\ pc \in {"wait", "adopt"} => current = NoFile \/ current \in proven
    /\ pc \in {"verify", "copy", "copying", "check", "save", "saving", "publish", "swap", "cleanup"}
         => current \in proven
    /\ pc \in {"save", "saving", "publish", "swap"} => local = target
    /\ pc = "publish" => saved = current
    /\ pc = "swap" => backup = current
    /\ pc = "launch" => current # NoFile
    /\ pc = "restoring" => backup # NoFile
    /\ pc = "revert" => local = backup /\ backup # NoFile

\* The inductive invariant.
Inv ==
    /\ FileTypes /\ StepTypes /\ FlagTypes /\ CountTypes
    /\ CopiesOK /\ AppOK /\ StepOK /\ SomethingGood

----------------------------------------------------------------------------
\* The first states.
LEMMA InvInit == Init => Inv
<1> SUFFICES ASSUME Init PROVE Inv
  OBVIOUS
<1>1. NoFile \notin Version
  BY DEF NoFile, Version
<1>2. FileTypes /\ FlagTypes
  <2>1. FileTypes
    BY DEF Init, FileTypes, Content
  <2>2. FlagTypes
    BY DEF Init, FlagTypes
  <2> QED
    BY <2>1, <2>2
<1>3. StepTypes
  <2>1. 1 \in Version
    BY VersionsAssumption DEF Version
  <2>2. app \in Version \cup {NoApp}
    BY DEF Init
  <2>3. proven \subseteq Version
    BY <1>1 DEF Init
  <2> QED
    BY <2>1, <2>2, <2>3 DEF Init, StepTypes
<1>4. CountTypes
  BY BoundsAssumption DEF Init, CountTypes
<1>5. CopiesOK /\ StepOK /\ SomethingGood
  BY <1>1 DEF Init, CopiesOK, StepOK, SomethingGood
<1>6. AppOK
  BY DEF Init, AppOK
<1> QED
  BY <1>2, <1>3, <1>4, <1>5, <1>6 DEF Inv

\* A step that changes nothing.
LEMMA InvStutter == Inv /\ UNCHANGED vars => Inv'
  BY DEF Inv, FileTypes, StepTypes, FlagTypes, CountTypes, CopiesOK, AppOK, StepOK,
         SomethingGood, vars, fileVars, helperVars, appVars, countVars

LEMMA WaitForExitKeeps == Inv /\ WaitForExit => Inv'
<1> SUFFICES ASSUME Inv, WaitForExit PROVE Inv'
  OBVIOUS
<1> USE VersionsAssumption, BrokenAssumption, BoundsAssumption
<1>1. FileTypes'
  BY DEF Inv, FileTypes, StepTypes, CopiesOK, AppOK, StepOK, SomethingGood, WaitForExit, Fail,
         fileVars, appVars, countVars, Version, NoFile, Partial, Altered, Content
<1>2. StepTypes'
  BY DEF Inv, StepTypes, FileTypes, CopiesOK, AppOK, StepOK, SomethingGood, WaitForExit, Fail,
         fileVars, appVars, countVars, Version, Steps, NoApp, NoFile
<1>3. FlagTypes'
  BY DEF Inv, FlagTypes, WaitForExit, Fail, fileVars, appVars, countVars
<1>4. CopiesOK'
  BY DEF Inv, CopiesOK, FileTypes, StepTypes, AppOK, StepOK, SomethingGood, WaitForExit, Fail,
         fileVars, appVars, countVars, NoFile
<1>5. StepOK'
  BY DEF Inv, StepOK, FileTypes, StepTypes, CopiesOK, AppOK, SomethingGood, WaitForExit, Fail,
         fileVars, appVars, countVars, NoFile, NoApp, Version
<1>6. CountTypes' /\ AppOK' /\ SomethingGood'
  BY DEF Inv, CountTypes, AppOK, SomethingGood, WaitForExit, Fail, fileVars, appVars, countVars
<1> QED
  BY <1>1, <1>2, <1>3, <1>4, <1>5, <1>6 DEF Inv

LEMMA AdoptBackupKeeps == Inv /\ AdoptBackup => Inv'
<1> SUFFICES ASSUME Inv, AdoptBackup PROVE Inv'
  OBVIOUS
<1> USE VersionsAssumption, BrokenAssumption, BoundsAssumption
<1>1. FileTypes'
  BY DEF Inv, FileTypes, StepTypes, CopiesOK, AppOK, StepOK, SomethingGood, AdoptBackup, Fault,
         Fail, Goto, fileVars, appVars, countVars, Version, NoFile, Partial, Altered, Content
<1>2. StepTypes'
  BY DEF Inv, StepTypes, FileTypes, CopiesOK, AppOK, StepOK, SomethingGood, AdoptBackup, Fault,
         Fail, Goto, fileVars, appVars, countVars, Version, Steps, NoApp, NoFile
<1>3. CountTypes'
  BY DEF Inv, CountTypes, AdoptBackup, Fault, Fail, Goto, fileVars, appVars, countVars
<1>4. CopiesOK'
  BY DEF Inv, CopiesOK, FileTypes, StepTypes, AppOK, StepOK, SomethingGood, AdoptBackup, Fault,
         Fail, Goto, fileVars, appVars, countVars, NoFile
<1>5. AppOK'
  BY DEF Inv, AppOK, FileTypes, StepTypes, CopiesOK, StepOK, SomethingGood, AdoptBackup, Fault,
         Fail, Goto, fileVars, appVars, countVars, NoApp, NoFile, Version
<1>6. StepOK'
  BY DEF Inv, StepOK, FileTypes, StepTypes, CopiesOK, AppOK, SomethingGood, AdoptBackup, Fault,
         Fail, Goto, fileVars, appVars, countVars, NoFile, NoApp, Version
<1>7. SomethingGood'
  BY DEF Inv, SomethingGood, FileTypes, StepTypes, CopiesOK, AppOK, StepOK, AdoptBackup, Fault,
         Fail, Goto, fileVars, appVars, countVars, NoFile
<1>8. FlagTypes'
  BY DEF Inv, FlagTypes, AdoptBackup, Fault, Fail, Goto, fileVars, appVars, countVars
<1> QED
  BY <1>1, <1>2, <1>3, <1>4, <1>5, <1>6, <1>7, <1>8 DEF Inv

LEMMA VerifyKeeps == Inv /\ Verify => Inv'
<1> SUFFICES ASSUME Inv, Verify PROVE Inv'
  OBVIOUS
<1> USE VersionsAssumption, BrokenAssumption, BoundsAssumption
<1>1. FileTypes'
  BY DEF Inv, FileTypes, StepTypes, CopiesOK, AppOK, StepOK, SomethingGood, Verify, Fail, Goto,
         fileVars, appVars, countVars, Version, NoFile, Partial, Altered, Content
<1>2. StepTypes'
  BY DEF Inv, StepTypes, FileTypes, CopiesOK, AppOK, StepOK, SomethingGood, Verify, Fail, Goto,
         fileVars, appVars, countVars, Version, Steps, NoApp, NoFile
<1>3. CopiesOK'
  BY DEF Inv, CopiesOK, FileTypes, StepTypes, AppOK, StepOK, SomethingGood, Verify, Fail, Goto,
         fileVars, appVars, countVars, NoFile
<1>4. StepOK'
  BY DEF Inv, StepOK, FileTypes, StepTypes, CopiesOK, AppOK, SomethingGood, Verify, Fail, Goto,
         fileVars, appVars, countVars, NoFile, NoApp, Version
<1>5. FlagTypes' /\ CountTypes' /\ AppOK' /\ SomethingGood'
  BY DEF Inv, FlagTypes, CountTypes, AppOK, SomethingGood, Verify, Fail, Goto, fileVars,
         appVars, countVars
<1> QED
  BY <1>1, <1>2, <1>3, <1>4, <1>5 DEF Inv

LEMMA CopyBeginsKeeps == Inv /\ CopyBegins => Inv'
<1> SUFFICES ASSUME Inv, CopyBegins PROVE Inv'
  OBVIOUS
<1> USE VersionsAssumption, BrokenAssumption, BoundsAssumption
<1>1. FileTypes'
  BY DEF Inv, FileTypes, StepTypes, CopiesOK, AppOK, StepOK, SomethingGood, CopyBegins, Goto,
         appVars, countVars, Version, NoFile, Partial, Altered, Content
<1>2. StepTypes'
  BY DEF Inv, StepTypes, FileTypes, CopiesOK, AppOK, StepOK, SomethingGood, CopyBegins, Goto,
         appVars, countVars, Version, Steps, NoApp, NoFile
<1>3. CopiesOK'
  BY DEF Inv, CopiesOK, FileTypes, StepTypes, AppOK, StepOK, SomethingGood, CopyBegins, Goto,
         appVars, countVars, NoFile
<1>4. StepOK'
  BY DEF Inv, StepOK, FileTypes, StepTypes, CopiesOK, AppOK, SomethingGood, CopyBegins, Goto,
         appVars, countVars, NoFile, NoApp, Version
<1>5. FlagTypes' /\ CountTypes' /\ AppOK' /\ SomethingGood'
  BY DEF Inv, FlagTypes, CountTypes, AppOK, SomethingGood, CopyBegins, Goto, appVars, countVars
<1> QED
  BY <1>1, <1>2, <1>3, <1>4, <1>5 DEF Inv

LEMMA CopyEndsKeeps == Inv /\ CopyEnds => Inv'
<1> SUFFICES ASSUME Inv, CopyEnds PROVE Inv'
  OBVIOUS
<1> USE VersionsAssumption, BrokenAssumption, BoundsAssumption
<1>1. FileTypes'
  BY DEF Inv, FileTypes, StepTypes, CopiesOK, AppOK, StepOK, SomethingGood, CopyEnds, Goto,
         appVars, countVars, Version, NoFile, Partial, Altered, Content
<1>2. StepTypes'
  BY DEF Inv, StepTypes, FileTypes, CopiesOK, AppOK, StepOK, SomethingGood, CopyEnds, Goto,
         appVars, countVars, Version, Steps, NoApp, NoFile
<1>3. CopiesOK'
  BY DEF Inv, CopiesOK, FileTypes, StepTypes, AppOK, StepOK, SomethingGood, CopyEnds, Goto,
         appVars, countVars, NoFile
<1>4. StepOK'
  BY DEF Inv, StepOK, FileTypes, StepTypes, CopiesOK, AppOK, SomethingGood, CopyEnds, Goto,
         appVars, countVars, NoFile, NoApp, Version
<1>5. FlagTypes' /\ CountTypes' /\ AppOK' /\ SomethingGood'
  BY DEF Inv, FlagTypes, CountTypes, AppOK, SomethingGood, CopyEnds, Goto, appVars, countVars
<1> QED
  BY <1>1, <1>2, <1>3, <1>4, <1>5 DEF Inv

LEMMA CheckCopyKeeps == Inv /\ CheckCopy => Inv'
<1> SUFFICES ASSUME Inv, CheckCopy PROVE Inv'
  OBVIOUS
<1> USE VersionsAssumption, BrokenAssumption, BoundsAssumption
<1>1. FileTypes'
  BY DEF Inv, FileTypes, StepTypes, CopiesOK, AppOK, StepOK, SomethingGood, CheckCopy, Fail,
         Goto, CopyMatches, appVars, countVars, Version, NoFile, Partial, Altered, Content
<1>2. StepTypes'
  BY DEF Inv, StepTypes, FileTypes, CopiesOK, AppOK, StepOK, SomethingGood, CheckCopy, Fail,
         Goto, CopyMatches, appVars, countVars, Version, Steps, NoApp, NoFile
<1>3. CopiesOK'
  BY DEF Inv, CopiesOK, FileTypes, StepTypes, AppOK, StepOK, SomethingGood, CheckCopy, Fail,
         Goto, CopyMatches, appVars, countVars, NoFile
<1>4. StepOK'
  BY DEF Inv, StepOK, FileTypes, StepTypes, CopiesOK, AppOK, SomethingGood, CheckCopy, Fail,
         Goto, CopyMatches, appVars, countVars, NoFile, NoApp, Version
<1>5. FlagTypes' /\ CountTypes' /\ AppOK' /\ SomethingGood'
  BY DEF Inv, FlagTypes, CountTypes, AppOK, SomethingGood, CheckCopy, Fail, Goto, CopyMatches,
         appVars, countVars
<1> QED
  BY <1>1, <1>2, <1>3, <1>4, <1>5 DEF Inv

LEMMA CopyFailsKeeps == Inv /\ CopyFails => Inv'
<1> SUFFICES ASSUME Inv, CopyFails PROVE Inv'
  OBVIOUS
<1> USE VersionsAssumption, BrokenAssumption, BoundsAssumption
<1>1. FileTypes'
  BY DEF Inv, FileTypes, StepTypes, CopiesOK, AppOK, StepOK, SomethingGood, CopyFails, Fault,
         Fail, appVars, countVars, Version, NoFile, Partial, Altered, Content
<1>2. StepTypes'
  BY DEF Inv, StepTypes, FileTypes, CopiesOK, AppOK, StepOK, SomethingGood, CopyFails, Fault,
         Fail, appVars, countVars, Version, Steps, NoApp, NoFile
<1>3. CountTypes'
  BY DEF Inv, CountTypes, CopyFails, Fault, Fail, appVars, countVars
<1>4. CopiesOK'
  BY DEF Inv, CopiesOK, FileTypes, StepTypes, AppOK, StepOK, SomethingGood, CopyFails, Fault,
         Fail, appVars, countVars, NoFile
<1>5. StepOK'
  BY DEF Inv, StepOK, FileTypes, StepTypes, CopiesOK, AppOK, SomethingGood, CopyFails, Fault,
         Fail, appVars, countVars, NoFile, NoApp, Version
<1>6. FlagTypes' /\ AppOK' /\ SomethingGood'
  BY DEF Inv, FlagTypes, AppOK, SomethingGood, CopyFails, Fault, Fail, appVars, countVars
<1> QED
  BY <1>1, <1>2, <1>3, <1>4, <1>5, <1>6 DEF Inv

LEMMA PublishKeeps == Inv /\ Publish => Inv'
<1> SUFFICES ASSUME Inv, Publish PROVE Inv'
  OBVIOUS
<1> USE VersionsAssumption, BrokenAssumption, BoundsAssumption
<1>1. FileTypes'
  BY DEF Inv, FileTypes, StepTypes, CopiesOK, AppOK, StepOK, SomethingGood, Publish, Fault,
         Fail, Goto, appVars, countVars, Version, NoFile, Partial, Altered, Content
<1>2. StepTypes'
  BY DEF Inv, StepTypes, FileTypes, CopiesOK, AppOK, StepOK, SomethingGood, Publish, Fault,
         Fail, Goto, appVars, countVars, Version, Steps, NoApp, NoFile
<1>3. CountTypes'
  BY DEF Inv, CountTypes, Publish, Fault, Fail, Goto, appVars, countVars
<1>4. CopiesOK'
  BY DEF Inv, CopiesOK, FileTypes, StepTypes, AppOK, StepOK, SomethingGood, Publish, Fault,
         Fail, Goto, appVars, countVars, NoFile
<1>5. StepOK'
  BY DEF Inv, StepOK, FileTypes, StepTypes, CopiesOK, AppOK, SomethingGood, Publish, Fault,
         Fail, Goto, appVars, countVars, NoFile, NoApp, Version
<1>6. SomethingGood'
  BY DEF Inv, SomethingGood, FileTypes, StepTypes, CopiesOK, AppOK, StepOK, Publish, Fault,
         Fail, Goto, appVars, countVars, NoFile
<1>7. FlagTypes' /\ AppOK'
  BY DEF Inv, FlagTypes, AppOK, Publish, Fault, Fail, Goto, appVars, countVars
<1> QED
  BY <1>1, <1>2, <1>3, <1>4, <1>5, <1>6, <1>7 DEF Inv

LEMMA SwapKeeps == Inv /\ Swap => Inv'
<1> SUFFICES ASSUME Inv, Swap PROVE Inv'
  OBVIOUS
<1> USE VersionsAssumption, BrokenAssumption, BoundsAssumption
<1>1. FileTypes'
  BY DEF Inv, FileTypes, StepTypes, CopiesOK, AppOK, StepOK, SomethingGood, Swap, Fault, Fail,
         Goto, appVars, countVars, Version, NoFile, Partial, Altered, Content
<1>2. StepTypes'
  BY DEF Inv, StepTypes, FileTypes, CopiesOK, AppOK, StepOK, SomethingGood, Swap, Fault, Fail,
         Goto, appVars, countVars, Version, Steps, NoApp, NoFile
<1>3. CountTypes'
  BY DEF Inv, CountTypes, Swap, Fault, Fail, Goto, appVars, countVars
<1>4. CopiesOK'
  BY DEF Inv, CopiesOK, FileTypes, StepTypes, AppOK, StepOK, SomethingGood, Swap, Fault, Fail,
         Goto, appVars, countVars, NoFile
<1>5. AppOK'
  BY DEF Inv, AppOK, FileTypes, StepTypes, CopiesOK, StepOK, SomethingGood, Swap, Fault, Fail,
         Goto, appVars, countVars, NoApp, NoFile, Version
<1>6. StepOK'
  BY DEF Inv, StepOK, FileTypes, StepTypes, CopiesOK, AppOK, SomethingGood, Swap, Fault, Fail,
         Goto, appVars, countVars, NoFile, NoApp, Version
<1>7. SomethingGood'
  BY DEF Inv, SomethingGood, FileTypes, StepTypes, CopiesOK, AppOK, StepOK, Swap, Fault, Fail,
         Goto, appVars, countVars, NoFile
<1>8. FlagTypes'
  BY DEF Inv, FlagTypes, Swap, Fault, Fail, Goto, appVars, countVars
<1> QED
  BY <1>1, <1>2, <1>3, <1>4, <1>5, <1>6, <1>7, <1>8 DEF Inv

LEMMA LaunchKeeps == Inv /\ Launch => Inv'
<1> SUFFICES ASSUME Inv, Launch PROVE Inv'
  OBVIOUS
<1> USE VersionsAssumption, BrokenAssumption, BoundsAssumption
<1>1. FileTypes'
  BY DEF Inv, FileTypes, StepTypes, CopiesOK, AppOK, StepOK, SomethingGood, Launch, Fault,
         Goto, appVars, countVars, Version, NoFile, Partial, Altered, Content
<1>2. StepTypes'
  BY DEF Inv, StepTypes, FileTypes, CopiesOK, AppOK, StepOK, SomethingGood, Launch, Fault,
         Goto, appVars, countVars, Version, Steps, NoApp, NoFile
<1>3. CountTypes'
  BY DEF Inv, CountTypes, Launch, Fault, Goto, appVars, countVars
<1>4. CopiesOK'
  BY DEF Inv, CopiesOK, FileTypes, StepTypes, AppOK, StepOK, SomethingGood, Launch, Fault,
         Goto, appVars, countVars, NoFile
<1>5. AppOK'
  BY DEF Inv, AppOK, FileTypes, StepTypes, CopiesOK, StepOK, SomethingGood, Launch, Fault,
         Goto, appVars, countVars, NoApp, NoFile, Version
<1>6. StepOK'
  BY DEF Inv, StepOK, FileTypes, StepTypes, CopiesOK, AppOK, SomethingGood, Launch, Fault,
         Goto, appVars, countVars, NoFile, NoApp, Version
<1>7. FlagTypes' /\ SomethingGood'
  BY DEF Inv, FlagTypes, SomethingGood, Launch, Fault, Goto, appVars, countVars
<1> QED
  BY <1>1, <1>2, <1>3, <1>4, <1>5, <1>6, <1>7 DEF Inv

LEMMA WatchSucceedsKeeps == Inv /\ WatchSucceeds => Inv'
<1> SUFFICES ASSUME Inv, WatchSucceeds PROVE Inv'
  OBVIOUS
<1> USE VersionsAssumption, BrokenAssumption, BoundsAssumption
<1>1. StepTypes'
  BY DEF Inv, StepTypes, FileTypes, CopiesOK, AppOK, StepOK, SomethingGood, WatchSucceeds,
         Goto, fileVars, appVars, countVars, Version, Steps, NoApp, NoFile
<1>2. CopiesOK'
  BY DEF Inv, CopiesOK, FileTypes, StepTypes, AppOK, StepOK, SomethingGood, WatchSucceeds,
         Goto, fileVars, appVars, countVars, NoFile
<1>3. StepOK'
  BY DEF Inv, StepOK, FileTypes, StepTypes, CopiesOK, AppOK, SomethingGood, WatchSucceeds,
         Goto, fileVars, appVars, countVars, NoFile, NoApp, Version
<1>4. FileTypes' /\ FlagTypes' /\ CountTypes' /\ AppOK' /\ SomethingGood'
  BY DEF Inv, FileTypes, FlagTypes, CountTypes, AppOK, SomethingGood, WatchSucceeds, Goto,
         fileVars, appVars, countVars
<1> QED
  BY <1>1, <1>2, <1>3, <1>4 DEF Inv

LEMMA WatchTimesOutKeeps == Inv /\ WatchTimesOut => Inv'
<1> SUFFICES ASSUME Inv, WatchTimesOut PROVE Inv'
  OBVIOUS
<1> USE VersionsAssumption, BrokenAssumption, BoundsAssumption
<1>1. StepTypes'
  BY DEF Inv, StepTypes, FileTypes, CopiesOK, AppOK, StepOK, SomethingGood, WatchTimesOut,
         Goto, fileVars, countVars, Version, Steps, NoApp, NoFile
<1>2. CopiesOK'
  BY DEF Inv, CopiesOK, FileTypes, StepTypes, AppOK, StepOK, SomethingGood, WatchTimesOut,
         Goto, fileVars, countVars, NoFile
<1>3. AppOK'
  BY DEF Inv, AppOK, FileTypes, StepTypes, CopiesOK, StepOK, SomethingGood, WatchTimesOut,
         Goto, fileVars, countVars, NoApp, NoFile, Version
<1>4. StepOK'
  BY DEF Inv, StepOK, FileTypes, StepTypes, CopiesOK, AppOK, SomethingGood, WatchTimesOut,
         Goto, fileVars, countVars, NoFile, NoApp, Version
<1>5. FileTypes' /\ FlagTypes' /\ CountTypes' /\ SomethingGood'
  BY DEF Inv, FileTypes, FlagTypes, CountTypes, SomethingGood, WatchTimesOut, Goto, fileVars,
         countVars
<1> QED
  BY <1>1, <1>2, <1>3, <1>4, <1>5 DEF Inv

LEMMA WatchSeesExitKeeps == Inv /\ WatchSeesExit => Inv'
<1> SUFFICES ASSUME Inv, WatchSeesExit PROVE Inv'
  OBVIOUS
<1> USE VersionsAssumption, BrokenAssumption, BoundsAssumption
<1>1. StepTypes'
  BY DEF Inv, StepTypes, FileTypes, CopiesOK, AppOK, StepOK, SomethingGood, WatchSeesExit,
         Goto, fileVars, appVars, countVars, Version, Steps, NoApp, NoFile
<1>2. CopiesOK'
  BY DEF Inv, CopiesOK, FileTypes, StepTypes, AppOK, StepOK, SomethingGood, WatchSeesExit,
         Goto, fileVars, appVars, countVars, NoFile
<1>3. StepOK'
  BY DEF Inv, StepOK, FileTypes, StepTypes, CopiesOK, AppOK, SomethingGood, WatchSeesExit,
         Goto, fileVars, appVars, countVars, NoFile, NoApp, Version
<1>4. FileTypes' /\ FlagTypes' /\ CountTypes' /\ AppOK' /\ SomethingGood'
  BY DEF Inv, FileTypes, FlagTypes, CountTypes, AppOK, SomethingGood, WatchSeesExit, Goto,
         fileVars, appVars, countVars
<1> QED
  BY <1>1, <1>2, <1>3, <1>4 DEF Inv

LEMMA RevertKeeps == Inv /\ Revert => Inv'
<1> SUFFICES ASSUME Inv, Revert PROVE Inv'
  OBVIOUS
<1> USE VersionsAssumption, BrokenAssumption, BoundsAssumption
<1>1. FileTypes'
  BY DEF Inv, FileTypes, StepTypes, CopiesOK, AppOK, StepOK, SomethingGood, Revert, Fault,
         Restored, appVars, countVars, Version, NoFile, Partial, Altered, Content
<1>2. StepTypes'
  BY DEF Inv, StepTypes, FileTypes, CopiesOK, AppOK, StepOK, SomethingGood, Revert, Fault,
         Restored, appVars, countVars, Version, Steps, NoApp, NoFile
<1>3. CountTypes'
  BY DEF Inv, CountTypes, Revert, Fault, Restored, appVars, countVars
<1>4. CopiesOK'
  BY DEF Inv, CopiesOK, FileTypes, StepTypes, AppOK, StepOK, SomethingGood, Revert, Fault,
         Restored, appVars, countVars, NoFile
<1>5. AppOK'
  BY DEF Inv, AppOK, FileTypes, StepTypes, CopiesOK, StepOK, SomethingGood, Revert, Fault,
         Restored, appVars, countVars, NoApp, NoFile, Version
<1>6. StepOK'
  BY DEF Inv, StepOK, FileTypes, StepTypes, CopiesOK, AppOK, SomethingGood, Revert, Fault,
         Restored, appVars, countVars, NoFile, NoApp, Version
<1>7. SomethingGood'
  BY DEF Inv, SomethingGood, FileTypes, StepTypes, CopiesOK, AppOK, StepOK, Revert, Fault,
         Restored, appVars, countVars, NoFile
<1>8. FlagTypes'
  BY DEF Inv, FlagTypes, Revert, Fault, Restored, appVars, countVars
<1> QED
  BY <1>1, <1>2, <1>3, <1>4, <1>5, <1>6, <1>7, <1>8 DEF Inv

LEMMA RestoreFailsKeeps == Inv /\ RestoreFails => Inv'
<1> SUFFICES ASSUME Inv, RestoreFails PROVE Inv'
  OBVIOUS
<1> USE VersionsAssumption, BrokenAssumption, BoundsAssumption
<1>1. FileTypes'
  BY DEF Inv, FileTypes, StepTypes, CopiesOK, AppOK, StepOK, SomethingGood, RestoreFails,
         Fault, Restored, appVars, countVars, Version, NoFile, Partial, Altered, Content
<1>2. StepTypes'
  BY DEF Inv, StepTypes, FileTypes, CopiesOK, AppOK, StepOK, SomethingGood, RestoreFails,
         Fault, Restored, appVars, countVars, Version, Steps, NoApp, NoFile
<1>3. CountTypes'
  BY DEF Inv, CountTypes, RestoreFails, Fault, Restored, appVars, countVars
<1>4. CopiesOK'
  BY DEF Inv, CopiesOK, FileTypes, StepTypes, AppOK, StepOK, SomethingGood, RestoreFails,
         Fault, Restored, appVars, countVars, NoFile
<1>5. StepOK'
  BY DEF Inv, StepOK, FileTypes, StepTypes, CopiesOK, AppOK, SomethingGood, RestoreFails,
         Fault, Restored, appVars, countVars, NoFile, NoApp, Version
<1>6. FlagTypes' /\ AppOK' /\ SomethingGood'
  BY DEF Inv, FlagTypes, AppOK, SomethingGood, RestoreFails, Fault, Restored, appVars, countVars
<1> QED
  BY <1>1, <1>2, <1>3, <1>4, <1>5, <1>6 DEF Inv

LEMMA CleanupKeeps == Inv /\ Cleanup => Inv'
<1> SUFFICES ASSUME Inv, Cleanup PROVE Inv'
  OBVIOUS
<1> USE VersionsAssumption, BrokenAssumption, BoundsAssumption
<1>1. FileTypes'
  BY DEF Inv, FileTypes, StepTypes, CopiesOK, AppOK, StepOK, SomethingGood, Cleanup, appVars,
         countVars, Version, NoFile, Partial, Altered, Content
<1>2. StepTypes'
  BY DEF Inv, StepTypes, FileTypes, CopiesOK, AppOK, StepOK, SomethingGood, Cleanup, appVars,
         countVars, Version, Steps, NoApp, NoFile
<1>3. CopiesOK'
  BY DEF Inv, CopiesOK, FileTypes, StepTypes, AppOK, StepOK, SomethingGood, Cleanup, appVars,
         countVars, NoFile
<1>4. StepOK'
  BY DEF Inv, StepOK, FileTypes, StepTypes, CopiesOK, AppOK, SomethingGood, Cleanup, appVars,
         countVars, NoFile, NoApp, Version
<1>5. SomethingGood'
  BY DEF Inv, SomethingGood, FileTypes, StepTypes, CopiesOK, AppOK, StepOK, Cleanup, appVars,
         countVars, NoFile
<1>6. FlagTypes' /\ CountTypes' /\ AppOK'
  BY DEF Inv, FlagTypes, CountTypes, AppOK, Cleanup, appVars, countVars
<1> QED
  BY <1>1, <1>2, <1>3, <1>4, <1>5, <1>6 DEF Inv

LEMMA DiscardKeeps == Inv /\ Discard => Inv'
<1> SUFFICES ASSUME Inv, Discard PROVE Inv'
  OBVIOUS
<1> USE VersionsAssumption, BrokenAssumption, BoundsAssumption
<1>1. FileTypes'
  BY DEF Inv, FileTypes, StepTypes, CopiesOK, AppOK, StepOK, SomethingGood, Discard, appVars,
         countVars, Version, NoFile, Partial, Altered, Content
<1>2. StepTypes'
  BY DEF Inv, StepTypes, FileTypes, CopiesOK, AppOK, StepOK, SomethingGood, Discard, appVars,
         countVars, Version, Steps, NoApp, NoFile
<1>3. CopiesOK'
  BY DEF Inv, CopiesOK, FileTypes, StepTypes, AppOK, StepOK, SomethingGood, Discard, appVars,
         countVars, NoFile
<1>4. StepOK'
  BY DEF Inv, StepOK, FileTypes, StepTypes, CopiesOK, AppOK, SomethingGood, Discard, appVars,
         countVars, NoFile, NoApp, Version
<1>5. FlagTypes' /\ CountTypes' /\ AppOK' /\ SomethingGood'
  BY DEF Inv, FlagTypes, CountTypes, AppOK, SomethingGood, Discard, appVars, countVars
<1> QED
  BY <1>1, <1>2, <1>3, <1>4, <1>5 DEF Inv

LEMMA RelaunchKeeps == Inv /\ Relaunch => Inv'
<1> SUFFICES ASSUME Inv, Relaunch PROVE Inv'
  OBVIOUS
<1> USE VersionsAssumption, BrokenAssumption, BoundsAssumption
<1>1. StepTypes'
  <2>1. said' \in {"nothing", "failed", "previous", "restored", "updated"}
    BY DEF Relaunch
  <2>2. app' \in Version \cup {NoApp} /\ proven' \subseteq Version
    BY DEF Inv, StepTypes, FileTypes, Relaunch, NoApp
  <2> QED
    BY <2>1, <2>2 DEF Inv, StepTypes, Relaunch, Steps
<1>2. CountTypes'
  BY DEF Inv, CountTypes, Relaunch, Fault, fileVars, countVars
<1>3. CopiesOK'
  BY DEF Inv, CopiesOK, FileTypes, StepTypes, AppOK, StepOK, SomethingGood, Relaunch, Fault,
         fileVars, countVars, NoFile
<1>4. AppOK'
  BY DEF Inv, AppOK, FileTypes, StepTypes, CopiesOK, StepOK, SomethingGood, Relaunch, Fault,
         fileVars, countVars, NoApp, NoFile, Version
<1>5. StepOK'
  BY DEF Inv, StepOK, FileTypes, StepTypes, CopiesOK, AppOK, SomethingGood, Relaunch, Fault,
         fileVars, countVars, NoFile, NoApp, Version
<1>6. SomethingGood'
  BY DEF Inv, SomethingGood, FileTypes, StepTypes, CopiesOK, AppOK, StepOK, Relaunch, Fault,
         fileVars, countVars, NoFile
<1>7. FileTypes' /\ FlagTypes'
  BY DEF Inv, FileTypes, FlagTypes, Relaunch, Fault, fileVars, countVars
<1> QED
  BY <1>1, <1>2, <1>3, <1>4, <1>5, <1>6, <1>7 DEF Inv

LEMMA UserStartsAppKeeps == Inv /\ UserStartsApp => Inv'
<1> SUFFICES ASSUME Inv, UserStartsApp PROVE Inv'
  OBVIOUS
<1> USE VersionsAssumption, BrokenAssumption, BoundsAssumption
<1>1. StepTypes'
  BY DEF Inv, StepTypes, FileTypes, CopiesOK, AppOK, StepOK, SomethingGood, UserStartsApp,
         fileVars, helperVars, countVars, Version, Steps, NoApp, NoFile
<1>2. FlagTypes'
  BY DEF Inv, FlagTypes, UserStartsApp, fileVars, helperVars, countVars
<1>3. AppOK'
  BY DEF Inv, AppOK, FileTypes, StepTypes, CopiesOK, StepOK, SomethingGood, UserStartsApp,
         fileVars, helperVars, countVars, NoApp, NoFile, Version
<1>4. StepOK'
  BY DEF Inv, StepOK, FileTypes, StepTypes, CopiesOK, AppOK, SomethingGood, UserStartsApp,
         fileVars, helperVars, countVars, NoFile, NoApp, Version
<1>5. SomethingGood'
  BY DEF Inv, SomethingGood, FileTypes, StepTypes, CopiesOK, AppOK, StepOK, UserStartsApp,
         fileVars, helperVars, countVars, NoFile
<1>6. FileTypes' /\ CountTypes' /\ CopiesOK'
  BY DEF Inv, FileTypes, CountTypes, CopiesOK, UserStartsApp, fileVars, helperVars, countVars
<1> QED
  BY <1>1, <1>2, <1>3, <1>4, <1>5, <1>6 DEF Inv

LEMMA AppEndsKeeps == Inv /\ AppEnds => Inv'
<1> SUFFICES ASSUME Inv, AppEnds PROVE Inv'
  OBVIOUS
<1> USE VersionsAssumption, BrokenAssumption, BoundsAssumption
<1>1. StepTypes'
  BY DEF Inv, StepTypes, FileTypes, CopiesOK, AppOK, StepOK, SomethingGood, AppEnds, fileVars,
         helperVars, countVars, Version, Steps, NoApp, NoFile
<1>2. FlagTypes'
  BY DEF Inv, FlagTypes, AppEnds, fileVars, helperVars, countVars
<1>3. AppOK'
  BY DEF Inv, AppOK, FileTypes, StepTypes, CopiesOK, StepOK, SomethingGood, AppEnds, fileVars,
         helperVars, countVars, NoApp, NoFile, Version
<1>4. FileTypes' /\ CountTypes' /\ CopiesOK' /\ StepOK' /\ SomethingGood'
  BY DEF Inv, FileTypes, CountTypes, CopiesOK, StepOK, SomethingGood, AppEnds, fileVars,
         helperVars, countVars
<1> QED
  BY <1>1, <1>2, <1>3, <1>4 DEF Inv

LEMMA AppAcknowledgesKeeps == Inv /\ AppAcknowledges => Inv'
<1> SUFFICES ASSUME Inv, AppAcknowledges PROVE Inv'
  OBVIOUS
<1> USE VersionsAssumption, BrokenAssumption, BoundsAssumption
<1>1. StepTypes'
  BY DEF Inv, StepTypes, FileTypes, CopiesOK, AppOK, StepOK, SomethingGood, AppAcknowledges,
         fileVars, helperVars, countVars, Version, Steps, NoApp, NoFile
<1>2. AppOK'
  BY DEF Inv, AppOK, FileTypes, StepTypes, CopiesOK, StepOK, SomethingGood, AppAcknowledges,
         fileVars, helperVars, countVars, NoApp, NoFile, Version
<1>3. StepOK'
  BY DEF Inv, StepOK, FileTypes, StepTypes, CopiesOK, AppOK, SomethingGood, AppAcknowledges,
         fileVars, helperVars, countVars, NoFile, NoApp, Version
<1>4. SomethingGood'
  BY DEF Inv, SomethingGood, FileTypes, StepTypes, CopiesOK, AppOK, StepOK, AppAcknowledges,
         fileVars, helperVars, countVars, NoFile
<1>5. FileTypes' /\ FlagTypes' /\ CountTypes' /\ CopiesOK'
  BY DEF Inv, FileTypes, FlagTypes, CountTypes, CopiesOK, AppAcknowledges, fileVars,
         helperVars, countVars
<1> QED
  BY <1>1, <1>2, <1>3, <1>4, <1>5 DEF Inv

LEMMA AppGivesUpKeeps == Inv /\ AppGivesUp => Inv'
<1> SUFFICES ASSUME Inv, AppGivesUp PROVE Inv'
  OBVIOUS
<1> USE VersionsAssumption, BrokenAssumption, BoundsAssumption
<1>1. StepTypes'
  BY DEF Inv, StepTypes, FileTypes, CopiesOK, AppOK, StepOK, SomethingGood, AppGivesUp,
         fileVars, helperVars, countVars, Version, Steps, NoApp, NoFile
<1>2. AppOK'
  BY DEF Inv, AppOK, FileTypes, StepTypes, CopiesOK, StepOK, SomethingGood, AppGivesUp,
         fileVars, helperVars, countVars, NoApp, NoFile, Version
<1>3. FileTypes' /\ FlagTypes' /\ CountTypes' /\ CopiesOK' /\ StepOK' /\ SomethingGood'
  BY DEF Inv, FileTypes, FlagTypes, CountTypes, CopiesOK, StepOK, SomethingGood, AppGivesUp,
         fileVars, helperVars, countVars
<1> QED
  BY <1>1, <1>2, <1>3 DEF Inv

LEMMA AppReadyLateKeeps == Inv /\ AppReadyLate => Inv'
<1> SUFFICES ASSUME Inv, AppReadyLate PROVE Inv'
  OBVIOUS
<1> USE VersionsAssumption, BrokenAssumption, BoundsAssumption
<1>1. StepTypes'
  BY DEF Inv, StepTypes, FileTypes, CopiesOK, AppOK, StepOK, SomethingGood, AppReadyLate,
         fileVars, helperVars, appVars, countVars, Version, Steps, NoApp, NoFile
<1>2. AppOK'
  BY DEF Inv, AppOK, FileTypes, StepTypes, CopiesOK, StepOK, SomethingGood, AppReadyLate,
         fileVars, helperVars, appVars, countVars, NoApp, NoFile, Version
<1>3. StepOK'
  BY DEF Inv, StepOK, FileTypes, StepTypes, CopiesOK, AppOK, SomethingGood, AppReadyLate,
         fileVars, helperVars, appVars, countVars, NoFile, NoApp, Version
<1>4. SomethingGood'
  BY DEF Inv, SomethingGood, FileTypes, StepTypes, CopiesOK, AppOK, StepOK, AppReadyLate,
         fileVars, helperVars, appVars, countVars, NoFile
<1>5. FileTypes' /\ FlagTypes' /\ CountTypes' /\ CopiesOK'
  BY DEF Inv, FileTypes, FlagTypes, CountTypes, CopiesOK, AppReadyLate, fileVars, helperVars,
         appVars, countVars
<1> QED
  BY <1>1, <1>2, <1>3, <1>4, <1>5 DEF Inv

LEMMA DownloadChangesKeeps == Inv /\ DownloadChanges => Inv'
<1> SUFFICES ASSUME Inv, DownloadChanges PROVE Inv'
  OBVIOUS
<1> USE VersionsAssumption, BrokenAssumption, BoundsAssumption
<1>1. FileTypes'
  BY DEF Inv, FileTypes, StepTypes, CopiesOK, AppOK, StepOK, SomethingGood, DownloadChanges,
         Fault, helperVars, appVars, Version, NoFile, Partial, Altered, Content
<1>2. CountTypes'
  BY DEF Inv, CountTypes, DownloadChanges, Fault, helperVars, appVars
<1>3. StepTypes' /\ FlagTypes' /\ CopiesOK' /\ AppOK' /\ StepOK' /\ SomethingGood'
  BY DEF Inv, StepTypes, FlagTypes, CopiesOK, AppOK, StepOK, SomethingGood, DownloadChanges,
         Fault, helperVars, appVars
<1> QED
  BY <1>1, <1>2, <1>3 DEF Inv

LEMMA CrashKeeps == Inv /\ Crash => Inv'
<1> SUFFICES ASSUME Inv, Crash PROVE Inv'
  OBVIOUS
<1> USE VersionsAssumption, BrokenAssumption, BoundsAssumption
<1>1. FileTypes'
  BY DEF Inv, FileTypes, StepTypes, CopiesOK, AppOK, StepOK, SomethingGood, Crash, Version,
         NoFile, Partial, Altered, Content
<1>2. StepTypes'
  BY DEF Inv, StepTypes, FileTypes, CopiesOK, AppOK, StepOK, SomethingGood, Crash, Version,
         Steps, NoApp, NoFile
<1>3. FlagTypes'
  BY DEF Inv, FlagTypes, Crash
<1>4. CountTypes'
  BY DEF Inv, CountTypes, Crash
<1>5. CopiesOK'
  BY DEF Inv, CopiesOK, FileTypes, StepTypes, AppOK, StepOK, SomethingGood, Crash, NoFile
<1>6. AppOK'
  BY DEF Inv, AppOK, FileTypes, StepTypes, CopiesOK, StepOK, SomethingGood, Crash, NoApp,
         NoFile, Version
<1>7. StepOK'
  BY DEF Inv, StepOK, FileTypes, StepTypes, CopiesOK, AppOK, SomethingGood, Crash, NoFile,
         NoApp, Version
<1>8. SomethingGood'
  BY DEF Inv, SomethingGood, Crash
<1> QED
  BY <1>1, <1>2, <1>3, <1>4, <1>5, <1>6, <1>7, <1>8 DEF Inv

LEMMA StartUpdateKeeps == Inv /\ StartUpdate => Inv'
<1> SUFFICES ASSUME Inv, StartUpdate PROVE Inv'
  OBVIOUS
<1> USE VersionsAssumption, BrokenAssumption, BoundsAssumption
<1>1. FileTypes'
  BY DEF Inv, FileTypes, StepTypes, CopiesOK, AppOK, StepOK, SomethingGood, StartUpdate, Begin,
         Version, NoFile, Partial, Altered, Content
<1>2. StepTypes'
  <2>1. target' \in Version
    <3>1. CASE app \in Version \ Broken /\ target' \in app + 1 .. Versions
      BY <3>1 DEF Version
    <3>2. CASE target' \in backup + 1 .. Versions
      BY <3>2 DEF Inv, FileTypes, Version, NoFile
    <3> QED
      BY <3>1, <3>2 DEF StartUpdate
  <2>2. proven' \subseteq Version
    BY DEF Inv, StepTypes, StartUpdate
  <2> QED
    BY <2>1, <2>2 DEF Inv, StepTypes, StartUpdate, Begin, Steps
<1>3. FlagTypes'
  BY DEF Inv, FlagTypes, StartUpdate, Begin
<1>4. CountTypes'
  BY DEF Inv, CountTypes, StartUpdate, Begin
<1>5. CopiesOK'
  BY DEF Inv, CopiesOK, FileTypes, StepTypes, AppOK, StepOK, SomethingGood, StartUpdate, Begin,
         NoFile
<1>6. AppOK'
  BY DEF Inv, AppOK, FileTypes, StepTypes, CopiesOK, StepOK, SomethingGood, StartUpdate, Begin,
         NoApp, NoFile, Version
<1>7. StepOK'
  BY DEF Inv, StepOK, FileTypes, StepTypes, CopiesOK, AppOK, SomethingGood, StartUpdate, Begin,
         NoFile, NoApp, Version
<1>8. SomethingGood'
  BY DEF Inv, SomethingGood, FileTypes, StepTypes, CopiesOK, AppOK, StepOK, StartUpdate, Begin,
         NoFile
<1> QED
  BY <1>1, <1>2, <1>3, <1>4, <1>5, <1>6, <1>7, <1>8 DEF Inv

LEMMA StartRecoveryKeeps == Inv /\ StartRecovery => Inv'
<1> SUFFICES ASSUME Inv, StartRecovery PROVE Inv'
  OBVIOUS
<1> USE VersionsAssumption, BrokenAssumption, BoundsAssumption
<1>1. StepTypes'
  BY DEF Inv, StepTypes, FileTypes, CopiesOK, AppOK, StepOK, SomethingGood, StartRecovery,
         Begin, Version, Steps, NoApp, NoFile
<1>2. FlagTypes'
  BY DEF Inv, FlagTypes, StartRecovery, Begin
<1>3. CountTypes'
  BY DEF Inv, CountTypes, StartRecovery, Begin
<1>4. CopiesOK'
  BY DEF Inv, CopiesOK, FileTypes, StepTypes, AppOK, StepOK, SomethingGood, StartRecovery,
         Begin, NoFile
<1>5. AppOK'
  BY DEF Inv, AppOK, FileTypes, StepTypes, CopiesOK, StepOK, SomethingGood, StartRecovery,
         Begin, NoApp, NoFile, Version
<1>6. StepOK'
  BY DEF Inv, StepOK, FileTypes, StepTypes, CopiesOK, AppOK, SomethingGood, StartRecovery,
         Begin, NoFile, NoApp, Version
<1>7. FileTypes' /\ SomethingGood'
  BY DEF Inv, FileTypes, SomethingGood, StartRecovery, Begin
<1> QED
  BY <1>1, <1>2, <1>3, <1>4, <1>5, <1>6, <1>7 DEF Inv

----------------------------------------------------------------------------
\* Every step keeps the invariant, ...
LEMMA InvStep == Inv /\ [Next]_vars => Inv'
<1> SUFFICES ASSUME Inv, [Next]_vars PROVE Inv'
  OBVIOUS
<1>1. CASE Helper
  BY <1>1, WaitForExitKeeps, AdoptBackupKeeps, VerifyKeeps, CopyBeginsKeeps, CopyEndsKeeps,
     CheckCopyKeeps, CopyFailsKeeps, PublishKeeps, SwapKeeps, LaunchKeeps,
     WatchSucceedsKeeps, WatchTimesOutKeeps, WatchSeesExitKeeps, RevertKeeps,
     RestoreFailsKeeps, CleanupKeeps, DiscardKeeps, RelaunchKeeps
     DEF Helper
<1>2. CASE Environment
  BY <1>2, UserStartsAppKeeps, AppEndsKeeps, AppAcknowledgesKeeps, AppGivesUpKeeps,
     AppReadyLateKeeps, DownloadChangesKeeps, CrashKeeps, StartUpdateKeeps,
     StartRecoveryKeeps
     DEF Environment
<1>3. CASE UNCHANGED vars
  BY <1>3, InvStutter
<1> QED
  BY <1>1, <1>2, <1>3 DEF Next

\* ... so it holds in every state.
LEMMA InvAlways == Spec => []Inv
  BY InvInit, InvStep, PTL DEF Spec

\* Every variable holds a value of its kind, and the copies exist only where they are
\* used (TypeOK).
THEOREM HelperTypes == Spec => []TypeOK
<1>1. Inv => TypeOK
  BY DEF Inv, FileTypes, StepTypes, FlagTypes, CountTypes, CopiesOK, TypeOK
<1> QED
  BY <1>1, InvAlways, PTL

\* However often the helper fails or dies, a version that has worked is installed or
\* in the backup (SomethingGood).
THEOREM SomethingGoodAlways == Spec => []SomethingGood
<1>1. Inv => SomethingGood
  BY DEF Inv
<1> QED
  BY <1>1, InvAlways, PTL

----------------------------------------------------------------------------
(* What a step does to the installed program and its backup.               *)

\* The actions that say something about either; all others leave them alone.
Matters == \/ AdoptBackup \/ Publish \/ Swap \/ Revert \/ Cleanup \/ Relaunch
           \/ UserStartsApp \/ AppAcknowledges \/ AppReadyLate \/ StartUpdate

LEMMA OthersKeepFiles ==
    ASSUME Next, ~Matters
    PROVE  UNCHANGED <<current, backup, proven>>
<1>1. CASE Helper
  BY <1>1 DEF Matters, Helper, WaitForExit, Verify, CopyBegins, CopyEnds, CheckCopy, CopyFails,
         Launch, WatchSucceeds, WatchTimesOut, WatchSeesExit, RestoreFails, Discard, fileVars
<1>2. CASE Environment
  BY <1>2 DEF Matters, Environment, AppEnds, AppGivesUp, DownloadChanges, Crash, StartRecovery,
         Begin, fileVars
<1> QED
  BY <1>1, <1>2 DEF Next

\* The installed file is exchanged as a whole, for the checked download or the backup,
\* and never under a running app (NeverHalfInstalled).
THEOREM InstalledWhole == Spec => NeverHalfInstalled
<1>1. ASSUME Inv, [Next]_vars
      PROVE  \/ /\ current \in Version => current' \in Version
                /\ current' # current => current' \in {target, backup} /\ app = NoApp
             \/ UNCHANGED vars
  <2> DEFINE Goal == /\ current \in Version => current' \in Version
                     /\ current' # current => current' \in {target, backup} /\ app = NoApp
  <2> USE <1>1
  <2>1. CASE UNCHANGED current
    BY <2>1
  <2>2. CASE AdoptBackup
    BY <2>2 DEF AdoptBackup, Inv, AppOK, FileTypes, Version, NoApp, NoFile, fileVars
  <2>3. CASE Swap
    BY <2>3 DEF Swap, Inv, StepOK, StepTypes
  <2>4. CASE Revert
    BY <2>4 DEF Revert, Inv, StepOK, FileTypes
  <2>5. CASE UNCHANGED vars
    BY <2>5 DEF vars
  <2>6. CASE Matters /\ ~AdoptBackup /\ ~Swap /\ ~Revert
    <3> UNCHANGED current
      BY <2>6 DEF Matters, Publish, Cleanup, Relaunch, UserStartsApp, AppAcknowledges,
             AppReadyLate, StartUpdate, Begin, fileVars
    <3> QED
      BY <2>1
  <2> QED
    BY <2>1, <2>2, <2>3, <2>4, <2>5, <2>6, OthersKeepFiles
<1> QED
  BY <1>1, InvAlways, PTL DEF Spec, NeverHalfInstalled

----------------------------------------------------------------------------
(* UpdateHelper implements InstalledVersion.                               *)

LEMMA PromiseInit == Init => Promise!Init
<1> SUFFICES ASSUME Init PROVE Promise!Init
  OBVIOUS
<1>1. NoFile \notin Version
  BY DEF NoFile, Version
<1> QED
  BY <1>1 DEF Init, Promise!Init

LEMMA PromiseStep == Inv /\ [Next]_vars => [Promise!Next]_Promise!vars
<1> SUFFICES ASSUME Inv, [Next]_vars PROVE [Promise!Next]_Promise!vars
  OBVIOUS
<1> USE DEF Promise!vars
<1>1. CASE UNCHANGED <<current, backup, proven>>
  BY <1>1
<1>2. CASE AdoptBackup
  BY <1>2 DEF AdoptBackup, fileVars, Promise!Next, Promise!Adopt
<1>3. CASE Publish
  BY <1>3 DEF Publish, Inv, StepOK, Promise!Next, Promise!KeepFallback
<1>4. CASE Swap
  BY <1>4 DEF Swap, Inv, StepOK, StepTypes, Promise!Next, Promise!Switch
<1>5. CASE Revert
  BY <1>5 DEF Revert, Inv, StepOK, Promise!Next, Promise!Revert
<1>6. CASE Cleanup
  BY <1>6 DEF Cleanup, Inv, StepOK, Promise!Next, Promise!Forget
<1>7. CASE Relaunch
  BY <1>7 DEF Relaunch, fileVars, Promise!Next, Promise!Learn
<1>8. CASE UserStartsApp
  BY <1>8 DEF UserStartsApp, fileVars, Promise!Next, Promise!Learn
<1>9. CASE AppAcknowledges \/ AppReadyLate \/ StartUpdate
  <2> SUFFICES ASSUME UNCHANGED <<current, backup>>,
                      (proven' = proven \cup {app} /\ app # NoApp) \/ proven' = proven
               PROVE  Promise!Learn \/ UNCHANGED <<current, backup, proven>>
    BY <1>9, VersionsAssumption
       DEF AppAcknowledges, AppReadyLate, StartUpdate, Begin, fileVars, Promise!Next,
           Inv, AppOK, Version, NoApp
  <2> QED
    BY DEF Inv, AppOK, StepTypes, Promise!Learn
<1> QED
  BY <1>1, <1>2, <1>3, <1>4, <1>5, <1>6, <1>7, <1>8, <1>9, OthersKeepFiles DEF Matters, vars, fileVars

\* The helper with its copies, failures and deaths changes the installed version in one
\* step, to a whole version, and never without a working fallback
\* (ImplementsInstalledVersion).
THEOREM HelperKeepsPromise == Spec => ImplementsInstalledVersion
<1> QED
  BY PromiseInit, PromiseStep, InvAlways, PTL
     DEF Spec, ImplementsInstalledVersion, Promise!Spec

----------------------------------------------------------------------------
(* How far a helper is from its end.                                       *)

\* Where the longest way to the end leads through: an update and its failure, the way
\* back to the old version, the start of what is installed.
Remaining(step) ==
    CASE step = "idle"     -> 0  [] step = "relaunch"  -> 1  [] step = "discard" -> 2
      [] step = "revert"   -> 3  [] step = "restoring" -> 4  [] step = "restore" -> 5
      [] step = "cleanup"  -> 6  [] step = "watch"     -> 7  [] step = "launch"  -> 8
      [] step = "swap"     -> 9  [] step = "publish"   -> 10 [] step = "saving"  -> 11
      [] step = "save"     -> 12 [] step = "check"     -> 13 [] step = "copying" -> 14
      [] step = "copy"     -> 15 [] step = "verify"    -> 16 [] step = "adopt"   -> 17
      [] step = "wait"     -> 18

LEMMA RestoredAdvances ==
    ASSUME NEW how, Restored(how)
    PROVE  pc' \in {"discard", "relaunch", "idle"}
BY DEF Restored

LEMMA HelperStepAdvances == Helper => Remaining(pc') < Remaining(pc)
<1> SUFFICES ASSUME Helper PROVE Remaining(pc') < Remaining(pc)
  OBVIOUS
<1> USE DEF Remaining, Goto, Fail
<1>1. CASE WaitForExit
  BY <1>1 DEF WaitForExit
<1>2. CASE AdoptBackup
  BY <1>2 DEF AdoptBackup
<1>3. CASE Verify
  BY <1>3 DEF Verify
<1>4. CASE CopyBegins
  BY <1>4 DEF CopyBegins
<1>5. CASE CopyEnds
  BY <1>5 DEF CopyEnds
<1>6. CASE CheckCopy
  BY <1>6 DEF CheckCopy
<1>7. CASE CopyFails
  BY <1>7 DEF CopyFails
<1>8. CASE Publish
  BY <1>8 DEF Publish
<1>9. CASE Swap
  BY <1>9 DEF Swap
<1>10. CASE Launch
  BY <1>10 DEF Launch
<1>11. CASE WatchSucceeds \/ WatchTimesOut \/ WatchSeesExit
  BY <1>11 DEF WatchSucceeds, WatchTimesOut, WatchSeesExit
<1>12. CASE Revert \/ RestoreFails
  <2>1. pc \in {"revert", "restore", "restoring"}
    BY <1>12 DEF Revert, RestoreFails
  <2>2. pc' \in {"discard", "relaunch", "idle"}
    BY <1>12, RestoredAdvances DEF Revert, RestoreFails
  <2> QED
    BY <2>1, <2>2
<1>13. CASE Cleanup \/ Discard \/ Relaunch
  BY <1>13 DEF Cleanup, Discard, Relaunch
<1> QED
  BY <1>1, <1>2, <1>3, <1>4, <1>5, <1>6, <1>7, <1>8, <1>9, <1>10, <1>11, <1>12, <1>13 DEF Helper

LEMMA OthersDoNotSetBack ==
    ASSUME Environment, pc # "idle"
    PROVE  pc' \in {pc, "idle"}
BY DEF Environment, UserStartsApp, AppEnds, AppAcknowledges, AppGivesUp, AppReadyLate,
       DownloadChanges, Crash, StartUpdate, StartRecovery, Begin, helperVars

\* What HelperEnds rests on, for any number of versions, failures and deaths: each step
\* of a helper brings it closer to its end, and nobody else sets it back.  What failed
\* is not tried again; replace_file of transaction.rs repeats a rename of a locked file
\* for two seconds at most, which is one step here.
THEOREM HelperNeverGoesBack ==
    Spec => [][ /\ Helper => Remaining(pc') < Remaining(pc)
                /\ ~Helper /\ pc # "idle" => pc' \in {pc, "idle"} ]_vars
<1>1. ASSUME [Next]_vars
      PROVE  \/ /\ Helper => Remaining(pc') < Remaining(pc)
                /\ ~Helper /\ pc # "idle" => pc' \in {pc, "idle"}
             \/ UNCHANGED vars
  BY <1>1, HelperStepAdvances, OthersDoNotSetBack DEF Next
<1> QED
  BY <1>1, PTL DEF Spec

=============================================================================
