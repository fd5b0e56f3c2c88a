------------------------- MODULE TraySettingsToggles -------------------------
(***************************************************************************)
(* What the menu, the file and the registry have to do with each other,    *)
(* for any values the user saves and any number of edits, failures, starts *)
(* and deaths: the switch shows what a restart would load, a toggle of     *)
(* "start with Windows" is all or nothing when one operation fails, and a  *)
(* start without a failure leaves setting and registration in step.        *)
(*                                                                         *)
(* Two things carry these proofs.  Until the user saves, nothing but the   *)
(* app's own write changes what the file says (Reading): --self-check may  *)
(* create or heal it only while it says no more than the defaults.  And    *)
(* what a trip has seen fail decides what it may have left undone          *)
(* (Toggling, Starting).                                                   *)
(***************************************************************************)
EXTENDS TraySettingsSafety

\* What a start would load.
Disk == Merge(Default, file.value)
\* The app's transaction came to its end; it has read the file; the start is over;
\* what the file says is known.
Committed == io["app"] = "done" /\ result["app"] = "ok"
HasRead == io["app"] \in {"backup", "heal", "write"} \/ Committed
Past == at \notin {"down", "ensure", "load"}
Relies == faithful /\ (Past \/ (at = "load" /\ HasRead))

\* What each program wants of its transaction.  --self-check never writes settings.
Jobs ==
    /\ at = "ensure" => job["app"] = "ensure"
    /\ at = "load" => job["app"] = "load"
    /\ at \in {"adopted", "switch", "save"} => job["app"] = "update"
    /\ checkAt = "ensure" => job["check"] = "ensure"
    /\ checkAt = "load" => job["check"] = "load"
    /\ io["check"] # "write"
    /\ at # "ensure" => io["app"] \notin {"create", "fill"}
    /\ at \in {"ensure", "load"} => io["app"] # "write"
    /\ at \in {"change", "approving", "save", "adopted"} => want.field = "startup"
    /\ at = "switch" => want.field = "enabled"

LEMMA JobsStep == ASSUME Inv, Jobs, [Next]_vars PROVE Jobs'
<1> USE DEF Inv, Inside, TransTypes, Program, Enter, Leave, Fault, NoFault, Go, Ready, Finished,
            restStore, counts, transVars, registryVars, appVars, historyVars, storeVars, NoWish
<1>0. io \in [Program -> {"none", "lock", "create", "fill", "read", "backup", "heal", "write", "done"}]
  OBVIOUS
<1>1. CASE UNCHANGED vars
  BY <1>1 DEF Jobs, vars
<1>2. CASE Start
  BY <1>2 DEF Jobs, Start
<1>3. CASE Ensured
  BY <1>3 DEF Jobs, Ensured
<1>4. CASE Loaded
  BY <1>4 DEF Jobs, Loaded
<1>5. CASE Adopt
  BY <1>5 DEF Jobs, Adopt
<1>6. CASE Adopted
  BY <1>6 DEF Jobs, Adopted
<1>7. CASE Repair
  BY <1>7 DEF Jobs, Repair
<1>8. CASE Approve
  BY <1>8 DEF Jobs, Approve
<1>9. CASE ToggleEnabled
  BY <1>9 DEF Jobs, ToggleEnabled
<1>10. CASE Switched
  BY <1>10 DEF Jobs, Switched
<1>11. CASE ToggleStartup
  BY <1>11 DEF Jobs, ToggleStartup
<1>12. CASE Change
  BY <1>12 DEF Jobs, Change
<1>13. CASE Approving
  BY <1>13 DEF Jobs, Approving
<1>14. CASE Saved
  BY <1>14 DEF Jobs, Saved
<1>15. CASE Undo
  BY <1>15 DEF Jobs, Undo
<1>16. CASE Unapprove
  BY <1>16 DEF Jobs, Unapprove
<1>17. CASE Settle
  BY <1>17 DEF Jobs, Settle
<1>18. CASE AppWorks
  BY <1>18 DEF Jobs, AppWorks, Transaction, Acquire, AcquireFails, Create, Fill, Read,
     ReadFails, Backup, BackupFails, Heal, AfterHeal, Write, WriteFails, GoOn, Done
<1>19. CASE AppEnds
  BY <1>19 DEF Jobs, AppEnds, Abandon
<1>20. CASE CheckStarts
  BY <1>20 DEF Jobs, CheckStarts
<1>21. CASE CheckWorks
  <2>1. job["check"] \in {"ensure", "load"}
    BY <1>21 DEF Jobs, CheckWorks, AppTypes
  <2>2. io'["check"] # "write" /\ UNCHANGED <<io["app"], job>>
    BY <1>21, <2>1 DEF Jobs, CheckWorks, Transaction, Acquire, AcquireFails, Create, Fill, Read,
       ReadFails, Backup, BackupFails, Heal, AfterHeal, Write, WriteFails, GoOn, Done
  <2>3. UNCHANGED <<at, checkAt, want>>
    BY <1>21 DEF CheckWorks, Transaction, Acquire, AcquireFails, Create, Fill, Read,
       ReadFails, Backup, BackupFails, Heal, Write, WriteFails
  <2> QED
    BY <2>2, <2>3 DEF Jobs
<1>22. CASE CheckLoads
  BY <1>22 DEF Jobs, CheckLoads
<1>23. CASE CheckEnds
  BY <1>23 DEF Jobs, CheckEnds, Abandon
<1>24. CASE UserEdits
  BY <1>24 DEF Jobs, UserEdits, UserSaves
<1>25. CASE UserTweaks
  BY <1>25 DEF Jobs, UserTweaks, Tweak
<1> QED
  BY <1>1, <1>2, <1>3, <1>4, <1>5, <1>6, <1>7, <1>8, <1>9, <1>10, <1>11, <1>12, <1>13, <1>14,
     <1>15, <1>16, <1>17, <1>18, <1>19, <1>20, <1>21, <1>22, <1>23, <1>24, <1>25 DEF Next, App

\* The file says what the app holds, but for what it has just written; and a program
\* that is about to put the defaults there has read a broken file, which says the same.
Reading ==
    Relies =>
      /\ \A p \in Program : io[p] \in {"fill", "backup", "heal"} => file.state = "broken"
      /\ at = "load" => Disk = Merge(Default, seen["app"])
      /\ Past => /\ flag.enabled = settings.enabled
                 /\ Disk["enabled"] = IF at = "switch" /\ Committed THEN want.to ELSE settings.enabled
                 /\ HasRead => seen["app"]["enabled"] \in {"bad", settings.enabled}

----------------------------------------------------------------------------
(* What the file says.                                                     *)

\* A file that is no object says the defaults.
LEMMA PlainDisk ==
    ASSUME NEW c \in Content, c.state # "object"
    PROVE  Merge(Default, c.value) = Default
  BY ContentFields DEF Merge, NoValue, Default

LEMMA ObjectDisk ==
    ASSUME NEW v \in [Field -> Setting]
    PROVE  Merge(Default, Object(v).value) = v
<1>1. Object(v).value = v /\ \A f \in Field : v[f] # "bad"
  BY DEF Object, Setting
<1> QED
  BY <1>1 DEF Merge


\* --self-check changes the bytes of the file, never what it says.
LEMMA CheckReads ==
    ASSUME Inv, Jobs, Reading, Relies, CheckWorks
    PROVE  /\ Disk' = Disk
           /\ \A p \in Program : io'[p] \in {"fill", "backup", "heal"} => file'.state = "broken"
<1> USE DEF Program, Nobody, GoOn, Done
<1>0. /\ io \in [Program -> {"none", "lock", "create", "fill", "read", "backup", "heal", "write", "done"}]
      /\ \A p \in Program : io[p] \notin {"none", "lock", "done"} <=> lock = p
      /\ file \in Content
  BY DEF Inv, TransTypes, FileTypes
<1>1. \A p \in Program : io[p] \in {"fill", "backup", "heal"} => file.state = "broken"
  BY DEF Reading
<1>2. io["check"] # "write" /\ job["check"] \in {"ensure", "load"}
  BY DEF Jobs, Inv, AppTypes, CheckWorks
<1>3. \A p \in Program \ {"check"} : UNCHANGED io[p]
  BY <1>0, TransactionKeeps DEF CheckWorks, StoreKept
<1>4. CASE UNCHANGED file
  <2>1. io'["check"] \in {"fill", "backup", "heal"} => file.state = "broken"
    BY <1>0, <1>1, <1>2, <1>4, ContentFields DEF CheckWorks, Transaction, Acquire, AcquireFails, Create, Fill, Read,
       ReadFails, Backup, BackupFails, Heal, AfterHeal, Write, WriteFails, Broken
  <2> QED
    BY <1>1, <1>3, <1>4, <2>1 DEF Disk
<1>5. CASE file' # file
  <2>0. Broken(0).state = "broken" /\ Missing.state = "missing"
    BY DEF Broken, Missing
  <2>1. /\ file' \in {Broken(0), Object(Default)}
        /\ file.state # "object"
        /\ io["check"] \in {"create", "fill", "heal"}
        /\ io'["check"] \in {"fill", "done"} /\ (io'["check"] = "fill" => file' = Broken(0))
    BY <1>0, <1>1, <1>2, <1>5 DEF CheckWorks, Transaction, Acquire, AcquireFails, Create, Fill, Read,
       ReadFails, Backup, BackupFails, Heal, AfterHeal, Write, WriteFails
  <2>2. Disk = Default
    BY <1>0, <2>1, PlainDisk DEF Disk
  <2>3. Disk' = Default
    BY <2>0, <2>1, BoundsAssumption, BrokenContent, PlainDisk, ObjectDisk, DefaultType DEF Disk
  <2>4. lock = "check"
    BY <1>0, <2>1
  <2> QED
    BY <1>0, <1>3, <2>0, <2>1, <2>2, <2>3, <2>4
<1> QED
  BY <1>4, <1>5

\* What a transaction of the app does to what is on disk.
LEMMA AppWrites ==
    ASSUME Inv, Jobs, Reading, Relies, AppWorks
    PROVE  \/ Disk' = Disk /\ (Past => ~Committed')
           \/ /\ io["app"] = "write" /\ Committed' /\ UNCHANGED seen
              /\ Disk' = [Merge(settings, seen["app"]) EXCEPT ![want.field] = want.to]
<1> USE DEF Program, Nobody, GoOn, Done
<1>0. /\ io \in [Program -> {"none", "lock", "create", "fill", "read", "backup", "heal", "write", "done"}]
      /\ result \in [Program -> {"ok", "failed"}]
      /\ seen["app"] \in Value /\ settings \in [Field -> Setting]
      /\ want.field \in Field /\ want.to \in Setting
      /\ file \in Content
  BY DEF Inv, TransTypes, FileTypes, MindTypes, Field
<1>1. io["app"] \in {"fill", "backup", "heal"} => file.state = "broken"
  BY DEF Reading
<1>2. /\ io["app"] \notin {"create", "fill"} /\ io'["app"] # "none"
      /\ IF at = "load" THEN job["app"] = "load" /\ io["app"] # "write" ELSE job["app"] = "update"
  <2>1. io["app"] # "none" /\ io'["app"] # "none"
    BY TransactionKeeps DEF AppWorks, StoreKept
  <2>2. at \in {"load", "adopted", "switch", "save"}
    BY <2>1 DEF Inv, Inside, Relies, Past
  <2> QED
    BY <2>1, <2>2 DEF Jobs
<1>3. CASE Write("app")
  <2>1. [Merge(settings, seen["app"]) EXCEPT ![want.field] = want.to] \in [Field -> Setting]
    BY <1>0, MergeType
  <2> QED
    BY <1>0, <1>3, <2>1, ObjectDisk DEF Write, Disk, Committed
<1>4. CASE Heal("app")
  <2>1. Disk = Default
    BY <1>0, <1>1, <1>4, PlainDisk DEF Disk, Heal
  <2>2. Disk' = Default
    BY <1>4, <2>1, ObjectDisk, DefaultType DEF Disk, Heal
  <2>3. Past => ~Committed'
    BY <1>0, <1>2, <1>4 DEF Heal, AfterHeal, Past, Committed
  <2> QED
    BY <2>1, <2>2, <2>3
<1>5. CASE ~Write("app") /\ ~Heal("app")
  <2>1. UNCHANGED file
    BY <1>2, <1>5 DEF AppWorks, Transaction, Acquire, AcquireFails, Create, Fill, Read,
       ReadFails, Backup, BackupFails, WriteFails
  <2>2. Past => ~Committed'
    BY <1>0, <1>2, <1>5 DEF AppWorks, Transaction, Acquire, AcquireFails, Create, Fill, Read,
       ReadFails, Backup, BackupFails, WriteFails, Past, Committed
  <2> QED
    BY <2>1, <2>2 DEF Disk
<1> QED
  BY <1>3, <1>4, <1>5

\* A transaction of the app keeps Reading.
LEMMA AppReads ==
    ASSUME Inv, Jobs, Reading, AppWorks
    PROVE  Reading'
<1> SUFFICES ASSUME Relies'
             PROVE  Reading'
  BY DEF Reading
<1> USE DEF Program, Nobody, GoOn, Done
<1>0. /\ io \in [Program -> {"none", "lock", "create", "fill", "read", "backup", "heal", "write", "done"}]
      /\ result \in [Program -> {"ok", "failed"}]
      /\ seen \in [Program -> Value] /\ settings \in [Field -> Setting]
      /\ \A p \in Program : io[p] \notin {"none", "lock", "done"} <=> lock = p
      /\ want.field \in Field /\ want.to \in Setting
      /\ file \in Content /\ file.value \in Value
  BY ContentFields DEF Inv, TransTypes, FileTypes, MindTypes, Field
<1>1. /\ UNCHANGED <<at, faithful, flag, settings, want, job>>
      /\ at \notin {"down", "ensure"} /\ faithful
      /\ \A p \in Program \ {"app"} : UNCHANGED io[p]
  BY <1>0, TransactionKeeps DEF AppWorks, StoreKept, appVars, Relies, Past, Transaction, Acquire, AcquireFails, Create, Fill, Read,
       ReadFails, Backup, BackupFails, Heal, Write, WriteFails
<1>2. io["app"] \notin {"create", "fill"}
  BY <1>1 DEF Jobs
<1>3. IF at = "load" THEN job["app"] = "load" /\ io["app"] # "write" ELSE job["app"] = "update" /\ Past
  BY <1>1 DEF Jobs, Inv, Inside, AppTypes, AppWorks, Past, Transaction, Acquire, AcquireFails, Create, Fill, Read,
       ReadFails, Backup, BackupFails, Heal, AfterHeal, Write, WriteFails
<1>4. CASE Read("app")
  <2>1. lock = "app" /\ UNCHANGED file /\ seen'["app"] = file.value
    BY <1>0, <1>4 DEF Read
  <2>2. \A p \in Program : io'[p] \in {"fill", "backup", "heal"} => file'.state = "broken"
    BY <1>0, <1>1, <1>4, <2>1 DEF Read
  <2>3. Disk' = Disk /\ Disk' = Merge(Default, seen'["app"])
    BY <2>1 DEF Disk
  <2>4. ASSUME Past
        PROVE  /\ flag.enabled = settings.enabled
               /\ Disk["enabled"] = settings.enabled
               /\ ~Committed'
               /\ seen'["app"]["enabled"] \in {"bad", settings.enabled}
    <3>1. Relies /\ ~Committed
      BY <1>1, <1>4, <2>4 DEF Relies, Read, Committed
    <3>2. Disk["enabled"] = IF file.value["enabled"] = "bad" THEN Default["enabled"] ELSE file.value["enabled"]
      BY DEF Disk, Merge, Field
    <3>3. ~Committed'
      BY <1>0, <1>3, <1>4, <2>4 DEF Read, Committed, Past
    <3> QED
      BY <2>1, <2>4, <3>1, <3>2, <3>3 DEF Reading
  <2> QED
    BY <1>1, <2>2, <2>3, <2>4 DEF Reading, Past
<1>5. CASE ~Read("app")
  <2>1. Relies
    BY <1>0, <1>1, <1>2, <1>3, <1>5 DEF Relies, Past, HasRead, Committed, AppWorks, Transaction, Acquire, AcquireFails, Create, Fill,
       ReadFails, Backup, BackupFails, Heal, AfterHeal, Write, WriteFails
  <2>2. UNCHANGED seen
    BY <1>5 DEF AppWorks, Transaction, Acquire, AcquireFails, Create, Fill,
       ReadFails, Backup, BackupFails, Heal, AfterHeal, Write, WriteFails
  <2>3. \A p \in Program : io'[p] \in {"fill", "backup", "heal"} => file'.state = "broken"
    <3>1. \A p \in Program : io[p] \in {"fill", "backup", "heal"} => file.state = "broken"
      BY <2>1 DEF Reading
    <3>2. CASE UNCHANGED file
      <4>1. io'["app"] \in {"fill", "backup", "heal"} => io["app"] \in {"fill", "backup", "heal"}
        BY <1>0, <1>2, <1>3, <1>5 DEF Jobs, AppWorks, Transaction, Acquire, AcquireFails, Create, Fill,
          ReadFails, Backup, BackupFails, Heal, AfterHeal, Write, WriteFails
      <4> QED
        BY <1>1, <3>1, <3>2, <4>1
    <3>3. CASE ~UNCHANGED file
      <4>1. /\ io["app"] \in {"heal", "write"} /\ io'["app"] \in {"write", "done"}
        BY <1>0, <1>2, <1>5, <3>3 DEF AppWorks, Transaction, Acquire, AcquireFails, Create, Fill,
          ReadFails, Backup, BackupFails, Heal, AfterHeal, Write, WriteFails
      <4> QED
        BY <1>0, <1>1, <4>1
    <3> QED
      BY <3>2, <3>3
  <2>4. at = "load" => Disk' = Merge(Default, seen'["app"])
    BY <1>3, <2>1, <2>2, AppWrites DEF Reading
  <2>5. ASSUME Past
        PROVE  /\ flag.enabled = settings.enabled
               /\ Disk'["enabled"] = IF at = "switch" /\ Committed' THEN want.to ELSE settings.enabled
               /\ HasRead' => seen["app"]["enabled"] \in {"bad", settings.enabled}
    <3>1. HasRead' => HasRead
      BY <1>0, <1>2, <1>3, <1>5, <2>5 DEF Past, HasRead, Committed, AppWorks, Transaction, Acquire, AcquireFails, Create, Fill,
        ReadFails, Backup, BackupFails, Heal, AfterHeal, Write, WriteFails
    <3>2. flag.enabled = settings.enabled /\ (HasRead' => seen["app"]["enabled"] \in {"bad", settings.enabled})
      BY <2>1, <2>5, <3>1 DEF Reading
    <3>3. ~Committed
      BY <1>0 DEF Committed, AppWorks, Transaction, Acquire, AcquireFails, Create, Fill, Read,
        ReadFails, Backup, BackupFails, Heal, AfterHeal, Write, WriteFails
    <3>4. CASE Disk' = Disk /\ ~Committed'
      BY <2>1, <2>5, <3>2, <3>3, <3>4 DEF Reading
    <3>5. CASE /\ io["app"] = "write" /\ Committed'
               /\ Disk' = [Merge(settings, seen["app"]) EXCEPT ![want.field] = want.to]
      <4>1. Merge(settings, seen["app"])["enabled"] = settings.enabled
        BY <2>1, <2>5, <3>5 DEF Reading, HasRead, Merge, Field
      <4>2. Merge(settings, seen["app"]) \in [Field -> Setting]
        BY <1>0, MergeType
      <4>3. at \in {"adopted", "save", "switch"}
        BY <2>5, <3>5 DEF Inv, Inside, Past
      <4>4. at = "switch" => want.field = "enabled"
        BY DEF Jobs
      <4>5. at # "switch" => want.field = "startup"
        BY <4>3 DEF Jobs
      <4> QED
        BY <1>0, <3>2, <3>5, <4>1, <4>2, <4>4, <4>5 DEF Field
    <3> QED
      BY <2>1, <2>5, <3>4, <3>5, AppWrites
  <2> QED
    BY <1>1, <2>2, <2>3, <2>4, <2>5 DEF Reading, Past
<1> QED
  BY <1>4, <1>5

\* So does every step.
LEMMA ReadingStep == ASSUME Inv, Jobs, Reading, [Next]_vars PROVE Reading'
<1> USE DEF Program, Enter, Leave, Fault, NoFault, Go, Ready, Finished, Relies, Past, HasRead, Committed, Disk,
            restStore, counts, transVars, registryVars, appVars, historyVars, storeVars
<1>0. /\ io \in [Program -> {"none", "lock", "create", "fill", "read", "backup", "heal", "write", "done"}]
      /\ result \in [Program -> {"ok", "failed"}]
      /\ seen \in [Program -> Value] /\ settings \in [Field -> Setting]
      /\ flag \in [enabled : Setting, startup : Setting]
      /\ io["app"] # "none" => at \in {"ensure", "load", "adopted", "switch", "save"}
  BY DEF Inv, TransTypes, MindTypes, AppTypes, Inside
<1>1. CASE UNCHANGED vars
  BY <1>1 DEF Reading, vars
<1>2. CASE Start \/ UserEdits \/ AppEnds
  BY <1>2 DEF Reading, Start, UserEdits, AppEnds
<1>3. CASE Ensured
  BY <1>0, <1>3 DEF Reading, Ensured
<1>4. CASE Loaded
  <2>1. Merge(Default, seen["app"])["enabled"] = settings'.enabled /\ flag'.enabled = settings'.enabled
    BY <1>4 DEF Loaded
  <2> QED
    BY <1>0, <1>4, <2>1 DEF Reading, Loaded
<1>5. CASE Adopt
  BY <1>0, <1>5 DEF Reading, Adopt, RunRead, Field
<1>6. CASE Adopted
  BY <1>0, <1>6 DEF Reading, Adopted
<1>7. CASE Repair
  BY <1>0, <1>7 DEF Reading, Repair
<1>8. CASE Approve
  BY <1>0, <1>8 DEF Reading, Approve
<1>9. CASE ToggleEnabled
  BY <1>0, <1>9 DEF Reading, ToggleEnabled
<1>10. CASE Switched
  <2>1. CASE result["app"] = "ok"
    <3>1. /\ settings'.enabled = want.to /\ flag'.enabled = want.to
      <4>1. want.field = "enabled" /\ Merge(settings, seen["app"]) \in [Field -> Setting]
        BY <1>0, <1>10, MergeType DEF Jobs, Switched
      <4> QED
        BY <1>0, <1>10, <2>1, <4>1 DEF Switched, Written, Field
    <3> QED
      BY <1>0, <1>10, <2>1, <3>1 DEF Reading, Switched
  <2>2. CASE result["app"] # "ok"
    BY <1>0, <1>10, <2>2 DEF Reading, Switched
  <2> QED
    BY <2>1, <2>2
<1>11. CASE ToggleStartup
  BY <1>0, <1>11 DEF Reading, ToggleStartup
<1>12. CASE Change
  BY <1>0, <1>12 DEF Reading, Change
<1>13. CASE Approving
  BY <1>0, <1>13 DEF Reading, Approving
<1>14. CASE Saved
  <2>1. CASE result["app"] = "ok" /\ faithful
    <3>1. /\ settings'.enabled = settings.enabled /\ flag'.enabled = flag.enabled
      <4>1. want.field = "startup" /\ Merge(settings, seen["app"]) \in [Field -> Setting]
        BY <1>0, <1>14, MergeType DEF Jobs, Saved
      <4>2. Merge(settings, seen["app"])["enabled"] = settings.enabled
        BY <1>14, <2>1 DEF Reading, Saved, Merge, Field
      <4> QED
        BY <1>0, <1>14, <2>1, <4>1, <4>2 DEF Saved, Written, Field
    <3> QED
      BY <1>0, <1>14, <2>1, <3>1 DEF Reading, Saved
  <2>2. CASE ~(result["app"] = "ok" /\ faithful)
    BY <1>0, <1>14, <2>2 DEF Reading, Saved
  <2> QED
    BY <2>1, <2>2
<1>15. CASE Undo
  BY <1>0, <1>15 DEF Reading, Undo
<1>16. CASE Unapprove
  BY <1>0, <1>16 DEF Reading, Unapprove
<1>17. CASE Settle
  BY <1>0, <1>17 DEF Reading, Settle
<1>18. CASE AppWorks
  BY <1>18, AppReads
<1>19. CASE CheckStarts
  BY <1>0, <1>19 DEF Reading, CheckStarts
<1>20. CASE CheckWorks
  <2>1. /\ UNCHANGED <<at, faithful, flag, settings, want>>
        /\ UNCHANGED <<io["app"], result["app"], seen["app"]>>
    BY <1>0, <1>20 DEF CheckWorks, Transaction, Acquire, AcquireFails, Create, Fill, Read,
       ReadFails, Backup, BackupFails, Heal, AfterHeal, Write, WriteFails, GoOn, Done
  <2>2. Relies' <=> Relies
    BY <2>1
  <2> QED
    BY <1>20, <2>1, <2>2, CheckReads DEF Reading
<1>21. CASE CheckLoads
  BY <1>0, <1>21 DEF Reading, CheckLoads
<1>22. CASE CheckEnds
  BY <1>0, <1>22 DEF Reading, CheckEnds, Abandon
<1>23. CASE UserTweaks
  BY <1>0, <1>23 DEF Reading, UserTweaks
<1> QED
  BY <1>1, <1>2, <1>3, <1>4, <1>5, <1>6, <1>7, <1>8, <1>9, <1>10, <1>11, <1>12, <1>13, <1>14,
     <1>15, <1>16, <1>17, <1>18, <1>19, <1>20, <1>21, <1>22, <1>23 DEF Next, App

----------------------------------------------------------------------------
(* A toggle of "start with Windows".                                       *)

\* 1 when the command that was there could not be read.
Missed == IF previous = trip.run THEN 0 ELSE 1
Calm == faithful /\ ~trip.disturbed

\* Registry and file through the toggle.  Where it is undone something has failed, and
\* one more thing when the rollback does not know what was there.
Toggling ==
    Calm /\ at \in {"change", "approving", "save", "undo", "unapprove", "settle"} =>
      /\ Disk["startup"] = IF at = "save" /\ Committed THEN want.to ELSE trip.saved
      /\ at \in {"change", "approving", "save"} => trip.hits >= Missed
      /\ at = "change" => run = trip.run
      /\ at \in {"approving", "save"} => run = NewCommand
      /\ at = "undo" \/ (at = "save" /\ io["app"] = "done" /\ ~Committed) => trip.hits >= 1 + Missed
      /\ at \in {"unapprove", "settle"} /\ trip.hits <= 1 => run = trip.run

\* Whether a failure of this step is counted.
LEMMA CountStep ==
    ASSUME Inv, FaultStep, Count
    PROVE  /\ trip' = [trip EXCEPT !.hits = trip'.hits]
           /\ trip.hits \in 0 .. 2 /\ trip'.hits \in 0 .. 2 /\ trip'.hits >= trip.hits
           /\ NoFault => trip'.hits = trip.hits
           /\ Fault /\ trip.hits <= 1 => trip'.hits = trip.hits + 1
<1> USE BoundsAssumption
<1>1. trip \in TripType /\ faults \in 0 .. Faults
  BY DEF Inv, AppTypes, TripType, FileTypes
<1>2. trip' = [trip EXCEPT !.hits = Hits]
  BY DEF Count
<1>3. trip'.hits = Hits /\ trip.hits \in 0 .. 2
  BY <1>1, <1>2 DEF TripType
<1>4. trip' = [trip EXCEPT !.hits = trip'.hits]
  BY <1>2, <1>3
<1>5. CASE NoFault
  <2>1. Hits = trip.hits /\ ~Fault
    BY <1>1, <1>3, <1>5 DEF Hits, NoFault, Fault
  <2> QED
    BY <1>3, <1>4, <1>5, <2>1
<1>6. CASE Fault
  <2>1. Hits = (IF trip.hits + 1 > 2 THEN 2 ELSE trip.hits + 1) /\ ~NoFault
    BY <1>1, <1>3, <1>6 DEF Hits, NoFault, Fault
  <2> QED
    BY <1>3, <1>4, <1>6, <2>1
<1> QED
  BY <1>5, <1>6 DEF FaultStep, NoFault

\* The transaction that saves the toggle.
LEMMA AppToggles ==
    ASSUME Inv, Jobs, Reading, Toggling, AppWorks
    PROVE  Toggling'
<1> SUFFICES ASSUME Calm', at = "save"
             PROVE  Toggling'
  <2>1. io["app"] # "none" /\ UNCHANGED at
    BY TransactionKeeps DEF AppWorks, StoreKept, appVars, Program
  <2> QED
    BY <2>1 DEF Toggling, Inv, Inside
<1>1. FaultStep
  BY DEF AppWorks, FaultStep, Transaction, Acquire, AcquireFails, Create, Fill, Read,
     ReadFails, Backup, BackupFails, Heal, Write, WriteFails, NoFault
<1>2. Count /\ UNCHANGED <<at, previous, run, faithful, want, settings>>
  BY DEF AppWorks, registryVars, appVars, Transaction, Acquire, AcquireFails, Create, Fill, Read,
     ReadFails, Backup, BackupFails, Heal, Write, WriteFails
<1>3. trip.hits \in 0 .. 2 /\ trip'.hits \in 0 .. 2 /\ trip'.hits >= trip.hits
  BY <1>1, <1>2, CountStep
<1>4. trip \in TripType
  BY DEF Inv, AppTypes, TripType
<1>5. trip'.run = trip.run /\ trip'.saved = trip.saved /\ trip'.disturbed = trip.disturbed
  BY <1>1, <1>2, <1>4, CountStep DEF TripType
<1>6. Calm /\ Relies /\ Past /\ Missed' = Missed
  BY <1>2, <1>5 DEF Calm, Relies, Past, Missed
<1>7. ~Committed /\ io["app"] # "done"
  BY DEF Committed, AppWorks, Transaction, Acquire, AcquireFails, Create, Fill, Read,
     ReadFails, Backup, BackupFails, Heal, Write, WriteFails
<1>8. Disk'["startup"] = IF Committed' THEN want.to ELSE trip.saved
  <2>1. CASE Disk' = Disk /\ ~Committed'
    BY <1>6, <1>7, <2>1 DEF Toggling
  <2>2. CASE /\ io["app"] = "write" /\ Committed'
             /\ Disk' = [Merge(settings, seen["app"]) EXCEPT ![want.field] = want.to]
    <3>1. want.field = "startup"
      BY DEF Jobs
    <3>2. Merge(settings, seen["app"]) \in [Field -> Setting]
      BY MergeType DEF Inv, TransTypes, MindTypes, Program
    <3> QED
      BY <2>2, <3>1, <3>2 DEF Field
  <2> QED
    BY <1>6, <2>1, <2>2, AppWrites
<1>9. io'["app"] = "done" /\ ~Committed' => trip'.hits >= 1 + Missed
  <2> SUFFICES ASSUME io'["app"] = "done", ~Committed'
               PROVE  trip'.hits >= 1 + Missed
    OBVIOUS
  <2>1. Fault
    <3>1. job["app"] = "update" /\ io["app"] \notin {"create", "fill"}
      BY DEF Jobs
    <3>2. io["app"] = "backup" => file.state = "broken"
      BY <1>6 DEF Reading, Program
    <3> QED
      BY <3>1, <3>2 DEF Inv, TransTypes, Program, Committed, AppWorks, Transaction, Acquire, AcquireFails, Create, Fill, Read,
         ReadFails, Backup, BackupFails, Heal, AfterHeal, GoOn, Done, Write, WriteFails
  <2>2. trip.hits >= Missed
    BY <1>6 DEF Toggling
  <2>3. Missed \in {0, 1}
    BY DEF Missed
  <2> QED
    BY <1>1, <1>2, <1>3, <2>1, <2>2, <2>3, CountStep
<1>10. trip.hits >= Missed /\ run = NewCommand
  BY <1>6 DEF Toggling
<1>11. Missed \in {0, 1} /\ NewCommand' = NewCommand
  BY <1>2 DEF Missed, NewCommand
<1> QED
  BY <1>2, <1>3, <1>5, <1>6, <1>8, <1>9, <1>10, <1>11 DEF Toggling

\* Every step.
LEMMA TogglingStep == ASSUME Inv, Jobs, Reading, Toggling, [Next]_vars PROVE Toggling'
<1> USE DEF Program, Enter, Leave, Go, Ready, Finished, Committed, Disk, Calm,
            restStore, counts, transVars, registryVars, appVars, storeVars
<1>0. /\ io \in [Program -> {"none", "lock", "create", "fill", "read", "backup", "heal", "write", "done"}]
      /\ result \in [Program -> {"ok", "failed"}]
      /\ trip \in TripType
      /\ io["app"] # "none" => at \in {"ensure", "load", "adopted", "switch", "save"}
  BY DEF Inv, TransTypes, AppTypes, Inside, TripType
<1>a. ASSUME Count, FaultStep
      PROVE  /\ trip.hits \in 0 .. 2 /\ trip'.hits \in 0 .. 2 /\ trip'.hits >= trip.hits
             /\ trip'.run = trip.run /\ trip'.saved = trip.saved /\ trip'.disturbed = trip.disturbed
             /\ Fault /\ trip.hits <= 1 => trip'.hits = trip.hits + 1
  BY <1>0, <1>a, CountStep DEF TripType
<1>b. Missed \in {0, 1}
  BY DEF Missed
<1>1. CASE UNCHANGED vars
  BY <1>1 DEF Toggling, vars, historyVars, Missed, NewCommand
<1>2. CASE Start \/ Ensured \/ Loaded \/ Adopt \/ Adopted \/ Repair \/ Approve \/ ToggleEnabled
             \/ Switched \/ Settle \/ AppEnds \/ UserEdits
  BY <1>2 DEF Toggling, Start, Ensured, Loaded, Adopt, Adopted, Repair, Approve, ToggleEnabled,
     Switched, Settle, AppEnds, UserEdits
<1>3. CASE ToggleStartup
  <2>1. /\ trip' = [hits |-> faults' - faults, disturbed |-> FALSE, run |-> run, saved |-> Disk["startup"]]
        /\ \/ previous' = run /\ faults' = faults
           \/ previous' = "none" /\ faults' = faults + 1
    BY <1>3 DEF ToggleStartup, Begin, OnDisk, RunRead, Fault, NoFault
  <2>2. faults \in Nat
    BY BoundsAssumption DEF Inv, FileTypes
  <2>3. trip'.hits >= Missed'
    BY <2>1, <2>2 DEF Missed
  <2>4. at' = "change" /\ run' = run /\ UNCHANGED file
    BY <1>3 DEF ToggleStartup
  <2> QED
    BY <2>1, <2>3, <2>4 DEF Toggling
<1>4. CASE Change
  <2>1. Count /\ FaultStep /\ UNCHANGED <<file, io, result, want, previous, faithful>> /\ at = "change"
    BY <1>4 DEF Change, FaultStep, NoFault
  <2>2. \/ run' = NewCommand /\ at' = "approving"
        \/ Fault /\ at' = "undo"
    BY <1>4 DEF Change, SetRun
  <2>3. Calm' => Calm /\ Missed' = Missed /\ NewCommand' = NewCommand
    BY <1>a, <2>1 DEF Missed, NewCommand
  <2>4. Calm' => Disk'["startup"] = trip'.saved /\ ~Committed' /\ trip.hits >= Missed
    BY <1>0, <1>a, <2>1, <2>3 DEF Toggling
  <2> QED
    BY <1>a, <1>b, <2>1, <2>2, <2>3, <2>4 DEF Toggling
<1>5. CASE Approving
  <2>1. Count /\ FaultStep /\ UNCHANGED <<file, run, want, previous, faithful>> /\ at = "approving"
    BY <1>5 DEF Approving, FaultStep, NoFault, SetApproval, ApprovalLeft, registryVars
  <2>2. \/ io'["app"] = "lock" /\ at' = "save"
        \/ Fault /\ at' = "undo"
    BY <1>0, <1>5 DEF Approving
  <2>3. Calm' => Calm /\ Missed' = Missed /\ NewCommand' = NewCommand
    BY <1>a, <2>1 DEF Missed, NewCommand
  <2>4. Calm' => Disk'["startup"] = trip'.saved /\ trip.hits >= Missed /\ run' = NewCommand
    BY <1>0, <1>a, <2>1, <2>3 DEF Toggling
  <2> QED
    BY <1>a, <1>b, <2>1, <2>2, <2>3, <2>4 DEF Toggling
<1>6. CASE Saved
  <2>1. CASE result["app"] = "ok"
    BY <1>6, <2>1 DEF Saved, Toggling
  <2>2. CASE result["app"] # "ok"
    <3>1. Count /\ FaultStep /\ UNCHANGED <<file, run, want, previous, faithful>>
          /\ at = "save" /\ at' = "undo" /\ io["app"] = "done" /\ ~Committed
      BY <1>6, <2>2 DEF Saved, FaultStep, NoFault
    <3>2. Calm' => Calm /\ Missed' = Missed
      BY <1>a, <3>1 DEF Missed
    <3> QED
      BY <1>a, <1>b, <3>1, <3>2 DEF Toggling
  <2> QED
    BY <2>1, <2>2
<1>7. CASE Undo
  <2>1. Count /\ FaultStep /\ UNCHANGED <<file, want, previous, faithful>>
        /\ at = "undo" /\ at' \in {"unapprove", "settle"}
    BY <1>7 DEF Undo, FaultStep, NoFault
  <2>2. \/ run' = previous
        \/ Fault
    BY <1>7 DEF Undo, SetRun
  <2>3. Calm' => Calm /\ Disk["startup"] = trip.saved /\ trip.hits >= 1 + Missed
    BY <1>a, <2>1 DEF Toggling
  <2>4. Calm' /\ trip'.hits <= 1 => run' = trip'.run
    BY <1>a, <1>b, <2>1, <2>2, <2>3 DEF Missed
  <2> QED
    BY <1>a, <2>1, <2>3, <2>4 DEF Toggling
<1>8. CASE Unapprove
  <2>1. Count /\ FaultStep /\ UNCHANGED <<file, run, faithful>>
        /\ at = "unapprove" /\ at' = "settle"
    BY <1>8 DEF Unapprove, FaultStep, NoFault, SetApproval
  <2> QED
    BY <1>a, <2>1 DEF Toggling
<1>9. CASE AppWorks
  BY <1>9, AppToggles
<1>10. CASE CheckStarts \/ CheckLoads \/ CheckEnds
  <2>1. UNCHANGED <<file, io["app"], result["app"], at, run, want, previous, trip, faithful>>
    BY <1>0, <1>10 DEF CheckStarts, CheckLoads, CheckEnds, Abandon, historyVars
  <2> QED
    BY <2>1 DEF Toggling, Missed, NewCommand
<1>11. CASE CheckWorks
  <2>1. UNCHANGED <<io["app"], result["app"], at, run, want, previous, trip, faithful>>
    BY <1>0, <1>11 DEF CheckWorks, Transaction, Acquire, AcquireFails, Create, Fill, Read,
       ReadFails, Backup, BackupFails, Heal, AfterHeal, Write, WriteFails, GoOn, Done, historyVars
  <2>2. Calm /\ at \in {"change", "approving", "save", "undo", "unapprove", "settle"} => Disk' = Disk
    BY <1>11, CheckReads DEF Relies, Past
  <2> QED
    BY <2>1, <2>2 DEF Toggling, Missed, NewCommand
<1>12. CASE UserTweaks
  <2>1. trip'.disturbed = (at # "down" /\ at # "ready") /\ UNCHANGED at
    BY <1>0, <1>12 DEF UserTweaks, TripType
  <2> QED
    BY <2>1 DEF Toggling
<1> QED
  BY <1>1, <1>2, <1>3, <1>4, <1>5, <1>6, <1>7, <1>8, <1>9, <1>10, <1>11, <1>12 DEF Next, App

----------------------------------------------------------------------------
(* The start.                                                              *)

\* Nothing has failed, and nobody else touched the registry.
Clean == trip.hits = 0 /\ ~trip.disturbed

\* What a clean start knows of the Run value before and after it adopted and repaired it.
Starting ==
    Clean =>
      /\ at \in {"ensure", "load", "adopt", "adopted", "repair"} => run = trip.run
      /\ at \in {"adopt", "adopted", "repair", "approve"} => flag.startup = settings.startup
      /\ at = "adopted" => settings.startup = "on"
      /\ at = "repair" /\ settings.startup = "off" => run \in {"none", "blank"}
      /\ at = "approve" => /\ settings.startup = "on" /\ run \notin {"none", "gone"}
                           /\ Health(trip.run) # "custom"

LEMMA StartingStep == ASSUME Inv, Starting, [Next]_vars PROVE Starting'
<1> USE DEF Program, Enter, Leave, Go, Ready, Finished, Clean,
            restStore, counts, transVars, registryVars, appVars, storeVars
<1>0. /\ trip \in TripType
      /\ settings \in [Field -> Setting]
      /\ flag \in [enabled : Setting, startup : Setting]
      /\ run \in {"none"} \cup Command
      /\ io["app"] # "none" => at \in {"ensure", "load", "adopted", "switch", "save"}
  BY DEF Inv, MindTypes, AppTypes, Inside, TripType, RegistryTypeOK
<1>a. ASSUME Count, FaultStep
      PROVE  /\ trip'.run = trip.run /\ trip'.disturbed = trip.disturbed
             /\ Clean' => Clean /\ ~Fault
  <2>1. /\ trip' = [trip EXCEPT !.hits = trip'.hits]
        /\ trip.hits \in 0 .. 2 /\ trip'.hits \in 0 .. 2 /\ trip'.hits >= trip.hits
        /\ Fault /\ trip.hits <= 1 => trip'.hits = trip.hits + 1
    BY <1>a, CountStep
  <2> QED
    BY <1>0, <2>1 DEF TripType
<1>1. CASE UNCHANGED vars
  BY <1>1 DEF Starting, vars, historyVars
<1>2. CASE ToggleEnabled \/ ToggleStartup \/ Change \/ Approving \/ Saved \/ Undo \/ Unapprove
             \/ Switched \/ Settle \/ Approve \/ AppEnds
  BY <1>2 DEF Starting, ToggleEnabled, ToggleStartup, Change, Approving, Saved, Undo, Unapprove,
     Switched, Settle, Approve, AppEnds
<1>3. CASE Start
  BY <1>3 DEF Starting, Start, Begin
<1>4. CASE Ensured
  BY <1>4, <1>a DEF Starting, Ensured, FaultStep, NoFault
<1>5. CASE Loaded
  <2>1. flag'.startup = settings'.startup
    BY <1>5 DEF Loaded
  <2> QED
    BY <1>5, <1>a, <2>1 DEF Starting, Loaded, FaultStep, NoFault
<1>6. CASE Adopt
  <2>1. Count /\ FaultStep /\ UNCHANGED run /\ at = "adopt"
    BY <1>6 DEF Adopt, RunRead, FaultStep, NoFault
  <2>2. CASE at' = "adopted"
    <3>1. settings'.startup = "on" /\ flag'.startup = "on"
      BY <1>0, <1>6, <2>2 DEF Adopt, Field
    <3> QED
      BY <1>a, <2>1, <2>2, <3>1 DEF Starting
  <2>3. CASE at' = "repair"
    <3>1. UNCHANGED <<settings, flag>>
      BY <1>6, <2>3 DEF Adopt
    <3>2. Clean' /\ settings.startup = "off" => run \in {"none", "blank"}
      BY <1>a, <1>6, <2>1, <2>3 DEF Adopt, RunRead, Registered, Setting
    <3> QED
      BY <1>a, <2>1, <2>3, <3>1, <3>2 DEF Starting
  <2> QED
    BY <1>6, <2>2, <2>3 DEF Adopt
<1>7. CASE Adopted
  BY <1>7, <1>a DEF Starting, Adopted, FaultStep, NoFault
<1>8. CASE Repair
  <2>1. CASE at' = "approve"
    <3>1. Count /\ FaultStep /\ UNCHANGED <<settings, flag>> /\ settings.startup = "on" /\ at = "repair"
      BY <1>8, <2>1 DEF Repair, RunRead, FaultStep, NoFault
    <3>2. Clean' => \/ run' = run /\ ~ShouldRepair(Health(run)) /\ Health(run) # "custom"
                    \/ run' = "ours" /\ ShouldRepair(Health(run))
      BY <1>8, <1>a, <2>1, <3>1 DEF Repair, RunRead, SetRun
    <3>3. ShouldRepair(Health("none")) /\ ShouldRepair(Health("gone")) /\ ~ShouldRepair("custom")
      BY DEF ShouldRepair, Health
    <3>4. Clean' => run = trip'.run /\ run' \notin {"none", "gone"} /\ Health(run) # "custom"
      BY <1>a, <3>1, <3>2, <3>3 DEF Starting
    <3> QED
      BY <1>a, <2>1, <3>1, <3>4 DEF Starting
  <2>2. CASE at' # "approve"
    BY <1>8, <2>2 DEF Starting, Repair
  <2> QED
    BY <2>1, <2>2
<1>9. CASE AppWorks
  <2>1. Count /\ FaultStep /\ UNCHANGED <<at, run, flag, settings>>
    BY <1>9 DEF AppWorks, FaultStep, Transaction, Acquire, AcquireFails, Create, Fill, Read,
       ReadFails, Backup, BackupFails, Heal, Write, WriteFails, NoFault
  <2> QED
    BY <1>a, <2>1 DEF Starting
<1>10. CASE CheckStarts \/ CheckLoads \/ CheckWorks \/ CheckEnds
  BY <1>10 DEF Starting, CheckStarts, CheckLoads, CheckWorks, CheckEnds, historyVars, Transaction,
     Acquire, AcquireFails, Create, Fill, Read, ReadFails, Backup, BackupFails, Heal, Write, WriteFails
<1>11. CASE UserEdits
  BY <1>11 DEF Starting, UserEdits, UserSaves
<1>12. CASE UserTweaks
  <2>1. trip'.disturbed = (at # "down" /\ at # "ready") /\ UNCHANGED at
    BY <1>0, <1>12 DEF UserTweaks, TripType
  <2> QED
    BY <2>1 DEF Starting
<1> QED
  BY <1>1, <1>2, <1>3, <1>4, <1>5, <1>6, <1>7, <1>8, <1>9, <1>10, <1>11, <1>12 DEF Next, App

----------------------------------------------------------------------------
(* The theorems.                                                           *)

More == Jobs /\ Reading /\ Toggling /\ Starting

LEMMA MoreInit == Init => More
  BY DEF Init, StoreInit, More, Jobs, Reading, Relies, Past, Toggling, Calm, Starting, Program

LEMMA MoreAlways == Spec => [](Inv /\ More)
<1>1. Init => Inv /\ More
  BY InvInit, MoreInit
<1>2. Inv /\ More /\ [Next]_vars => Inv' /\ More'
  BY InvStep, JobsStep, ReadingStep, TogglingStep, StartingStep DEF More
<1> QED
  BY <1>1, <1>2, PTL DEF Spec

\* While the app waits for a command and the user left the file alone since the start set
\* out to read it, the switch in the menu is the one a restart would load, whatever
\* failed in between (update_settings, ToggleEnabled).
THEOREM MenuIsTrue == Spec => []MenuMatchesFile
<1>1. Inv /\ More => MenuMatchesFile
  BY DEF More, Reading, Relies, Past, Disk, MenuMatchesFile, OnDisk
<1> QED
  BY <1>1, MoreAlways, PTL

\* The last step of a toggle.
LEMMA ToggleEnds ==
    ASSUME Inv, More, [Next]_vars, at \in {"save", "settle"}, at' = "ready", Hits <= 1, Calm
    PROVE  \/ run = NewCommand /\ OnDisk("startup") = want.to /\ flag'.startup = want.to
           \/ run = trip.run /\ OnDisk("startup") = trip.saved
<1> USE DEF Calm
<1>0. Toggling /\ OnDisk("startup") = Disk["startup"]
  BY DEF More, Disk, OnDisk
<1>1. CASE Saved
  <2>1. result["app"] = "ok" /\ Committed
    BY <1>1 DEF Saved, Go, Committed, Finished
  <2>2. flag'.startup = want.to
    BY <1>1, <2>1 DEF Saved, Inv, AppTypes
  <2> QED
    BY <1>0, <1>1, <2>1, <2>2 DEF Saved, Toggling
<1>2. CASE Settle
  <2>1. faults \in Nat /\ faults' \in {faults, faults + 1} /\ trip.hits \in 0 .. 2
    BY <1>2, BoundsAssumption DEF Settle, RunRead, NoFault, Fault, Inv, FileTypes, AppTypes
  <2>2. trip.hits <= 1
    BY <2>1 DEF Hits
  <2> QED
    BY <1>0, <1>2, <2>2 DEF Settle, Toggling
<1>3. Saved \/ Settle
  BY DEF Next, App, vars, appVars, Start, Ensured, Loaded, Adopt, Adopted, Repair, Approve,
     ToggleEnabled, Switched, ToggleStartup, Change, Approving, Undo, Unapprove, Go, Ready, AppWorks,
     AppEnds, CheckStarts, CheckLoads, CheckWorks, CheckEnds, UserEdits, UserTweaks
<1> QED
  BY <1>1, <1>2, <1>3

\* A toggle of "start with Windows" in which at most one operation failed leaves
\* registration and file both as asked or both as they were (commit_toggle).
THEOREM TogglesWhole == Spec => ToggleAllOrNothing
<1>1. Inv /\ More /\ [Next]_vars =>
        [ /\ at \in {"save", "settle"} /\ at' = "ready"
          /\ Hits <= 1 /\ ~trip.disturbed /\ faithful
          => \/ run = NewCommand /\ OnDisk("startup") = want.to /\ flag'.startup = want.to
             \/ run = trip.run /\ OnDisk("startup") = trip.saved ]_vars
  BY ToggleEnds DEF Calm
<1> QED
  BY <1>1, MoreAlways, PTL DEF Spec, ToggleAllOrNothing

\* The last step of a start.
LEMMA StartEnds ==
    ASSUME Inv, More, [Next]_vars, at \in {"repair", "approve"}, at' = "ready", Hits = 0, ~trip.disturbed
    PROVE  /\ flag.startup = settings.startup
           /\ Registered(run') => flag.startup = "on"
           /\ flag.startup = "on" => run' # "none"
           /\ run' # "gone"
           /\ Health(trip.run) = "custom" => run' = trip.run
           /\ run' \in {"ours", "moved"} => approved' # "disabled"
<1>1. Repair \/ Approve
  BY DEF Next, App, vars, appVars, Start, Ensured, Loaded, Adopt, Adopted, Settle, Saved,
     ToggleEnabled, Switched, ToggleStartup, Change, Approving, Undo, Unapprove, Go, Ready, AppWorks,
     AppEnds, CheckStarts, CheckLoads, CheckWorks, CheckEnds, UserEdits, UserTweaks
<1>2. /\ trip.hits \in 0 .. 2 /\ faults \in Nat /\ run \in {"none"} \cup Command
      /\ settings.startup \in Setting
  BY BoundsAssumption DEF Inv, AppTypes, FileTypes, RegistryTypeOK, MindTypes, Field
<1>3. Clean /\ ~Fault
  BY <1>1, <1>2 DEF Hits, Clean, Repair, Approve, RunRead, NoFault, Fault
<1>4. Starting
  BY DEF More
<1>5. CASE Approve
  BY <1>3, <1>4, <1>5 DEF Starting, Approve, SetApproval
<1>6. CASE Repair
  <2>1. CASE settings.startup = "off"
    BY <1>3, <1>4, <1>6, <2>1 DEF Starting, Repair, registryVars, Registered
  <2>2. CASE settings.startup = "on"
    <3>1. /\ ~ShouldRepair(Health(run)) /\ UNCHANGED registryVars
          /\ Health(run) = "custom" \/ ApprovedEnabled
      BY <1>3, <1>6, <2>2 DEF Repair, RunRead, Go
    <3>2. run \notin {"none", "gone"} /\ (Health(run) = "custom" => run \in {"blank", "custom"})
      BY <1>2, <3>1 DEF ShouldRepair, Health, Command
    <3> QED
      BY <1>3, <1>4, <1>6, <2>2, <3>1, <3>2 DEF Starting, registryVars, ApprovedEnabled, Repair
  <2> QED
    BY <1>2, <2>1, <2>2 DEF Setting
<1> QED
  BY <1>1, <1>5, <1>6

\* After a start without a failure the menu tells the loaded setting, "on" whenever a command
\* that is not blank is registered; a registered program of this app is there, with Task
\* Manager's leave to start; and the command of another program is untouched
\* (adopt_registry_startup_state, maybe_repair_startup_registration).
THEOREM StartsInStep == Spec => SyncedAfterStart
<1>1. Inv /\ More /\ [Next]_vars =>
        [ /\ at \in {"repair", "approve"} /\ at' = "ready" /\ Hits = 0 /\ ~trip.disturbed
          => /\ flag.startup = settings.startup
             /\ Registered(run') => flag.startup = "on"
             /\ flag.startup = "on" => run' # "none"
             /\ run' # "gone"
             /\ Health(trip.run) = "custom" => run' = trip.run
             /\ run' \in {"ours", "moved"} => approved' # "disabled" ]_vars
  BY StartEnds
<1> QED
  BY <1>1, MoreAlways, PTL DEF Spec, SyncedAfterStart
=============================================================================
