---------------------------- MODULE ConfigStore ----------------------------
(***************************************************************************)
(* layout_settings_v11.json and the programs that work on it: the tray app *)
(* (create, load, read-modify-write) and --self-check (create, load), each *)
(* of their transactions under the named mutex, and the user, whose editor *)
(* knows nothing of that mutex.  One action per file operation; any of     *)
(* them may fail and a program may die between any two.                    *)
(*                                                                         *)
(* A file is missing, an object whose fields are on, off or bad (absent or *)
(* of a wrong type), or broken: no JSON object.  Broken files the user     *)
(* saved are numbered, a file that was created and not yet filled is the   *)
(* broken file 0.  A temporary file belongs to one process and one write,  *)
(* so it appears only as the step that renames it.                         *)
(***************************************************************************)
EXTENDS Naturals

CONSTANTS
    Saves,      \* the values of the objects the user saves, with bad and absent fields
    Edits,      \* bound: how often the user steps in
    Faults      \* bound: how many operations fail


Program == {"app", "check"}     \* the tray app, --self-check
Nobody  == "nobody"
Field   == {"enabled", "startup", "other"}   \* "other": what only the user edits
Setting == {"on", "off"}
Default == [f \in Field |-> IF f = "startup" THEN "off" ELSE "on"]

ASSUME SavesAssumption == Saves \subseteq [Field -> Setting \cup {"bad"}]
ASSUME BoundsAssumption == Edits \in Nat /\ Faults \in Nat

NoWish    == [field |-> "enabled", to |-> "on"]
NoValue   == [f \in Field |-> "bad"]
Missing   == [state |-> "missing", id |-> 0, value |-> NoValue]
Broken(n) == [state |-> "broken",  id |-> n, value |-> NoValue]
Object(v) == [state |-> "object",  id |-> 0, value |-> v]
Content   == {Missing} \cup {Broken(n) : n \in 0 .. Edits}
                       \cup {Object(v) : v \in [Field -> Setting \cup {"bad"}]}

VARIABLES
    file,       \* what is on disk
    backups,    \* the numbers of the broken files that have a .broken-* copy
    lock,       \* who owns the configuration mutex
    io,         \* io[p]: where p is in its transaction, "none" outside
    job,        \* job[p]: "ensure", "load" or "update"
    seen,       \* seen[p]: the value p read
    result,     \* result[p]: "ok", or why the transaction gave up
    want,       \* the field and the setting that an update writes
    settings,   \* the AppSettings in the memory of the app
    edits, faults,
    kept,       \* history: "other" as the user last saved it with no transaction under way
    precious    \* history: the broken files the user saved at such a time and did not replace

transVars == <<lock, io, job, seen, result>>
storeVars == <<file, backups, transVars, want, settings, edits, faults, kept, precious>>

NoTransaction == lock = Nobody

StoreInit ==
    /\ file \in {Missing, Object(Default)}
    /\ backups = {} /\ lock = Nobody
    /\ io = [p \in Program |-> "none"] /\ job = [p \in Program |-> "load"]
    /\ seen = [p \in Program |-> NoValue] /\ result = [p \in Program |-> "ok"]
    /\ want = NoWish /\ settings = Default
    /\ edits = 0 /\ faults = 0
    /\ kept = file.value.other /\ precious = {}

StoreTypeOK ==
    /\ file \in Content
    /\ backups \subseteq 1 .. edits /\ precious \subseteq 1 .. edits
    /\ lock \in Program \cup {Nobody}
    /\ io \in [Program -> {"none", "lock", "create", "fill", "read", "backup", "heal", "write", "done"}]
    /\ job \in [Program -> {"ensure", "load", "update"}]
    /\ seen \in [Program -> [Field -> Setting \cup {"bad"}]]
    /\ result \in [Program -> {"ok", "failed"}]
    /\ want \in [field : Field, to : Setting]
    /\ settings \in [Field -> Setting]
    /\ edits \in 0 .. Edits /\ faults \in 0 .. Faults
    /\ kept \in Setting \cup {"bad"}
    \* who is past the lock owns it, and nobody else is
    /\ \A p \in Program : io[p] \notin {"none", "lock", "done"} <=> lock = p

\* An operation fails.  Everything else may say so with Fault.
Fault   == faults < Faults /\ faults' = faults + 1
NoFault == UNCHANGED faults

\* merge_typed_settings: field by field, a bad one keeps the base.
Merge(base, value) == [f \in Field |-> IF value[f] = "bad" THEN base[f] ELSE value[f]]

----------------------------------------------------------------------------
(* A transaction of program p: from Enter to the step that sets "done".    *)

\* The caller's part of the step that starts the transaction.
Enter(p, what) ==
    /\ io' = [io EXCEPT ![p] = "lock"] /\ job' = [job EXCEPT ![p] = what]
    /\ seen' = [seen EXCEPT ![p] = NoValue] /\ result' = [result EXCEPT ![p] = "ok"]

\* Mutant: the guard outlives an error.
DoneKeepsLock(p, how) ==
    /\ io' = [io EXCEPT ![p] = "done"] /\ result' = [result EXCEPT ![p] = how]
    /\ lock' = IF how = "ok" THEN Nobody ELSE lock

\* The guard is dropped with the function that returns.
Done(p, how) ==
    /\ io' = [io EXCEPT ![p] = "done"] /\ result' = [result EXCEPT ![p] = how]
    /\ lock' = Nobody

GoOn(p, where) == io' = [io EXCEPT ![p] = where] /\ UNCHANGED <<lock, result>>

Acquire(p) ==
    /\ io[p] = "lock" /\ lock = Nobody
    /\ lock' = p /\ io' = [io EXCEPT ![p] = IF job[p] = "ensure" THEN "create" ELSE "read"]
    /\ UNCHANGED <<file, backups, job, seen, result, want, settings, edits, faults, kept, precious>>

\* The mutex could not be had within five seconds.
AcquireFails(p) ==
    /\ io[p] = "lock" /\ Fault
    /\ io' = [io EXCEPT ![p] = "done"] /\ result' = [result EXCEPT ![p] = "failed"]
    /\ UNCHANGED <<file, backups, lock, job, seen, want, settings, edits, kept, precious>>

\* load_json_value_unlocked up to the match on what was parsed.
Read(p) ==
    /\ io[p] = "read"
    /\ seen' = [seen EXCEPT ![p] = file.value]
    /\ \/ file.state = "broken" /\ GoOn(p, "backup")
       \/ file.state # "broken" /\ job[p] = "load"   /\ Done(p, "ok")
       \/ file.state # "broken" /\ job[p] = "update" /\ GoOn(p, "write")
    /\ UNCHANGED <<file, backups, job, want, settings, edits, faults, kept, precious>>

ReadFails(p) ==
    /\ io[p] = "read" /\ file.state # "missing" /\ Fault
    /\ Done(p, "failed")
    /\ UNCHANGED <<file, backups, job, seen, want, settings, edits, kept, precious>>

\* backup_broken opens the file again: it saves what is there by now.
Backup(p) ==
    /\ io[p] = "backup" /\ file.state # "missing"
    /\ backups' = backups \cup ({file.id} \ {0})
    /\ GoOn(p, "heal")
    /\ UNCHANGED <<file, job, seen, want, settings, edits, faults, kept, precious>>

\* Mutant: the repair does not ask whether the copy was made.
BackupFailsHealsAnyway(p) ==
    /\ io[p] = "backup" /\ file.state # "missing" /\ Fault
    /\ GoOn(p, "heal")
    /\ UNCHANGED <<file, backups, job, seen, want, settings, edits, kept, precious>>

\* No copy, no repair: the original stays, and an update is refused.
BackupFails(p) ==
    /\ io[p] = "backup"
    /\ \/ file.state = "missing" /\ NoFault
       \/ file.state # "missing" /\ Fault
    /\ Done(p, "failed")
    /\ UNCHANGED <<file, backups, job, seen, want, settings, edits, kept, precious>>

AfterHeal(p) == IF job[p] = "update" THEN GoOn(p, "write") ELSE Done(p, "ok")

Heal(p) ==
    /\ io[p] = "heal"
    /\ \/ file' = Object(Default) /\ NoFault
       \/ file' = file /\ Fault
    /\ AfterHeal(p)
    /\ UNCHANGED <<backups, job, seen, want, settings, edits, kept, precious>>

\* Mutant: the settings as they were loaded, with the change.
WriteLoaded(p) ==
    /\ io[p] = "write"
    /\ file' = Object([settings EXCEPT ![want.field] = want.to])
    /\ Done(p, "ok")
    /\ UNCHANGED <<backups, job, seen, want, settings, edits, faults, kept, precious>>

\* save_settings_unlocked: the change on top of what was read, renamed into place.
Write(p) ==
    /\ io[p] = "write"
    /\ file' = Object([Merge(settings, seen[p]) EXCEPT ![want.field] = want.to])
    /\ Done(p, "ok")
    /\ UNCHANGED <<backups, job, seen, want, settings, edits, faults, kept, precious>>

WriteFails(p) ==
    /\ io[p] = "write" /\ Fault
    /\ Done(p, "failed")
    /\ UNCHANGED <<file, backups, job, seen, want, settings, edits, kept, precious>>

\* ensure_runtime_files: create_new, then the default is written in place.
Create(p) ==
    /\ io[p] = "create"
    /\ \/ file.state = "missing" /\ file' = Broken(0) /\ NoFault /\ GoOn(p, "fill")
       \/ file.state = "missing" /\ UNCHANGED file /\ Fault /\ Done(p, "failed")
       \/ file.state # "missing" /\ UNCHANGED file /\ NoFault /\ Done(p, "ok")
    /\ UNCHANGED <<backups, job, seen, want, settings, edits, kept, precious>>

\* The write goes to the file that was created; what the user put there or in
\* its place meanwhile may be mixed with it, overwritten or left.
Fill(p) ==
    /\ io[p] = "fill"
    /\ \/ file = Broken(0) /\ file' = Object(Default) /\ NoFault /\ Done(p, "ok")
       \/ file = Broken(0) /\ file' = file /\ Fault /\ Done(p, "failed")
       \/ file # Broken(0) /\ file' \in {file, Broken(0), Object(Default)} /\ NoFault /\ Done(p, "ok")
    /\ UNCHANGED <<backups, job, seen, want, settings, edits, kept, precious>>

Transaction(p) ==
    \/ Acquire(p) \/ AcquireFails(p) \/ Create(p) \/ Fill(p)
    \/ Read(p) \/ ReadFails(p) \/ Backup(p) \/ BackupFails(p) \/ Heal(p)
    \/ Write(p) \/ WriteFails(p)

\* The caller has the result; what the transaction held is dropped.
Leave(p) ==
    /\ io' = [io EXCEPT ![p] = "none"] /\ job' = [job EXCEPT ![p] = "load"]
    /\ seen' = [seen EXCEPT ![p] = NoValue] /\ result' = [result EXCEPT ![p] = "ok"]

\* Process death: the system gives the mutex back (WAIT_ABANDONED), nothing
\* that was done to the files is undone.
Abandon(p) ==
    /\ Leave(p) /\ lock' = IF lock = p THEN Nobody ELSE lock
    /\ UNCHANGED <<file, backups, edits, faults, kept, precious>>

----------------------------------------------------------------------------
(* The user.                                                               *)

\* The editor writes whatever it holds, however old that is, or the user
\* deletes the file.
UserSaves ==
    /\ edits < Edits /\ edits' = edits + 1
    /\ file' \in {Missing, Broken(edits + 1)} \cup {Object(v) : v \in Saves}
    /\ kept' = IF NoTransaction THEN file'.value.other ELSE "bad"
    /\ precious' = (precious \ {file.id}) \cup
                       (IF NoTransaction THEN {file'.id} \ {0} ELSE {})
    /\ UNCHANGED <<backups, transVars, want, settings, faults>>

----------------------------------------------------------------------------
(* What the store promises to the user.                                    *)

\* A value the user saved while no program was in the middle of a transaction
\* stays in the file through toggles, repairs, failures and deaths of the
\* programs, until the user saves again (update_settings reads the file again
\* instead of writing the copy from startup).
UserValueSurvives ==
    file.state = "object" /\ kept # "bad" => file.value.other = kept

\* A damaged file the user saved at such a time is still there or has a backup:
\* no repair, creation or update destroys it (backup_broken, heal_after_backup).
BrokenNeverLost == precious \subseteq backups \cup {file.id}
=============================================================================
