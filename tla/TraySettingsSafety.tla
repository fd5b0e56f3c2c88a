------------------------- MODULE TraySettingsSafety -------------------------
(***************************************************************************)
(* Proofs about TraySettings for any values the user saves and any number  *)
(* of edits, failures, starts and deaths: type correctness, that no value  *)
(* of the user and no damaged file is lost.                                *)
(*                                                                         *)
(* Neither promise is inductive alone.  A program may overwrite the file   *)
(* in the steps "heal", "fill" and "write" of a transaction; what makes    *)
(* that safe is what it saw earlier in the same transaction (Careful), and *)
(* that a file which the user saves meanwhile, behind the mutex, carries   *)
(* no promise: kept and precious are only set while nobody owns the mutex. *)
(***************************************************************************)
EXTENDS TraySettings, TLAPS

Value == [Field -> Setting \cup {"bad"}]

FileTypes ==
    /\ file \in Content /\ file.id \in 0 .. edits
    /\ backups \subseteq 1 .. edits /\ precious \subseteq 1 .. edits
    /\ edits \in 0 .. Edits /\ faults \in 0 .. Faults
    /\ kept \in Setting \cup {"bad"}

TransTypes ==
    /\ lock \in Program \cup {Nobody}
    /\ io \in [Program -> {"none", "lock", "create", "fill", "read", "backup", "heal", "write", "done"}]
    /\ job \in [Program -> {"ensure", "load", "update"}]
    /\ seen \in [Program -> Value]
    /\ result \in [Program -> {"ok", "failed"}]
    /\ \A p \in Program : io[p] \notin {"none", "lock", "done"} <=> lock = p

\* The programs ask for their own fields only.
MindTypes ==
    /\ want \in [field : {"enabled", "startup"}, to : Setting]
    /\ settings \in [Field -> Setting]

AppTypes ==
    /\ at \in Places /\ checkAt \in {"down", "ensure", "load"}
    /\ flag \in [enabled : Setting, startup : Setting]
    /\ previous \in {"none"} \cup Command
    /\ starts \in 0 .. Starts /\ checks \in 0 .. Checks
    /\ trip \in [hits : 0 .. 2, disturbed : BOOLEAN, run : {"none"} \cup Command, saved : Setting]
    /\ faithful \in BOOLEAN

Inside ==
    /\ io["app"] # "none" <=> at \in {"ensure", "load", "adopted", "switch", "save"}
    /\ io["check"] # "none" <=> checkAt # "down"

\* A promised value stands in a whole file.
KeptThere == kept # "bad" => file.state = "object" /\ file.value.other = kept

\* What a transaction knows before it overwrites the file.
Careful(p) ==
    /\ io[p] \in {"backup", "heal", "fill"} => kept = "bad"
    /\ io[p] = "write" /\ kept # "bad" => seen[p].other = kept
    /\ io[p] \in {"heal", "fill", "write"} => precious \subseteq backups

Promises ==
    /\ KeptThere /\ BrokenNeverLost
    /\ \A p \in Program : Careful(p)

\* The inductive invariant.
Inv == /\ FileTypes /\ TransTypes /\ MindTypes /\ RegistryTypeOK /\ AppTypes /\ Inside
       /\ Promises

----------------------------------------------------------------------------
(* Values and contents.                                                    *)

LEMMA MergeType ==
    ASSUME NEW base \in [Field -> Setting], NEW value \in Value
    PROVE  Merge(base, value) \in [Field -> Setting]
  BY DEF Merge, Value

LEMMA DefaultType == Default \in [Field -> Setting] /\ NoValue \in Value /\ Default \in Value
  BY DEF Default, NoValue, Value, Setting

LEMMA ObjectContent ==
    ASSUME NEW v \in Value
    PROVE  /\ Object(v) \in Content /\ Object(v).state = "object"
           /\ Object(v).id = 0 /\ Object(v).value = v
  BY DEF Object, Content, Value

LEMMA BrokenContent ==
    ASSUME NEW n \in 0 .. Edits
    PROVE  /\ Broken(n) \in Content /\ Broken(n).state = "broken"
           /\ Broken(n).id = n /\ Broken(n).value = NoValue
  BY DEF Broken, Content

LEMMA MissingContent ==
    /\ Missing \in Content /\ Missing.state = "missing"
    /\ Missing.id = 0 /\ Missing.value = NoValue
  BY DEF Missing, Content

LEMMA ContentFields ==
    ASSUME NEW c \in Content
    PROVE  /\ c.state \in {"missing", "broken", "object"}
           /\ c.id \in 0 .. Edits /\ c.value \in Value
           /\ c.state # "object" => c.value = NoValue /\ c.value.other = "bad"
           /\ c.state # "broken" => c.id = 0
<1> USE BoundsAssumption
<1>1. NoValue \in Value /\ NoValue.other = "bad"
  BY DEF NoValue, Value, Field
<1>2. CASE c = Missing
  BY <1>1, <1>2 DEF Missing
<1>3. CASE \E n \in 0 .. Edits : c = Broken(n)
  BY <1>1, <1>3 DEF Broken
<1>4. CASE \E v \in Value : c = Object(v)
  BY <1>4 DEF Object
<1> QED
  BY <1>2, <1>3, <1>4 DEF Content, Value

----------------------------------------------------------------------------
(* A transaction keeps the types of the store and its promises, whatever   *)
(* the rest of the app does in the same step.                              *)

StoreKept(p) ==
    /\ FileTypes' /\ TransTypes' /\ Promises'
    /\ io[p] # "none" /\ io'[p] # "none"
    /\ \A q \in Program \ {p} : io'[q] = io[q]

LEMMA AcquireKeeps ==
    ASSUME Inv, NEW p \in Program, Acquire(p)
    PROVE  StoreKept(p)
<1> USE BoundsAssumption
<1>0. file.id \in 0 .. Edits /\ file.value \in Value
  BY ContentFields DEF Inv, FileTypes
<1>1. FileTypes'
  BY <1>0 DEF Inv, FileTypes, Acquire
<1>2. TransTypes'
  BY <1>0 DEF Inv, TransTypes, Acquire, Program, Nobody
<1>3. Promises'
  BY <1>0, ContentFields, ObjectContent, BrokenContent, MissingContent, DefaultType
     DEF Inv, Promises, KeptThere, BrokenNeverLost, Careful, FileTypes, TransTypes, MindTypes,
         Acquire, Program, Nobody
<1>4. /\ io[p] # "none" /\ io'[p] # "none"
      /\ \A q \in Program \ {p} : io'[q] = io[q]
  BY DEF Inv, TransTypes, Acquire
<1> QED
  BY <1>1, <1>2, <1>3, <1>4 DEF StoreKept

LEMMA AcquireFailsKeeps ==
    ASSUME Inv, NEW p \in Program, AcquireFails(p)
    PROVE  StoreKept(p)
<1> USE BoundsAssumption
<1>0. file.id \in 0 .. Edits /\ file.value \in Value
  BY ContentFields DEF Inv, FileTypes
<1>1. FileTypes'
  BY <1>0 DEF Inv, FileTypes, AcquireFails, Fault
<1>2. TransTypes'
  BY <1>0 DEF Inv, TransTypes, AcquireFails, Fault, Program, Nobody
<1>3. Promises'
  BY <1>0, ContentFields, ObjectContent, BrokenContent, MissingContent, DefaultType
     DEF Inv, Promises, KeptThere, BrokenNeverLost, Careful, FileTypes, TransTypes, MindTypes,
         AcquireFails, Fault, Program, Nobody
<1>4. /\ io[p] # "none" /\ io'[p] # "none"
      /\ \A q \in Program \ {p} : io'[q] = io[q]
  BY DEF Inv, TransTypes, AcquireFails, Fault
<1> QED
  BY <1>1, <1>2, <1>3, <1>4 DEF StoreKept

LEMMA CreateKeeps ==
    ASSUME Inv, NEW p \in Program, Create(p)
    PROVE  StoreKept(p)
<1> USE BoundsAssumption
<1>0. file.id \in 0 .. Edits /\ file.value \in Value
  BY ContentFields DEF Inv, FileTypes
<1>f. (file' \in Content /\ file'.id = 0 /\ file'.value \in Value) \/ file' = file
  BY ObjectContent, BrokenContent, MissingContent, DefaultType, MergeType
     DEF Create, Fault, NoFault, Done, GoOn, Inv, FileTypes, TransTypes, MindTypes
<1>1. FileTypes'
  BY <1>0, <1>f DEF Inv, FileTypes, Create, Fault, NoFault, Done, GoOn
<1>2. TransTypes'
  BY <1>0 DEF Inv, TransTypes, Create, Fault, NoFault, Done, GoOn, Program, Nobody
<1>3. Promises'
  BY <1>0, <1>f, ContentFields, ObjectContent, BrokenContent, MissingContent, DefaultType
     DEF Inv, Promises, KeptThere, BrokenNeverLost, Careful, FileTypes, TransTypes, MindTypes,
         Create, Fault, NoFault, Done, GoOn, Program, Nobody
<1>4. /\ io[p] # "none" /\ io'[p] # "none"
      /\ \A q \in Program \ {p} : io'[q] = io[q]
  BY DEF Inv, TransTypes, Create, Fault, NoFault, Done, GoOn
<1> QED
  BY <1>1, <1>2, <1>3, <1>4 DEF StoreKept

LEMMA FillKeeps ==
    ASSUME Inv, NEW p \in Program, Fill(p)
    PROVE  StoreKept(p)
<1> USE BoundsAssumption
<1>0. file.id \in 0 .. Edits /\ file.value \in Value
  BY ContentFields DEF Inv, FileTypes
<1>f. (file' \in Content /\ file'.id = 0 /\ file'.value \in Value) \/ file' = file
  BY ObjectContent, BrokenContent, MissingContent, DefaultType, MergeType
     DEF Fill, Fault, NoFault, Done, Inv, FileTypes, TransTypes, MindTypes
<1>1. FileTypes'
  BY <1>0, <1>f DEF Inv, FileTypes, Fill, Fault, NoFault, Done
<1>2. TransTypes'
  BY <1>0 DEF Inv, TransTypes, Fill, Fault, NoFault, Done, Program, Nobody
<1>3. Promises'
  BY <1>0, <1>f, ContentFields, ObjectContent, BrokenContent, MissingContent, DefaultType
     DEF Inv, Promises, KeptThere, BrokenNeverLost, Careful, FileTypes, TransTypes, MindTypes,
         Fill, Fault, NoFault, Done, Program, Nobody
<1>4. /\ io[p] # "none" /\ io'[p] # "none"
      /\ \A q \in Program \ {p} : io'[q] = io[q]
  BY DEF Inv, TransTypes, Fill, Fault, NoFault, Done
<1> QED
  BY <1>1, <1>2, <1>3, <1>4 DEF StoreKept

LEMMA ReadKeeps ==
    ASSUME Inv, NEW p \in Program, Read(p)
    PROVE  StoreKept(p)
<1> USE BoundsAssumption
<1>0. file.id \in 0 .. Edits /\ file.value \in Value
  BY ContentFields DEF Inv, FileTypes
<1>1. FileTypes'
  BY <1>0 DEF Inv, FileTypes, Read, Done, GoOn
<1>2. TransTypes'
  BY <1>0 DEF Inv, TransTypes, Read, Done, GoOn, Program, Nobody
<1>3. Promises'
  BY <1>0, ContentFields, ObjectContent, BrokenContent, MissingContent, DefaultType
     DEF Inv, Promises, KeptThere, BrokenNeverLost, Careful, FileTypes, TransTypes, MindTypes,
         Read, Done, GoOn, Program, Nobody
<1>4. /\ io[p] # "none" /\ io'[p] # "none"
      /\ \A q \in Program \ {p} : io'[q] = io[q]
  BY DEF Inv, TransTypes, Read, Done, GoOn
<1> QED
  BY <1>1, <1>2, <1>3, <1>4 DEF StoreKept

LEMMA ReadFailsKeeps ==
    ASSUME Inv, NEW p \in Program, ReadFails(p)
    PROVE  StoreKept(p)
<1> USE BoundsAssumption
<1>0. file.id \in 0 .. Edits /\ file.value \in Value
  BY ContentFields DEF Inv, FileTypes
<1>1. FileTypes'
  BY <1>0 DEF Inv, FileTypes, ReadFails, Fault, Done
<1>2. TransTypes'
  BY <1>0 DEF Inv, TransTypes, ReadFails, Fault, Done, Program, Nobody
<1>3. Promises'
  BY <1>0, ContentFields, ObjectContent, BrokenContent, MissingContent, DefaultType
     DEF Inv, Promises, KeptThere, BrokenNeverLost, Careful, FileTypes, TransTypes, MindTypes,
         ReadFails, Fault, Done, Program, Nobody
<1>4. /\ io[p] # "none" /\ io'[p] # "none"
      /\ \A q \in Program \ {p} : io'[q] = io[q]
  BY DEF Inv, TransTypes, ReadFails, Fault, Done
<1> QED
  BY <1>1, <1>2, <1>3, <1>4 DEF StoreKept

LEMMA BackupKeeps ==
    ASSUME Inv, NEW p \in Program, Backup(p)
    PROVE  StoreKept(p)
<1> USE BoundsAssumption
<1>0. file.id \in 0 .. Edits /\ file.value \in Value
  BY ContentFields DEF Inv, FileTypes
<1>1. FileTypes'
  <2>1. edits \in Nat /\ file.id \in 0 .. edits /\ backups \subseteq 1 .. edits
    BY DEF Inv, FileTypes
  <2>2. ASSUME NEW n \in {file.id} \ {0} PROVE n \in 1 .. edits
    <3>1. n = file.id /\ n # 0
      OBVIOUS
    <3> QED
      BY <2>1, <3>1
  <2> QED
    BY <2>1, <2>2 DEF Inv, FileTypes, Backup
<1>2. TransTypes'
  BY <1>0 DEF Inv, TransTypes, Backup, GoOn, Program, Nobody
<1>3. Promises'
  BY <1>0, ContentFields, ObjectContent, BrokenContent, MissingContent, DefaultType
     DEF Inv, Promises, KeptThere, BrokenNeverLost, Careful, FileTypes, TransTypes, MindTypes,
         Backup, GoOn, Program, Nobody
<1>4. /\ io[p] # "none" /\ io'[p] # "none"
      /\ \A q \in Program \ {p} : io'[q] = io[q]
  BY DEF Inv, TransTypes, Backup, GoOn
<1> QED
  BY <1>1, <1>2, <1>3, <1>4 DEF StoreKept

LEMMA BackupFailsKeeps ==
    ASSUME Inv, NEW p \in Program, BackupFails(p)
    PROVE  StoreKept(p)
<1> USE BoundsAssumption
<1>0. file.id \in 0 .. Edits /\ file.value \in Value
  BY ContentFields DEF Inv, FileTypes
<1>1. FileTypes'
  BY <1>0 DEF Inv, FileTypes, BackupFails, Fault, NoFault, Done
<1>2. TransTypes'
  BY <1>0 DEF Inv, TransTypes, BackupFails, Fault, NoFault, Done, Program, Nobody
<1>3. Promises'
  BY <1>0, ContentFields, ObjectContent, BrokenContent, MissingContent, DefaultType
     DEF Inv, Promises, KeptThere, BrokenNeverLost, Careful, FileTypes, TransTypes, MindTypes,
         BackupFails, Fault, NoFault, Done, Program, Nobody
<1>4. /\ io[p] # "none" /\ io'[p] # "none"
      /\ \A q \in Program \ {p} : io'[q] = io[q]
  BY DEF Inv, TransTypes, BackupFails, Fault, NoFault, Done
<1> QED
  BY <1>1, <1>2, <1>3, <1>4 DEF StoreKept

LEMMA HealKeeps ==
    ASSUME Inv, NEW p \in Program, Heal(p)
    PROVE  StoreKept(p)
<1> USE BoundsAssumption
<1>0. file.id \in 0 .. Edits /\ file.value \in Value
  BY ContentFields DEF Inv, FileTypes
<1>f. (file' \in Content /\ file'.id = 0 /\ file'.value \in Value) \/ file' = file
  BY ObjectContent, BrokenContent, MissingContent, DefaultType, MergeType
     DEF Heal, Fault, NoFault, AfterHeal, Done, GoOn, Inv, FileTypes, TransTypes, MindTypes
<1>1. FileTypes'
  BY <1>0, <1>f DEF Inv, FileTypes, Heal, Fault, NoFault, AfterHeal, Done, GoOn
<1>2. TransTypes'
  BY <1>0 DEF Inv, TransTypes, Heal, Fault, NoFault, AfterHeal, Done, GoOn, Program, Nobody
<1>3. Promises'
  BY <1>0, <1>f, ContentFields, ObjectContent, BrokenContent, MissingContent, DefaultType
     DEF Inv, Promises, KeptThere, BrokenNeverLost, Careful, FileTypes, TransTypes, MindTypes,
         Heal, Fault, NoFault, AfterHeal, Done, GoOn, Program, Nobody
<1>4. /\ io[p] # "none" /\ io'[p] # "none"
      /\ \A q \in Program \ {p} : io'[q] = io[q]
  BY DEF Inv, TransTypes, Heal, Fault, NoFault, AfterHeal, Done, GoOn
<1> QED
  BY <1>1, <1>2, <1>3, <1>4 DEF StoreKept

LEMMA WriteKeeps ==
    ASSUME Inv, NEW p \in Program, Write(p)
    PROVE  StoreKept(p)
<1> USE BoundsAssumption
<1>0. file.id \in 0 .. Edits /\ file.value \in Value
  BY ContentFields DEF Inv, FileTypes
<1>m. [Merge(settings, seen[p]) EXCEPT ![want.field] = want.to] \in [Field -> Setting]
  BY MergeType DEF Inv, TransTypes, MindTypes
<1>f. file' \in Content /\ file'.id = 0 /\ file'.value \in Value /\ file'.state = "object"
  BY <1>m, ObjectContent DEF Write, Value
<1>1. FileTypes'
  BY <1>0, <1>f DEF Inv, FileTypes, Write, Done
<1>2. TransTypes'
  BY <1>0 DEF Inv, TransTypes, Write, Done, Program, Nobody
<1>3. Promises'
  <2>1. kept # "bad" => file'.value.other = kept
    <3>1. /\ file'.value = [Merge(settings, seen[p]) EXCEPT ![want.field] = want.to]
          /\ want.field # "other"
      BY <1>m, ObjectContent DEF Write, Value, Inv, MindTypes
    <3>2. file'.value.other = IF seen[p].other = "bad" THEN settings.other ELSE seen[p].other
      BY <3>1 DEF Merge, Field
    <3>3. kept # "bad" => seen[p].other = kept
      BY DEF Inv, Promises, Careful, Write
    <3> QED
      BY <3>2, <3>3
  <2>2. precious \subseteq backups
    BY DEF Inv, Promises, Careful, Write
  <2>3. \A q \in Program : io'[q] \in {"none", "lock", "done"}
    BY DEF Inv, TransTypes, Write, Done, Program, Nobody
  <2>4. kept' = kept /\ precious' = precious /\ backups' = backups
    BY DEF Write
  <2> QED
    BY <2>1, <2>2, <2>3, <2>4, <1>f DEF Promises, KeptThere, BrokenNeverLost, Careful
<1>4. /\ io[p] # "none" /\ io'[p] # "none"
      /\ \A q \in Program \ {p} : io'[q] = io[q]
  BY DEF Inv, TransTypes, Write, Done
<1> QED
  BY <1>1, <1>2, <1>3, <1>4 DEF StoreKept

LEMMA WriteFailsKeeps ==
    ASSUME Inv, NEW p \in Program, WriteFails(p)
    PROVE  StoreKept(p)
<1> USE BoundsAssumption
<1>0. file.id \in 0 .. Edits /\ file.value \in Value
  BY ContentFields DEF Inv, FileTypes
<1>1. FileTypes'
  BY <1>0 DEF Inv, FileTypes, WriteFails, Fault, Done
<1>2. TransTypes'
  BY <1>0 DEF Inv, TransTypes, WriteFails, Fault, Done, Program, Nobody
<1>3. Promises'
  BY <1>0, ContentFields, ObjectContent, BrokenContent, MissingContent, DefaultType
     DEF Inv, Promises, KeptThere, BrokenNeverLost, Careful, FileTypes, TransTypes, MindTypes,
         WriteFails, Fault, Done, Program, Nobody
<1>4. /\ io[p] # "none" /\ io'[p] # "none"
      /\ \A q \in Program \ {p} : io'[q] = io[q]
  BY DEF Inv, TransTypes, WriteFails, Fault, Done
<1> QED
  BY <1>1, <1>2, <1>3, <1>4 DEF StoreKept

LEMMA TransactionKeeps ==
    ASSUME Inv, NEW p \in Program, Transaction(p)
    PROVE  /\ StoreKept(p) /\ faults' \in {faults, faults + 1}
           /\ UNCHANGED <<want, settings>>
<1>1. StoreKept(p)
  BY AcquireKeeps, AcquireFailsKeeps, CreateKeeps, FillKeeps, ReadKeeps, ReadFailsKeeps,
     BackupKeeps, BackupFailsKeeps, HealKeeps, WriteKeeps, WriteFailsKeeps DEF Transaction
<1>2. faults' \in {faults, faults + 1} /\ UNCHANGED <<want, settings>>
  BY DEF Transaction, Acquire, AcquireFails, Create, Fill, Read, ReadFails, Backup, BackupFails,
         Heal, Write, WriteFails, Fault, NoFault
<1> QED
  BY <1>1, <1>2

----------------------------------------------------------------------------
(* The steps between the transactions.                                     *)

\* A failure at most is counted.
FaultStep == faults' = faults \/ Fault

LEMMA FaultCount ==
    ASSUME Inv, FaultStep
    PROVE  faults' \in 0 .. Faults /\ Hits \in 0 .. 2
<1> USE BoundsAssumption
<1>1. trip.hits \in 0 .. 2 /\ faults \in 0 .. Faults
  BY DEF Inv, AppTypes, FileTypes
<1>2. faults' \in {faults, faults + 1} /\ faults' \in 0 .. Faults
  BY <1>1 DEF FaultStep, Fault
<1> QED
  BY <1>1, <1>2 DEF Hits

TripType == [hits : 0 .. 2, disturbed : BOOLEAN, run : {"none"} \cup Command, saved : Setting]

LEMMA TripCount ==
    ASSUME Inv, FaultStep
    PROVE  /\ Count => trip' \in TripType
           /\ \A h \in 0 .. 2 : Begin(h) => trip' \in TripType
           /\ NoTrip \in TripType
<1>1. trip \in TripType
  BY DEF Inv, AppTypes, TripType
<1>2. file.value \in Value
  BY ContentFields DEF Inv, FileTypes
<1>3. Merge(Default, file.value) \in [Field -> Setting]
  BY <1>2, MergeType, DefaultType
<1>4. OnDisk("startup") \in Setting
  BY <1>3 DEF OnDisk, Field
<1>5. run \in {"none"} \cup Command
  BY DEF Inv, RegistryTypeOK
<1>6. Count => trip' \in TripType
  BY <1>1, FaultCount DEF Count, TripType
<1>7. \A h \in 0 .. 2 : Begin(h) => trip' \in TripType
  BY <1>4, <1>5 DEF Begin, TripType
<1>8. NoTrip \in TripType
  BY DEF NoTrip, TripType, Setting
<1> QED
  BY <1>6, <1>7, <1>8

\* Nothing of a transaction changes.
LEMMA IdleKeeps ==
    ASSUME Inv, FaultStep, UNCHANGED <<restStore, transVars>>
    PROVE  FileTypes' /\ TransTypes' /\ Promises' /\ io' = io
<1>1. FileTypes'
  BY FaultCount DEF Inv, FileTypes, restStore
<1>2. TransTypes'
  BY DEF Inv, TransTypes, transVars
<1>3. Promises'
  BY DEF Inv, Promises, KeptThere, BrokenNeverLost, Careful, restStore, transVars
<1> QED
  BY <1>1, <1>2, <1>3 DEF transVars

LEMMA EnterKeeps ==
    ASSUME Inv, FaultStep, NEW p \in Program, NEW what \in {"ensure", "load", "update"},
           Enter(p, what), io[p] \in {"none", "done"}, UNCHANGED restStore
    PROVE  /\ FileTypes' /\ TransTypes' /\ Promises'
           /\ io'[p] = "lock" /\ \A q \in Program \ {p} : io'[q] = io[q]
<1>1. FileTypes'
  BY FaultCount DEF Inv, FileTypes, restStore
<1>2. TransTypes'
  BY DefaultType DEF Inv, TransTypes, Enter, restStore
<1>3. io'[p] = "lock" /\ \A q \in Program \ {p} : io'[q] = io[q] /\ seen'[q] = seen[q]
  BY DEF Inv, TransTypes, Enter
<1>4. Promises'
  BY <1>3 DEF Inv, Promises, KeptThere, BrokenNeverLost, Careful, restStore
<1> QED
  BY <1>1, <1>2, <1>3, <1>4

LEMMA LeaveKeeps ==
    ASSUME Inv, FaultStep, NEW p \in Program, Leave(p),
           \/ io[p] = "done" /\ UNCHANGED lock
           \/ lock' = IF lock = p THEN Nobody ELSE lock,
           UNCHANGED <<file, backups, edits, kept, precious>>
    PROVE  /\ FileTypes' /\ TransTypes' /\ Promises'
           /\ io'[p] = "none" /\ \A q \in Program \ {p} : io'[q] = io[q]
<1>1. FileTypes'
  BY FaultCount DEF Inv, FileTypes
<1>2. TransTypes'
  BY DefaultType DEF Inv, TransTypes, Leave, Program, Nobody
<1>3. io'[p] = "none" /\ \A q \in Program \ {p} : io'[q] = io[q] /\ seen'[q] = seen[q]
  BY DEF Inv, TransTypes, Leave
<1>4. Promises'
  BY <1>3 DEF Inv, Promises, KeptThere, BrokenNeverLost, Careful
<1> QED
  BY <1>1, <1>2, <1>3, <1>4

----------------------------------------------------------------------------
(* Every step of the app keeps the invariant.                           *)

LEMMA StartKeeps ==
    ASSUME Inv, Start
    PROVE  Inv'
<1>1. FaultStep
  BY DEF FaultStep, Start, Begin, Fault, NoFault, counts, restStore
<1>2. /\ FileTypes' /\ TransTypes' /\ Promises'
      /\ io'["app"] = "lock" /\ \A q \in Program \ {"app"} : io'[q] = io[q]
  <2>1. Enter("app", "ensure") /\ UNCHANGED restStore
    BY DEF Start, Begin, Fault, NoFault, counts, restStore
  <2>2. io["app"] \in {"none", "done"}
    BY DEF Inv, Inside, Start
  <2> QED
    BY <1>1, <2>1, <2>2, EnterKeeps DEF Program
<1>3. MindTypes'
  BY DefaultType DEF Inv, MindTypes, Start, Begin, counts, NoWish, transVars, Setting, Flip
<1>4. RegistryTypeOK'
  BY DEF Inv, RegistryTypeOK, AppTypes, registryVars, Command, Approval, Start, Begin, counts
<1>5. AppTypes'
  <2>1. trip' \in TripType
    BY <1>1, TripCount, FaultCount DEF Inv, AppTypes, TripType, historyVars, Hits, Start, Begin, counts
  <2>2. starts' \in 0 .. Starts
    BY CountsAssumption DEF Inv, AppTypes, Start
  <2>3. UNCHANGED <<flag, previous, checkAt, checks>> /\ at' = "ensure" /\ faithful' = FALSE
    BY DEF Start
  <2> QED
    BY <2>1, <2>2, <2>3 DEF Inv, AppTypes, TripType, Places
<1>6. Inside'
  BY <1>2 DEF Inv, Inside, AppTypes, appVars, Places, Program, Start, Begin, counts
<1> QED
  BY <1>2, <1>3, <1>4, <1>5, <1>6 DEF Inv

LEMMA EnsuredKeeps ==
    ASSUME Inv, Ensured
    PROVE  Inv'
<1>1. FaultStep
  BY DEF FaultStep, Ensured, Go, Finished, Fault, NoFault, counts, restStore
<1>2. /\ FileTypes' /\ TransTypes' /\ Promises'
      /\ io'["app"] = "lock" /\ \A q \in Program \ {"app"} : io'[q] = io[q]
  <2>1. Enter("app", "load") /\ UNCHANGED restStore
    BY DEF Ensured, Go, Finished, Fault, NoFault, counts, restStore
  <2>2. io["app"] \in {"none", "done"}
    BY DEF Inv, Inside, Ensured, Finished
  <2> QED
    BY <1>1, <2>1, <2>2, EnterKeeps DEF Program
<1>3. MindTypes'
  BY DEF Inv, MindTypes, Ensured, Go, Finished, counts, NoWish, transVars, Setting, Flip
<1>4. RegistryTypeOK'
  BY DEF Inv, RegistryTypeOK, AppTypes, registryVars, Command, Approval, Ensured, Go, Finished, counts
<1>5. AppTypes'
  <2>1. trip' \in TripType
    BY <1>1, TripCount, FaultCount DEF Inv, AppTypes, TripType, historyVars, Hits, Ensured, Go, Finished, counts
  <2> QED
    BY <2>1, CountsAssumption DEF Inv, AppTypes, TripType, MindTypes, appVars, historyVars, Places, Setting, RegistryTypeOK, Ensured, Go, Finished, counts
<1>6. Inside'
  BY <1>2 DEF Inv, Inside, AppTypes, appVars, Places, Program, Ensured, Go, Finished, counts
<1> QED
  BY <1>2, <1>3, <1>4, <1>5, <1>6 DEF Inv

LEMMA LoadedKeeps ==
    ASSUME Inv, Loaded
    PROVE  Inv'
<1>1. FaultStep
  BY DEF FaultStep, Loaded, Go, Finished, Fault, NoFault, counts, restStore
<1>2. /\ FileTypes' /\ TransTypes' /\ Promises'
      /\ io'["app"] = "none" /\ \A q \in Program \ {"app"} : io'[q] = io[q]
  <2>1. /\ Leave("app") /\ UNCHANGED <<file, backups, edits, kept, precious>>
        /\ \/ io["app"] = "done" /\ UNCHANGED lock
           \/ lock' = IF lock = "app" THEN Nobody ELSE lock
    BY DEF Loaded, Go, Finished, Fault, NoFault, counts, restStore
  <2> QED
    BY <1>1, <2>1, LeaveKeeps DEF Program
<1>m. settings' \in [Field -> Setting] /\ UNCHANGED want
  BY MergeType, DefaultType DEF Inv, TransTypes, Loaded, Program, Go
<1>e. settings'.enabled \in Setting /\ settings'.startup \in Setting
  BY <1>m DEF Field
<1>3. MindTypes'
  BY <1>m DEF Inv, MindTypes, Loaded, Go, Finished, counts, NoWish, transVars, Setting, Flip
<1>4. RegistryTypeOK'
  BY DEF Inv, RegistryTypeOK, AppTypes, registryVars, Command, Approval, Loaded, Go, Finished, counts
<1>5. AppTypes'
  <2>1. trip' \in TripType
    BY <1>1, TripCount, FaultCount DEF Inv, AppTypes, TripType, historyVars, Hits, Loaded, Go, Finished, counts
  <2> QED
    BY <1>e, <2>1, CountsAssumption DEF Inv, AppTypes, TripType, MindTypes, appVars, historyVars, Places, Setting, RegistryTypeOK, Loaded, Go, Finished, counts
<1>6. Inside'
  BY <1>2 DEF Inv, Inside, AppTypes, appVars, Places, Program, Loaded, Go, Finished, counts
<1> QED
  BY <1>2, <1>3, <1>4, <1>5, <1>6 DEF Inv

LEMMA AdoptedKeeps ==
    ASSUME Inv, Adopted
    PROVE  Inv'
<1>1. FaultStep
  BY DEF FaultStep, Adopted, Go, Finished, Fault, NoFault, counts, restStore
<1>2. /\ FileTypes' /\ TransTypes' /\ Promises'
      /\ io'["app"] = "none" /\ \A q \in Program \ {"app"} : io'[q] = io[q]
  <2>1. /\ Leave("app") /\ UNCHANGED <<file, backups, edits, kept, precious>>
        /\ \/ io["app"] = "done" /\ UNCHANGED lock
           \/ lock' = IF lock = "app" THEN Nobody ELSE lock
    BY DEF Adopted, Go, Finished, Fault, NoFault, counts, restStore
  <2> QED
    BY <1>1, <2>1, LeaveKeeps DEF Program
<1>3. MindTypes'
  BY DEF Inv, MindTypes, Adopted, Go, Finished, counts, NoWish, transVars, Setting, Flip
<1>4. RegistryTypeOK'
  BY DEF Inv, RegistryTypeOK, AppTypes, registryVars, Command, Approval, Adopted, Go, Finished, counts
<1>5. AppTypes'
  <2>1. trip' \in TripType
    BY <1>1, TripCount, FaultCount DEF Inv, AppTypes, TripType, historyVars, Hits, Adopted, Go, Finished, counts
  <2> QED
    BY <2>1, CountsAssumption DEF Inv, AppTypes, TripType, MindTypes, appVars, historyVars, Places, Setting, RegistryTypeOK, Adopted, Go, Finished, counts
<1>6. Inside'
  BY <1>2 DEF Inv, Inside, AppTypes, appVars, Places, Program, Adopted, Go, Finished, counts
<1> QED
  BY <1>2, <1>3, <1>4, <1>5, <1>6 DEF Inv

LEMMA AdoptKeeps ==
    ASSUME Inv, Adopt
    PROVE  Inv'
<1>1. FaultStep
  BY DEF FaultStep, Adopt, RunRead, Fault, NoFault
<1>2. /\ FileTypes' /\ TransTypes' /\ Promises' /\ UNCHANGED io["check"]
      /\ io'["app"] # "none" <=> at' = "adopted"
  <2>1. CASE at' = "adopted"
    <3>1. Enter("app", "update") /\ UNCHANGED restStore
      BY <2>1 DEF Adopt, Go
    <3>2. io["app"] \in {"none", "done"}
      BY DEF Inv, Inside, Adopt
    <3> QED
      BY <1>1, <2>1, <3>1, <3>2, EnterKeeps DEF Program
  <2>2. CASE at' # "adopted"
    <3>1. UNCHANGED <<restStore, transVars>>
      BY <2>2 DEF Adopt, transVars, restStore
    <3>2. io["app"] = "none"
      BY DEF Inv, Inside, Adopt
    <3> QED
      BY <1>1, <2>2, <3>1, <3>2, IdleKeeps
  <2> QED
    BY <2>1, <2>2
<1>3. MindTypes'
  BY DEF Inv, MindTypes, Adopt, Go, RunRead, counts, NoWish, transVars, Setting, Flip
<1>4. RegistryTypeOK'
  BY DEF Inv, RegistryTypeOK, AppTypes, registryVars, Command, Approval, Adopt, Go, RunRead, counts
<1>5. AppTypes'
  <2>1. trip' \in TripType
    BY <1>1, TripCount, FaultCount DEF Inv, AppTypes, TripType, historyVars, Hits, Adopt, Go, RunRead, counts
  <2> QED
    BY <2>1, CountsAssumption DEF Inv, AppTypes, TripType, MindTypes, appVars, historyVars, Places, Setting, RegistryTypeOK, Adopt, Go, RunRead, counts
<1>6. Inside'
  BY <1>2 DEF Inv, Inside, AppTypes, appVars, Places, Program, Adopt, Go, RunRead, counts
<1> QED
  BY <1>2, <1>3, <1>4, <1>5, <1>6 DEF Inv

LEMMA RepairKeeps ==
    ASSUME Inv, Repair
    PROVE  Inv'
<1>1. FaultStep
  BY DEF FaultStep, Repair, Go, Ready, RunRead, SetRun, SetRunFails, Fault, NoFault, counts, restStore
<1>2. FileTypes' /\ TransTypes' /\ Promises' /\ io' = io
  BY <1>1, IdleKeeps DEF Repair, Go, Ready, RunRead, SetRun, SetRunFails, Fault, NoFault, counts, restStore, transVars
<1>3. MindTypes'
  BY DEF Inv, MindTypes, Repair, Go, Ready, RunRead, SetRun, SetRunFails, counts, NoWish, transVars, Setting, Flip
<1>4. RegistryTypeOK'
  BY DEF Inv, RegistryTypeOK, AppTypes, registryVars, Command, Approval, Repair, Go, Ready, RunRead, SetRun, SetRunFails, counts
<1>5. AppTypes'
  <2>1. trip' \in TripType
    BY <1>1, TripCount, FaultCount DEF Inv, AppTypes, TripType, historyVars, Hits, Repair, Go, Ready, RunRead, SetRun, SetRunFails, counts
  <2> QED
    BY <2>1, CountsAssumption DEF Inv, AppTypes, TripType, MindTypes, appVars, historyVars, Places, Setting, RegistryTypeOK, Repair, Go, Ready, RunRead, SetRun, SetRunFails, counts
<1>6. Inside'
  BY <1>2 DEF Inv, Inside, AppTypes, appVars, Places, Program, Repair, Go, Ready, RunRead, SetRun, SetRunFails, counts
<1> QED
  BY <1>2, <1>3, <1>4, <1>5, <1>6 DEF Inv

LEMMA ApproveKeeps ==
    ASSUME Inv, Approve
    PROVE  Inv'
<1>1. FaultStep
  BY DEF FaultStep, Approve, Ready, SetApproval, Fault, NoFault, counts, restStore
<1>2. FileTypes' /\ TransTypes' /\ Promises' /\ io' = io
  BY <1>1, IdleKeeps DEF Approve, Ready, SetApproval, Fault, NoFault, counts, restStore, transVars
<1>3. MindTypes'
  BY DEF Inv, MindTypes, Approve, Ready, SetApproval, counts, NoWish, transVars, Setting, Flip
<1>4. RegistryTypeOK'
  BY DEF Inv, RegistryTypeOK, AppTypes, registryVars, Command, Approval, Approve, Ready, SetApproval, counts
<1>5. AppTypes'
  <2>1. trip' \in TripType
    BY <1>1, TripCount, FaultCount DEF Inv, AppTypes, TripType, historyVars, Hits, Approve, Ready, SetApproval, counts
  <2> QED
    BY <2>1, CountsAssumption DEF Inv, AppTypes, TripType, MindTypes, appVars, historyVars, Places, Setting, RegistryTypeOK, Approve, Ready, SetApproval, counts
<1>6. Inside'
  BY <1>2 DEF Inv, Inside, AppTypes, appVars, Places, Program, Approve, Ready, SetApproval, counts
<1> QED
  BY <1>2, <1>3, <1>4, <1>5, <1>6 DEF Inv

LEMMA ToggleEnabledKeeps ==
    ASSUME Inv, ToggleEnabled
    PROVE  Inv'
<1>1. FaultStep
  BY DEF FaultStep, ToggleEnabled, Begin, Fault, NoFault, counts, restStore
<1>2. /\ FileTypes' /\ TransTypes' /\ Promises'
      /\ io'["app"] = "lock" /\ \A q \in Program \ {"app"} : io'[q] = io[q]
  <2>1. Enter("app", "update") /\ UNCHANGED restStore
    BY DEF ToggleEnabled, Begin, Fault, NoFault, counts, restStore
  <2>2. io["app"] \in {"none", "done"}
    BY DEF Inv, Inside, ToggleEnabled
  <2> QED
    BY <1>1, <2>1, <2>2, EnterKeeps DEF Program
<1>3. MindTypes'
  BY DEF Inv, MindTypes, ToggleEnabled, Begin, counts, NoWish, transVars, Setting, Flip
<1>4. RegistryTypeOK'
  BY DEF Inv, RegistryTypeOK, AppTypes, registryVars, Command, Approval, ToggleEnabled, Begin, counts
<1>5. AppTypes'
  <2>1. trip' \in TripType
    BY <1>1, TripCount, FaultCount DEF Inv, AppTypes, TripType, historyVars, Hits, ToggleEnabled, Begin, counts
  <2> QED
    BY <2>1, CountsAssumption DEF Inv, AppTypes, TripType, MindTypes, appVars, historyVars, Places, Setting, RegistryTypeOK, ToggleEnabled, Begin, counts
<1>6. Inside'
  BY <1>2 DEF Inv, Inside, AppTypes, appVars, Places, Program, ToggleEnabled, Begin, counts
<1> QED
  BY <1>2, <1>3, <1>4, <1>5, <1>6 DEF Inv

LEMMA SwitchedKeeps ==
    ASSUME Inv, Switched
    PROVE  Inv'
<1>1. FaultStep
  BY DEF FaultStep, Switched, Ready, Finished, Fault, NoFault, counts, restStore
<1>2. /\ FileTypes' /\ TransTypes' /\ Promises'
      /\ io'["app"] = "none" /\ \A q \in Program \ {"app"} : io'[q] = io[q]
  <2>1. /\ Leave("app") /\ UNCHANGED <<file, backups, edits, kept, precious>>
        /\ \/ io["app"] = "done" /\ UNCHANGED lock
           \/ lock' = IF lock = "app" THEN Nobody ELSE lock
    BY DEF Switched, Ready, Finished, Fault, NoFault, counts, restStore
  <2> QED
    BY <1>1, <2>1, LeaveKeeps DEF Program
<1>m. settings' \in [Field -> Setting]
  <2>1. Merge(settings, seen["app"]) \in [Field -> Setting]
    BY MergeType DEF Inv, MindTypes, TransTypes, Program
  <2>2. Written \in [Field -> Setting]
    BY <2>1 DEF Inv, MindTypes, Written, Field
  <2> QED
    BY <2>2 DEF Inv, MindTypes, Switched
<1>3. MindTypes'
  BY <1>m DEF Inv, MindTypes, Switched, Ready, Finished, counts, NoWish, transVars, Setting, Flip
<1>4. RegistryTypeOK'
  BY DEF Inv, RegistryTypeOK, AppTypes, registryVars, Command, Approval, Switched, Ready, Finished, counts
<1>5. AppTypes'
  <2>1. trip' \in TripType
    BY <1>1, TripCount, FaultCount DEF Inv, AppTypes, TripType, historyVars, Hits, Switched, Ready, Finished, counts
  <2> QED
    BY <2>1, CountsAssumption DEF Inv, AppTypes, TripType, MindTypes, appVars, historyVars, Places, Setting, RegistryTypeOK, Switched, Ready, Finished, counts
<1>6. Inside'
  BY <1>2 DEF Inv, Inside, AppTypes, appVars, Places, Program, Switched, Ready, Finished, counts
<1> QED
  BY <1>2, <1>3, <1>4, <1>5, <1>6 DEF Inv

LEMMA ToggleStartupKeeps ==
    ASSUME Inv, ToggleStartup
    PROVE  Inv'
<1>1. FaultStep
  BY DEF FaultStep, ToggleStartup, Begin, RunRead, Fault, NoFault, counts, restStore
<1>2. FileTypes' /\ TransTypes' /\ Promises' /\ io' = io
  BY <1>1, IdleKeeps DEF ToggleStartup, Begin, RunRead, Fault, NoFault, counts, restStore, transVars
<1>3. MindTypes'
  BY DEF Inv, MindTypes, ToggleStartup, Begin, RunRead, counts, NoWish, transVars, Setting, Flip
<1>4. RegistryTypeOK'
  BY DEF Inv, RegistryTypeOK, AppTypes, registryVars, Command, Approval, ToggleStartup, Begin, RunRead, counts
<1>5. AppTypes'
  <2>1. trip' \in TripType
    <3>1. faults' - faults \in 0 .. 2
      BY <1>1, FaultCount, BoundsAssumption DEF Inv, FileTypes, FaultStep, Fault
    <3> QED
      BY <1>1, <3>1, TripCount DEF ToggleStartup
  <2> QED
    BY <2>1, CountsAssumption DEF Inv, AppTypes, TripType, MindTypes, appVars, historyVars, Places, Setting, RegistryTypeOK, ToggleStartup, Begin, RunRead, counts
<1>6. Inside'
  BY <1>2 DEF Inv, Inside, AppTypes, appVars, Places, Program, ToggleStartup, Begin, RunRead, counts
<1> QED
  BY <1>2, <1>3, <1>4, <1>5, <1>6 DEF Inv

LEMMA ChangeKeeps ==
    ASSUME Inv, Change
    PROVE  Inv'
<1>1. FaultStep
  BY DEF FaultStep, Change, Go, SetRun, SetRunFails, NewCommand, Fault, NoFault, counts, restStore
<1>2. FileTypes' /\ TransTypes' /\ Promises' /\ io' = io
  BY <1>1, IdleKeeps DEF Change, Go, SetRun, SetRunFails, NewCommand, Fault, NoFault, counts, restStore, transVars
<1>3. MindTypes'
  BY DEF Inv, MindTypes, Change, Go, SetRun, SetRunFails, NewCommand, counts, NoWish, transVars, Setting, Flip
<1>4. RegistryTypeOK'
  BY DEF Inv, RegistryTypeOK, AppTypes, registryVars, Command, Approval, Change, Go, SetRun, SetRunFails, NewCommand, counts
<1>5. AppTypes'
  <2>1. trip' \in TripType
    BY <1>1, TripCount, FaultCount DEF Inv, AppTypes, TripType, historyVars, Hits, Change, Go, SetRun, SetRunFails, NewCommand, counts
  <2> QED
    BY <2>1, CountsAssumption DEF Inv, AppTypes, TripType, MindTypes, appVars, historyVars, Places, Setting, RegistryTypeOK, Change, Go, SetRun, SetRunFails, NewCommand, counts
<1>6. Inside'
  BY <1>2 DEF Inv, Inside, AppTypes, appVars, Places, Program, Change, Go, SetRun, SetRunFails, NewCommand, counts
<1> QED
  BY <1>2, <1>3, <1>4, <1>5, <1>6 DEF Inv

LEMMA ApprovingKeeps ==
    ASSUME Inv, Approving
    PROVE  Inv'
<1>1. FaultStep
  BY DEF FaultStep, Approving, Fault, NoFault
<1>2. /\ FileTypes' /\ TransTypes' /\ Promises' /\ UNCHANGED io["check"]
      /\ io'["app"] # "none" <=> at' = "save"
  <2>1. CASE at' = "save"
    <3>1. Enter("app", "update") /\ UNCHANGED restStore
      BY <2>1 DEF Approving, Go
    <3>2. io["app"] \in {"none", "done"}
      BY DEF Inv, Inside, Approving
    <3> QED
      BY <1>1, <2>1, <3>1, <3>2, EnterKeeps DEF Program
  <2>2. CASE at' # "save"
    <3>1. UNCHANGED <<restStore, transVars>>
      BY <2>2 DEF Approving, Go, transVars, restStore
    <3>2. io["app"] = "none"
      BY DEF Inv, Inside, Approving
    <3> QED
      BY <1>1, <2>2, <3>1, <3>2, IdleKeeps
  <2> QED
    BY <2>1, <2>2
<1>3. MindTypes'
  BY DEF Inv, MindTypes, Approving, Go, SetApproval, counts, NoWish, transVars, Setting, Flip
<1>4. RegistryTypeOK'
  BY DEF Inv, RegistryTypeOK, AppTypes, registryVars, Command, Approval, Approving, Go, SetApproval,
     ApprovalLeft, counts
<1>5. AppTypes'
  <2>1. trip' \in TripType
    BY <1>1, TripCount, FaultCount DEF Inv, AppTypes, TripType, historyVars, Hits, Approving, Go, SetApproval, counts
  <2> QED
    BY <2>1, CountsAssumption DEF Inv, AppTypes, TripType, MindTypes, appVars, historyVars, Places, Setting, RegistryTypeOK, Approving, Go, SetApproval, counts
<1>6. Inside'
  BY <1>2 DEF Inv, Inside, AppTypes, appVars, Places, Program, Approving, Go, SetApproval, counts
<1> QED
  BY <1>2, <1>3, <1>4, <1>5, <1>6 DEF Inv

LEMMA SavedKeeps ==
    ASSUME Inv, Saved
    PROVE  Inv'
<1>1. FaultStep
  BY DEF FaultStep, Saved, Go, Ready, Finished, Fault, NoFault, counts, restStore
<1>2. /\ FileTypes' /\ TransTypes' /\ Promises'
      /\ io'["app"] = "none" /\ \A q \in Program \ {"app"} : io'[q] = io[q]
  <2>1. /\ Leave("app") /\ UNCHANGED <<file, backups, edits, kept, precious>>
        /\ \/ io["app"] = "done" /\ UNCHANGED lock
           \/ lock' = IF lock = "app" THEN Nobody ELSE lock
    BY DEF Saved, Go, Ready, Finished, Fault, NoFault, counts, restStore
  <2> QED
    BY <1>1, <2>1, LeaveKeeps DEF Program
<1>m. settings' \in [Field -> Setting]
  <2>1. Merge(settings, seen["app"]) \in [Field -> Setting]
    BY MergeType DEF Inv, MindTypes, TransTypes, Program
  <2>2. Written \in [Field -> Setting]
    BY <2>1 DEF Inv, MindTypes, Written, Field
  <2> QED
    BY <2>2 DEF Inv, MindTypes, Saved
<1>3. MindTypes'
  BY <1>m DEF Inv, MindTypes, Saved, Go, Ready, Finished, counts, NoWish, transVars, Setting, Flip
<1>4. RegistryTypeOK'
  BY DEF Inv, RegistryTypeOK, AppTypes, registryVars, Command, Approval, Saved, Go, Ready, Finished, counts
<1>5. AppTypes'
  <2>1. trip' \in TripType
    BY <1>1, TripCount, FaultCount DEF Inv, AppTypes, TripType, historyVars, Hits, Saved, Go, Ready, Finished, counts
  <2> QED
    BY <2>1, CountsAssumption DEF Inv, AppTypes, TripType, MindTypes, appVars, historyVars, Places, Setting, RegistryTypeOK, Saved, Go, Ready, Finished, counts
<1>6. Inside'
  BY <1>2 DEF Inv, Inside, AppTypes, appVars, Places, Program, Saved, Go, Ready, Finished, counts
<1> QED
  BY <1>2, <1>3, <1>4, <1>5, <1>6 DEF Inv

LEMMA UndoKeeps ==
    ASSUME Inv, Undo
    PROVE  Inv'
<1>1. FaultStep
  BY DEF FaultStep, Undo, Go, SetRun, SetRunFails, Fault, NoFault, counts, restStore
<1>2. FileTypes' /\ TransTypes' /\ Promises' /\ io' = io
  BY <1>1, IdleKeeps DEF Undo, Go, SetRun, SetRunFails, Fault, NoFault, counts, restStore, transVars
<1>3. MindTypes'
  BY DEF Inv, MindTypes, Undo, Go, SetRun, SetRunFails, counts, NoWish, transVars, Setting, Flip
<1>4. RegistryTypeOK'
  BY DEF Inv, RegistryTypeOK, AppTypes, registryVars, Command, Approval, Undo, Go, SetRun, SetRunFails, counts
<1>5. AppTypes'
  <2>1. trip' \in TripType
    BY <1>1, TripCount, FaultCount DEF Inv, AppTypes, TripType, historyVars, Hits, Undo, Go, SetRun, SetRunFails, counts
  <2> QED
    BY <2>1, CountsAssumption DEF Inv, AppTypes, TripType, MindTypes, appVars, historyVars, Places, Setting, RegistryTypeOK, Undo, Go, SetRun, SetRunFails, counts
<1>6. Inside'
  BY <1>2 DEF Inv, Inside, AppTypes, appVars, Places, Program, Undo, Go, SetRun, SetRunFails, counts
<1> QED
  BY <1>2, <1>3, <1>4, <1>5, <1>6 DEF Inv

LEMMA UnapproveKeeps ==
    ASSUME Inv, Unapprove
    PROVE  Inv'
<1>1. FaultStep
  BY DEF FaultStep, Unapprove, Go, SetApproval, Fault, NoFault, counts, restStore
<1>2. FileTypes' /\ TransTypes' /\ Promises' /\ io' = io
  BY <1>1, IdleKeeps DEF Unapprove, Go, SetApproval, Fault, NoFault, counts, restStore, transVars
<1>3. MindTypes'
  BY DEF Inv, MindTypes, Unapprove, Go, SetApproval, counts, NoWish, transVars, Setting, Flip
<1>4. RegistryTypeOK'
  BY DEF Inv, RegistryTypeOK, AppTypes, registryVars, Command, Approval, Unapprove, Go, SetApproval, counts
<1>5. AppTypes'
  <2>1. trip' \in TripType
    BY <1>1, TripCount, FaultCount DEF Inv, AppTypes, TripType, historyVars, Hits, Unapprove, Go, SetApproval, counts
  <2> QED
    BY <2>1, CountsAssumption DEF Inv, AppTypes, TripType, MindTypes, appVars, historyVars, Places, Setting, RegistryTypeOK, Unapprove, Go, SetApproval, counts
<1>6. Inside'
  BY <1>2 DEF Inv, Inside, AppTypes, appVars, Places, Program, Unapprove, Go, SetApproval, counts
<1> QED
  BY <1>2, <1>3, <1>4, <1>5, <1>6 DEF Inv

LEMMA SettleKeeps ==
    ASSUME Inv, Settle
    PROVE  Inv'
<1>1. FaultStep
  BY DEF FaultStep, Settle, Ready, RunRead, Fault, NoFault, counts, restStore
<1>2. FileTypes' /\ TransTypes' /\ Promises' /\ io' = io
  BY <1>1, IdleKeeps DEF Settle, Ready, RunRead, Fault, NoFault, counts, restStore, transVars
<1>3. MindTypes'
  BY DEF Inv, MindTypes, Settle, Ready, RunRead, counts, NoWish, transVars, Setting, Flip
<1>4. RegistryTypeOK'
  BY DEF Inv, RegistryTypeOK, AppTypes, registryVars, Command, Approval, Settle, Ready, RunRead, counts
<1>5. AppTypes'
  <2>1. trip' \in TripType
    BY <1>1, TripCount, FaultCount DEF Inv, AppTypes, TripType, historyVars, Hits, Settle, Ready, RunRead, counts
  <2> QED
    BY <2>1, CountsAssumption DEF Inv, AppTypes, TripType, MindTypes, appVars, historyVars, Places, Setting, RegistryTypeOK, Settle, Ready, RunRead, counts
<1>6. Inside'
  BY <1>2 DEF Inv, Inside, AppTypes, appVars, Places, Program, Settle, Ready, RunRead, counts
<1> QED
  BY <1>2, <1>3, <1>4, <1>5, <1>6 DEF Inv

LEMMA AppWorksKeeps ==
    ASSUME Inv, AppWorks
    PROVE  Inv'
<1>1. FaultStep
  BY TransactionKeeps DEF AppWorks, FaultStep, Program, Transaction, Acquire, AcquireFails, Create, Fill, Read,
     ReadFails, Backup, BackupFails, Heal, Write, WriteFails, NoFault
<1>2. /\ FileTypes' /\ TransTypes' /\ Promises'
      /\ io["app"] # "none" /\ io'["app"] # "none" /\ UNCHANGED io["check"]
      /\ UNCHANGED <<want, settings>>
  BY TransactionKeeps DEF AppWorks, StoreKept, Program
<1>3. MindTypes'
  BY <1>2 DEF Inv, MindTypes
<1>4. RegistryTypeOK'
  BY DEF Inv, RegistryTypeOK, registryVars, AppWorks
<1>5. AppTypes'
  <2>1. trip' \in TripType
    BY <1>1, TripCount DEF Inv, AppTypes, TripType, historyVars, AppWorks
  <2> QED
    BY <2>1 DEF Inv, AppTypes, TripType, appVars, historyVars, counts, AppWorks
<1>6. Inside'
  BY <1>2 DEF Inv, Inside, appVars, AppWorks
<1> QED
  BY <1>2, <1>3, <1>4, <1>5, <1>6 DEF Inv

LEMMA AppEndsKeeps ==
    ASSUME Inv, AppEnds
    PROVE  Inv'
<1>1. FaultStep
  BY DEF FaultStep, AppEnds, Abandon, Fault, NoFault, counts, restStore
<1>2. /\ FileTypes' /\ TransTypes' /\ Promises'
      /\ io'["app"] = "none" /\ \A q \in Program \ {"app"} : io'[q] = io[q]
  <2>1. /\ Leave("app") /\ UNCHANGED <<file, backups, edits, kept, precious>>
        /\ \/ io["app"] = "done" /\ UNCHANGED lock
           \/ lock' = IF lock = "app" THEN Nobody ELSE lock
    BY DEF AppEnds, Abandon, Fault, NoFault, counts, restStore
  <2> QED
    BY <1>1, <2>1, LeaveKeeps DEF Program
<1>3. MindTypes'
  BY DefaultType DEF Inv, MindTypes, AppEnds, Abandon, counts, NoWish, transVars, Setting, Flip
<1>4. RegistryTypeOK'
  BY DEF Inv, RegistryTypeOK, AppTypes, registryVars, Command, Approval, AppEnds, Abandon, counts
<1>5. AppTypes'
  <2>1. trip' \in TripType
    BY <1>1, TripCount, FaultCount DEF Inv, AppTypes, TripType, historyVars, Hits, AppEnds, Abandon, counts
  <2> QED
    BY <2>1, CountsAssumption DEF Inv, AppTypes, TripType, MindTypes, appVars, historyVars, Places, Setting, RegistryTypeOK, AppEnds, Abandon, counts
<1>6. Inside'
  BY <1>2 DEF Inv, Inside, AppTypes, appVars, Places, Program, AppEnds, Abandon, counts
<1> QED
  BY <1>2, <1>3, <1>4, <1>5, <1>6 DEF Inv

LEMMA CheckStartsKeeps ==
    ASSUME Inv, CheckStarts
    PROVE  Inv'
<1>1. FaultStep
  BY DEF FaultStep, CheckStarts, Fault, NoFault, counts, restStore
<1>2. /\ FileTypes' /\ TransTypes' /\ Promises'
      /\ io'["check"] = "lock" /\ \A q \in Program \ {"check"} : io'[q] = io[q]
  <2>1. Enter("check", "ensure") /\ UNCHANGED restStore
    BY DEF CheckStarts, Fault, NoFault, counts, restStore
  <2>2. io["check"] \in {"none", "done"}
    BY DEF Inv, Inside, CheckStarts
  <2> QED
    BY <1>1, <2>1, <2>2, EnterKeeps DEF Program
<1>3. MindTypes'
  BY DEF Inv, MindTypes, CheckStarts, counts, NoWish, transVars, Setting, Flip
<1>4. RegistryTypeOK'
  BY DEF Inv, RegistryTypeOK, AppTypes, registryVars, Command, Approval, CheckStarts, counts
<1>5. AppTypes'
  <2>1. trip' \in TripType
    BY <1>1, TripCount, FaultCount DEF Inv, AppTypes, TripType, historyVars, Hits, CheckStarts, counts
  <2> QED
    BY <2>1, CountsAssumption DEF Inv, AppTypes, TripType, MindTypes, appVars, historyVars, Places, Setting, RegistryTypeOK, CheckStarts, counts
<1>6. Inside'
  BY <1>2 DEF Inv, Inside, AppTypes, appVars, Places, Program, CheckStarts, counts
<1> QED
  BY <1>2, <1>3, <1>4, <1>5, <1>6 DEF Inv

LEMMA CheckWorksKeeps ==
    ASSUME Inv, CheckWorks
    PROVE  Inv'
<1>1. FaultStep
  BY TransactionKeeps DEF CheckWorks, FaultStep, Program, Transaction, Acquire, AcquireFails, Create, Fill, Read,
     ReadFails, Backup, BackupFails, Heal, Write, WriteFails, NoFault
<1>2. /\ FileTypes' /\ TransTypes' /\ Promises'
      /\ io["check"] # "none" /\ io'["check"] # "none" /\ UNCHANGED io["app"]
      /\ UNCHANGED <<want, settings>>
  BY TransactionKeeps DEF CheckWorks, StoreKept, Program
<1>3. MindTypes'
  BY <1>2 DEF Inv, MindTypes
<1>4. RegistryTypeOK'
  BY DEF Inv, RegistryTypeOK, registryVars, CheckWorks
<1>5. AppTypes'
  <2>1. trip' \in TripType
    BY <1>1, TripCount DEF Inv, AppTypes, TripType, historyVars, CheckWorks
  <2> QED
    BY <2>1 DEF Inv, AppTypes, TripType, appVars, historyVars, counts, CheckWorks
<1>6. Inside'
  BY <1>2 DEF Inv, Inside, appVars, CheckWorks
<1> QED
  BY <1>2, <1>3, <1>4, <1>5, <1>6 DEF Inv

LEMMA CheckLoadsKeeps ==
    ASSUME Inv, CheckLoads
    PROVE  Inv'
<1>1. FaultStep
  BY DEF FaultStep, CheckLoads, Finished, Fault, NoFault, counts, restStore
<1>2. /\ FileTypes' /\ TransTypes' /\ Promises'
      /\ io'["check"] = "lock" /\ \A q \in Program \ {"check"} : io'[q] = io[q]
  <2>1. Enter("check", "load") /\ UNCHANGED restStore
    BY DEF CheckLoads, Finished, Fault, NoFault, counts, restStore
  <2>2. io["check"] \in {"none", "done"}
    BY DEF Inv, Inside, CheckLoads, Finished
  <2> QED
    BY <1>1, <2>1, <2>2, EnterKeeps DEF Program
<1>3. MindTypes'
  BY DEF Inv, MindTypes, CheckLoads, Finished, counts, NoWish, transVars, Setting, Flip
<1>4. RegistryTypeOK'
  BY DEF Inv, RegistryTypeOK, AppTypes, registryVars, Command, Approval, CheckLoads, Finished, counts
<1>5. AppTypes'
  <2>1. trip' \in TripType
    BY <1>1, TripCount, FaultCount DEF Inv, AppTypes, TripType, historyVars, Hits, CheckLoads, Finished, counts
  <2> QED
    BY <2>1, CountsAssumption DEF Inv, AppTypes, TripType, MindTypes, appVars, historyVars, Places, Setting, RegistryTypeOK, CheckLoads, Finished, counts
<1>6. Inside'
  BY <1>2 DEF Inv, Inside, AppTypes, appVars, Places, Program, CheckLoads, Finished, counts
<1> QED
  BY <1>2, <1>3, <1>4, <1>5, <1>6 DEF Inv

LEMMA CheckEndsKeeps ==
    ASSUME Inv, CheckEnds
    PROVE  Inv'
<1>1. FaultStep
  BY DEF FaultStep, CheckEnds, Abandon, Fault, NoFault, counts, restStore
<1>2. /\ FileTypes' /\ TransTypes' /\ Promises'
      /\ io'["check"] = "none" /\ \A q \in Program \ {"check"} : io'[q] = io[q]
  <2>1. /\ Leave("check") /\ UNCHANGED <<file, backups, edits, kept, precious>>
        /\ \/ io["check"] = "done" /\ UNCHANGED lock
           \/ lock' = IF lock = "check" THEN Nobody ELSE lock
    BY DEF CheckEnds, Abandon, Fault, NoFault, counts, restStore
  <2> QED
    BY <1>1, <2>1, LeaveKeeps DEF Program
<1>3. MindTypes'
  BY DEF Inv, MindTypes, CheckEnds, Abandon, counts, NoWish, transVars, Setting, Flip
<1>4. RegistryTypeOK'
  BY DEF Inv, RegistryTypeOK, AppTypes, registryVars, Command, Approval, CheckEnds, Abandon, counts
<1>5. AppTypes'
  <2>1. trip' \in TripType
    BY <1>1, TripCount, FaultCount DEF Inv, AppTypes, TripType, historyVars, Hits, CheckEnds, Abandon, counts
  <2> QED
    BY <2>1, CountsAssumption DEF Inv, AppTypes, TripType, MindTypes, appVars, historyVars, Places, Setting, RegistryTypeOK, CheckEnds, Abandon, counts
<1>6. Inside'
  BY <1>2 DEF Inv, Inside, AppTypes, appVars, Places, Program, CheckEnds, Abandon, counts
<1> QED
  BY <1>2, <1>3, <1>4, <1>5, <1>6 DEF Inv

\* The user saves or deletes the file, whatever the programs are doing.
LEMMA UserEditsKeeps ==
    ASSUME Inv, UserEdits
    PROVE  Inv'
<1> USE BoundsAssumption
<1>0. /\ edits \in 0 .. Edits /\ edits' = edits + 1 /\ edits' \in 1 .. Edits
      /\ file.id \in 0 .. edits /\ backups' = backups
      /\ backups \subseteq 1 .. edits /\ precious \subseteq 1 .. edits
  BY DEF Inv, FileTypes, UserEdits, UserSaves
<1>1. /\ file' \in Content /\ file'.id \in {0, edits'}
      /\ file'.value.other # "bad" => file'.state = "object"
      /\ file'.value.other \in Setting \cup {"bad"}
  <2>1. CASE file' = Missing
    BY <2>1, MissingContent DEF NoValue, Field
  <2>2. CASE file' = Broken(edits + 1)
    <3>1. edits + 1 \in 0 .. Edits
      BY <1>0
    <3> QED
      BY <2>2, <3>1, <1>0, BrokenContent DEF NoValue, Field
  <2>3. CASE \E v \in Saves : file' = Object(v)
    <3>1. PICK v \in Saves : file' = Object(v)
      BY <2>3
    <3>2. v \in Value
      BY SavesAssumption DEF Value
    <3> QED
      BY <3>1, <3>2, ObjectContent DEF Value, Field
  <2> QED
    BY <2>1, <2>2, <2>3 DEF UserEdits, UserSaves
<1>2. FileTypes'
  <2>1. precious' \subseteq 1 .. edits'
    <3>1. precious' \subseteq precious \cup ({file'.id} \ {0})
      BY DEF UserEdits, UserSaves
    <3>2. {file'.id} \ {0} \subseteq {edits'}
      BY <1>1
    <3>3. precious \subseteq 1 .. edits' /\ edits' \in 1 .. edits'
      BY <1>0
    <3> QED
      BY <3>1, <3>2, <3>3
  <2>2. kept' \in Setting \cup {"bad"}
    BY <1>1 DEF UserEdits, UserSaves
  <2>3. backups' \subseteq 1 .. edits' /\ file'.id \in 0 .. edits' /\ edits' \in 0 .. Edits
    BY <1>0, <1>1
  <2>4. faults' \in 0 .. Faults
    BY DEF Inv, FileTypes, UserEdits, UserSaves
  <2> QED
    BY <1>1, <2>1, <2>2, <2>3, <2>4 DEF FileTypes
<1>3. TransTypes' /\ io' = io /\ seen' = seen /\ lock' = lock
  BY DEF Inv, TransTypes, UserEdits, UserSaves, transVars
<1>4. Promises'
  <2>1. KeptThere'
    BY <1>1 DEF KeptThere, UserEdits, UserSaves
  <2>2. precious \ {file.id} \subseteq backups
    BY DEF Inv, Promises, BrokenNeverLost
  <2>3. BrokenNeverLost'
    BY <1>0, <2>2 DEF BrokenNeverLost, UserEdits, UserSaves
  <2>4. ASSUME NEW p \in Program PROVE Careful(p)'
    <3>1. CASE NoTransaction
      <4>1. io'[p] \in {"none", "lock", "done"}
        BY <1>3, <3>1 DEF Inv, TransTypes, NoTransaction, Nobody, Program
      <4> QED
        BY <4>1 DEF Careful
    <3>2. CASE ~NoTransaction
      <4>1. kept' = "bad" /\ precious' = precious \ {file.id}
        BY <3>2 DEF UserEdits, UserSaves
      <4> QED
        BY <1>0, <1>3, <2>2, <4>1 DEF Careful
    <3> QED
      BY <3>1, <3>2
  <2> QED
    BY <2>1, <2>3, <2>4 DEF Promises
<1>5. MindTypes'
  BY DEF Inv, MindTypes, UserEdits, UserSaves
<1>6. RegistryTypeOK' /\ AppTypes' /\ Inside'
  BY <1>3 DEF Inv, RegistryTypeOK, AppTypes, Inside, UserEdits, registryVars, appVars, counts
<1> QED
  BY <1>2, <1>3, <1>4, <1>5, <1>6 DEF Inv

LEMMA UserTweaksKeeps ==
    ASSUME Inv, UserTweaks
    PROVE  Inv'
<1> USE BoundsAssumption
<1>1. edits \in 0 .. Edits /\ edits' = edits + 1 /\ edits' \in 1 .. Edits
  BY DEF Inv, FileTypes, UserTweaks
<1>2. FileTypes'
  BY <1>1 DEF Inv, FileTypes, UserTweaks
<1>3. TransTypes' /\ MindTypes' /\ Inside'
  BY DEF Inv, TransTypes, MindTypes, Inside, UserTweaks, transVars, appVars
<1>4. Promises'
  BY DEF Inv, Promises, KeptThere, BrokenNeverLost, Careful, UserTweaks, transVars
<1>5. RegistryTypeOK'
  BY DEF Inv, RegistryTypeOK, UserTweaks, Tweak, Command, Approval
<1>6. AppTypes'
  BY DEF Inv, AppTypes, UserTweaks, appVars, counts
<1> QED
  BY <1>2, <1>3, <1>4, <1>5, <1>6 DEF Inv

----------------------------------------------------------------------------
(* The theorems.                                                           *)

LEMMA InvInit == Init => Inv
<1> SUFFICES ASSUME Init PROVE Inv
  OBVIOUS
<1> USE BoundsAssumption, CountsAssumption DEF Init, StoreInit, RegistryInit
<1>1. file \in Content /\ file.id = 0 /\ file.value \in Value
      /\ (file.value.other # "bad" => file.state = "object")
  BY MissingContent, ObjectContent, DefaultType DEF NoValue, Field
<1>2. FileTypes
  BY <1>1 DEF FileTypes, Value, Field
<1>3. TransTypes
  BY DefaultType DEF TransTypes, Program, Nobody
<1>4. MindTypes
  BY DefaultType DEF MindTypes, NoWish, Setting
<1>5. RegistryTypeOK
  BY DEF RegistryTypeOK, Approval
<1>6. AppTypes
  <2>1. 0 \in 0 .. Starts /\ 0 \in 0 .. Checks
    BY CountsAssumption
  <2>2. flag \in [enabled : Setting, startup : Setting]
    BY DEF Setting
  <2>3. trip \in [hits : 0 .. 2, disturbed : BOOLEAN, run : {"none"} \cup Command, saved : Setting]
    BY DEF NoTrip, Setting
  <2> QED
    BY <2>1, <2>2, <2>3 DEF AppTypes, Places
<1>i. Inside
  BY DEF Inside, Program
<1>7. Promises
  BY <1>1 DEF Promises, KeptThere, BrokenNeverLost, Careful
<1> QED
  BY <1>2, <1>3, <1>4, <1>5, <1>6, <1>i, <1>7 DEF Inv

LEMMA InvStep ==
    ASSUME Inv, [Next]_vars
    PROVE  Inv'
<1>1. CASE UNCHANGED vars
  BY <1>1 DEF Inv, FileTypes, TransTypes, MindTypes, RegistryTypeOK, AppTypes, Inside, Promises,
     KeptThere, BrokenNeverLost, Careful, vars, storeVars, transVars, registryVars, appVars, historyVars
<1>2. CASE App
  BY <1>2, EnsuredKeeps, LoadedKeeps, AdoptKeeps, AdoptedKeeps, RepairKeeps, ApproveKeeps,
     SwitchedKeeps, ChangeKeeps, ApprovingKeeps, SavedKeeps, UndoKeeps, UnapproveKeeps,
     SettleKeeps, AppWorksKeeps DEF App
<1>3. CASE Start \/ ToggleEnabled \/ ToggleStartup \/ AppEnds
  BY <1>3, StartKeeps, ToggleEnabledKeeps, ToggleStartupKeeps, AppEndsKeeps
<1>4. CASE CheckStarts \/ CheckLoads \/ CheckWorks \/ CheckEnds
  BY <1>4, CheckStartsKeeps, CheckLoadsKeeps, CheckWorksKeeps, CheckEndsKeeps
<1>5. CASE UserEdits \/ UserTweaks
  BY <1>5, UserEditsKeeps, UserTweaksKeeps
<1> QED
  BY <1>1, <1>2, <1>3, <1>4, <1>5 DEF Next

LEMMA InvAlways == Spec => []Inv
  BY InvInit, InvStep, PTL DEF Spec

\* Every variable of the tray app, --self-check, the settings file and the
\* registry keeps its type, the mutex belongs to the program that is inside its
\* transaction, and a program is inside one exactly at the places that started
\* it (settings.rs, storage.rs, single_instance.rs).
THEOREM SettingsTypes == Spec => []TypeOK
<1>1. Inv => TypeOK
  BY DEF Inv, FileTypes, TransTypes, MindTypes, AppTypes, Inside, TypeOK, StoreTypeOK, Value, Field
<1> QED
  BY <1>1, InvAlways, PTL

\* A value the user saved outside a transaction stays in the file until the
\* user saves again, for any number of toggles, repairs, failures and deaths
\* (update_settings, settings.rs).
THEOREM UserValueKept == Spec => []UserValueSurvives
<1>1. Inv => UserValueSurvives
  BY DEF Inv, Promises, KeptThere, UserValueSurvives
<1> QED
  BY <1>1, InvAlways, PTL

\* A damaged file the user saved outside a transaction is never destroyed
\* without a copy (backup_broken and heal_after_backup, storage.rs).
THEOREM BrokenKept == Spec => []BrokenNeverLost
<1>1. Inv => BrokenNeverLost
  BY DEF Inv, Promises
<1> QED
  BY <1>1, InvAlways, PTL
=============================================================================
