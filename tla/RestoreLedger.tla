--------------------------- MODULE RestoreLedger ---------------------------
(***************************************************************************)
(* What the engine promises about the windows it suppresses, without its   *)
(* worker, phases, retries or threads: every window that is put down is on *)
(* a ledger together with how it looked when it was entered, and an entry  *)
(* leaves the ledger only when the window looks like that again or does    *)
(* not exist any more.  RestoreEngine is shown to implement this module.   *)
(***************************************************************************)
EXTENDS Naturals

CONSTANT Identity   \* everything that can be entered in the ledger

VARIABLES
    alive,   \* identities whose window exists
    face,    \* face[i]: what is to be seen of it, a subset of {"shown", "sized"}
    owed,    \* identities on the ledger
    record,  \* record[i]: the face i had when it was entered, {} when not entered
    down     \* identities the engine has suppressed and not yet settled

vars == <<alive, face, owed, record, down>>

Face == SUBSET {"shown", "sized"}

Init ==
    /\ alive \subseteq Identity
    /\ face \in [Identity -> Face]
    /\ owed = {}
    /\ record = [i \in Identity |-> {}]
    /\ down = {}

\* Enter a window as it looks now.
Enter(i) ==
    /\ i \in alive \ owed
    /\ owed' = owed \cup {i}
    /\ record' = [record EXCEPT ![i] = face[i]]
    /\ UNCHANGED <<alive, face, down>>

\* Suppress a window; it must have been entered before.
PutDown(i) ==
    /\ i \in owed \cap alive
    /\ \E f \in SUBSET face[i] : face' = [face EXCEPT ![i] = f]
    /\ down' = down \cup {i}
    /\ UNCHANGED <<alive, owed, record>>

\* Close an entry: the window shows at least what the entry says.
Settle(i) ==
    /\ i \in owed \cap alive
    /\ \E f \in Face : record[i] \subseteq f /\ face' = [face EXCEPT ![i] = f]
    /\ owed' = owed \ {i}
    /\ record' = [record EXCEPT ![i] = {}]
    /\ down' = down \ {i}
    /\ UNCHANGED alive

\* Drop entries of windows that are gone.
Forget(S) ==
    /\ S \subseteq owed \ alive
    /\ owed' = owed \ S
    /\ record' = [i \in Identity |-> IF i \in S THEN {} ELSE record[i]]
    /\ UNCHANGED <<alive, face, down>>

\* The desktop changes by itself.  A suppressed window stops being one only
\* by disappearing or by being brought back, at least partly.
World ==
    /\ alive' \subseteq Identity
    /\ face' \in [Identity -> Face]
    /\ down' \subseteq down
    /\ \A i \in down \ down' : i \in alive' => face'[i] # {}
    /\ down' \subseteq alive'
    /\ UNCHANGED <<owed, record>>

Next ==
    \/ \E i \in Identity : Enter(i) \/ PutDown(i) \/ Settle(i)
    \/ \E S \in SUBSET owed : Forget(S)
    \/ World

Spec == Init /\ [][Next]_vars

=============================================================================
