----------------------------- MODULE EventHook -----------------------------
(***************************************************************************)
(* KakaoTalk's processes and what kakao-win32 tells the worker of them:    *)
(* process scans, the liveness of known processes, and window events.  The *)
(* events wait in the message queue of the worker's thread until it pumps  *)
(* messages, which is the only time hook_proc runs; from there they go to  *)
(* a bounded channel.  An event of a window that is gone when it is read   *)
(* is worth nothing, but takes a place.                                    *)
(***************************************************************************)
EXTENDS Naturals, FiniteSets

CONSTANTS
    Pid,            \* the process ids KakaoTalk can get
    Capacity,       \* EVENT_QUEUE_CAPACITY, in events of different kinds
    Changes         \* bound: how often something happens that the worker did not ask for

ASSUME HookAssumption == IsFiniteSet(Pid) /\ Capacity \in Nat \ {0} /\ Changes \in Nat

VARIABLES
    procs,      \* the processes of KakaoTalk that run
    known,      \* cached_pids, which are also the processes PidWatch holds open
    hooked,     \* the processes of the installed hook, {} without one
    inbox,      \* events in the message queue of the thread
    channel,    \* events that hook_proc has sent
    changes

hookVars == <<procs, known, hooked, inbox, channel, changes>>

\* A new, shown or renamed window asks for more than one look.
Events == {"changed", "created", "gone"}
Useful(events) == events \ {"gone"}

HookInit ==
    /\ procs \in SUBSET Pid /\ known = {} /\ hooked = {}
    /\ inbox = {} /\ channel = {} /\ changes = 0

\* With what a window event relies on: it is only there for a hook, and only
\* hook_proc fills the channel.
HookTypeOK ==
    /\ procs \subseteq Pid /\ known \subseteq Pid /\ hooked \subseteq Pid
    /\ inbox \subseteq Events /\ channel \subseteq Events
    /\ Cardinality(channel) <= Capacity
    /\ hooked = {} => inbox \cup channel = {}
    /\ changes \in 0 .. Changes

\* Mutant: an id that is in use again passes for the process it belonged to.
AliveById == known # {}

\* PidWatch::all_alive
AllAlive == known # {} /\ known \subseteq procs

----------------------------------------------------------------------------
(* EventHook.                                                              *)

\* Drop, or the install of a first hook: what was on its way is lost.
Remove == hooked' = {} /\ inbox' = {} /\ channel' = {}

\* install_for_pids, after the old hook was dropped.  All hooks or none.
Install(pids) == hooked' = pids /\ inbox' = {} /\ channel' = {}

\* wait_message dispatches the callbacks; try_send fails when the channel is full.
Pump ==
    /\ inbox' = {}
    /\ \E fits \in SUBSET (channel \cup inbox) :
        /\ channel \subseteq fits /\ Cardinality(fits) <= Capacity
        /\ fits = channel \cup inbox \/ Cardinality(fits) = Capacity
        /\ channel' = fits

----------------------------------------------------------------------------
(* KakaoTalk.                                                              *)

Change == changes < Changes /\ changes' = changes + 1

Tell(p, event) ==
    /\ inbox' = IF p \in hooked THEN inbox \cup {event} ELSE inbox
    /\ UNCHANGED <<known, hooked, channel>>

\* The handle PidWatch holds keeps the id of a known process from being used again.
Launch(p) ==
    /\ Change /\ p \notin procs \cup known
    /\ procs' = procs \cup {p} /\ UNCHANGED <<known, hooked, inbox, channel>>

Quit(p) ==
    /\ Change /\ p \in procs
    /\ procs' = procs \ {p} /\ Tell(p, "gone")

ChangeWindow(p, event) == Change /\ p \in procs /\ Tell(p, event) /\ UNCHANGED procs
=============================================================================
