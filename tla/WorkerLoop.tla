----------------------------- MODULE WorkerLoop -----------------------------
(***************************************************************************)
(* When the engine worker of kakao-app looks at what: run_worker with its  *)
(* process scans, window events, bursts, back-offs and panics, the switch  *)
(* and stop commands that must wake it up, and the time that passes while  *)
(* it waits.  What one reconciliation does to windows is RestoreEngine.    *)
(*                                                                         *)
(* Time goes by in whole units, and only while the worker waits: its own   *)
(* work is taken to need none.                                             *)
(***************************************************************************)
EXTENDS EventHook

CONSTANTS
    LowLatency,                 \* settings.low_latency_mode
    ScanBase,                   \* pid_scan_interval_ms
    ScanLow, ScanAlive,         \* alive, in low-latency mode or not
    AbsentAfter, AbsentScan,    \* how long absent, and the interval then
    AbsentWait,                 \* ABSENT_MAX_WAIT
    Burst, BurstRounds,         \* burst_scan_interval_ms, burst_scan_iterations
    Poll, Idle, IdleMax,        \* poll_, idle_poll_interval_ms, idle_backoff_max_ms
    Rewind,                     \* how far last_full is set back (10 s)
    ActiveWindow, QuietBefore,  \* ACTIVE_WINDOW, QUIET_BEFORE_BACKOFF
    MostDoublings,              \* how often the idle interval doubles at most (16)
    RetryDoublings,             \* HookRetry's delay doubles that often (5)
    PanicLimit, PanicPause,     \* PANIC_BACKOFF_AFTER, PANIC_BACKOFF
    OffWait                     \* the longest wait while the switch is off

Larger(a, b)  == IF a >= b THEN a ELSE b
Smaller(a, b) == IF a <= b THEN a ELSE b

Overdue == Larger(Burst, Larger(Idle, IdleMax))
Longest == Larger(Overdue, PanicPause)
Rewound == Smaller(Rewind, Overdue)
NoScan  == Larger(ScanBase, Larger(Larger(ScanLow, ScanAlive), AbsentScan))

ASSUME WorkerAssumption ==
    /\ LowLatency \in BOOLEAN
    /\ {ScanBase, ScanLow, ScanAlive, AbsentAfter, AbsentScan, AbsentWait, Burst, BurstRounds,
        Poll, Idle, Rewind, ActiveWindow, QuietBefore, PanicLimit, PanicPause, OffWait}
       \subseteq Nat \ {0}
    /\ Burst <= Rewind          \* a burst interval is clamped to one second
    /\ {IdleMax, MostDoublings, RetryDoublings} \subseteq Nat

VARIABLES
    \* SharedFlags
    switches,       \* enabled and aggressive: "off", "on" or "more"
    stopping,
    degraded,       \* hook_degraded
    error,          \* last_error, as far as the worker sets it
    token, posted,  \* a pending unpark, a pending thread message
    \* run_worker
    pc, wait,
    was,            \* was_enabled and was_aggressive
    scanFailed, lastPids, hookPids,
    burstLeft, pending, panics,
    scanAge, absent, full, quiet, eventAge,     \* time since, up to where it matters
    retryIn, retries,                           \* HookRetry
    \* the others
    tray,           \* where notify_control is
    \* history: how long a change, an event that says so, and a process that is
    \* not just one more have waited to be looked at; and how often the look that a
    \* waiting change was due was put off
    unseen, told, unknown, misses

flagVars    == <<switches, stopping>>
wakeVars    == <<token, posted>>
scanVars    == <<scanFailed, scanAge, absent>>
retryVars   == <<hookPids, retryIn, retries, degraded>>
paceVars    == <<lastPids, burstLeft, quiet>>
eventVars   == <<pending, eventAge>>
tickVars    == <<full, panics>>
historyVars == <<unseen, told, unknown, misses>>
vars == <<hookVars, flagVars, error, wakeVars, pc, wait, was, scanVars, retryVars, paceVars,
          eventVars, tickVars, tray, historyVars>>

Init ==
    /\ HookInit
    /\ switches \in {"off", "on"} /\ stopping = FALSE
    /\ degraded = FALSE /\ error = "" /\ token = FALSE /\ posted = FALSE
    /\ pc = "top" /\ wait = 0 /\ was = switches
    /\ scanFailed = FALSE /\ lastPids = {} /\ hookPids = {}
    /\ burstLeft = 0 /\ pending = FALSE /\ panics = 0
    /\ scanAge = NoScan /\ absent = 0 /\ full = Rewound /\ quiet = 0 /\ eventAge = ActiveWindow
    /\ retryIn = 0 /\ retries = 0
    /\ tray = "idle"
    /\ unseen = 0 /\ told = 0 /\ unknown = 0 /\ misses = 0

----------------------------------------------------------------------------
(* Intervals.                                                              *)

\* 1 << n, which delays and intervals grow by
Doubled[n \in Nat] == IF n = 0 THEN 1 ELSE 2 * Doubled[n - 1]

\* pid_scan_interval, with one step of its back-off, the larger of the code's two
ScanInterval ==
    IF LowLatency THEN IF AllAlive THEN Larger(ScanBase, ScanLow) ELSE ScanBase
    ELSE IF AllAlive THEN ScanAlive
    ELSE IF absent >= AbsentAfter THEN Larger(ScanBase, AbsentScan)
    ELSE ScanBase

\* The interval after a quiet of q: doubled once and then after every further QuietBefore.
BackedOff(q) ==
    LET doublings == Smaller((q - QuietBefore) \div QuietBefore + 1, MostDoublings)
    IN Smaller(Idle * Doubled[doublings], IdleMax)

\* Mutant: the interval grows without a hook, too.
ReconcileIntervalBlind ==
    IF eventAge < ActiveWindow THEN Smaller(Poll, Idle)
    ELSE IF IdleMax <= Idle \/ quiet < QuietBefore THEN Idle
    ELSE BackedOff(quiet)

\* reconcile_interval
ReconcileInterval ==
    IF eventAge < ActiveWindow THEN Smaller(Poll, Idle)
    ELSE IF hooked = {} \/ IdleMax <= Idle \/ quiet < QuietBefore THEN Idle
    ELSE BackedOff(quiet)

RetryDelay(n) == Doubled[Smaller(n - 1, RetryDoublings)]

\* From here on a longer quiet does not change the interval.
QuietCap == QuietBefore * Larger(1, IdleMax \div Idle)

----------------------------------------------------------------------------
(* The loop.                                                               *)

Park(time) == pc' = "parked" /\ wait' = time

\* Something useful is on its way to the worker.
Told == pending \/ Useful(inbox \cup channel) # {}
KeepUnknown == unknown' = IF procs' \subseteq known' THEN 0 ELSE unknown
PutOff == misses' = IF unseen > 0 THEN misses + 1 ELSE misses
KeepTold == told' = IF pending \/ Useful(inbox' \cup channel') # {} THEN told ELSE 0

restOfTop == <<procs, known, changes, flagVars, error, wakeVars, scanFailed, absent, paceVars,
               eventVars, panics, tray, unseen, unknown>>

\* The end, or the switches are read.  A change of them makes the next look due, unless
\* its interval is longer than Rewind: then it may even put the look off.
Top ==
    /\ pc = "top"
    /\ \/ stopping /\ pc' = "ended"
          /\ UNCHANGED <<hooked, inbox, channel, wait, was, scanAge, retryVars, full, told, misses>>
       \/ /\ ~stopping
          /\ was' = switches
          /\ full' = IF switches # was THEN Rewound ELSE full
          /\ IF full' < full THEN PutOff ELSE UNCHANGED misses
          /\ scanAge' = IF was = "off" /\ switches # "off" THEN NoScan ELSE scanAge
          /\ IF switches # "off"
             THEN pc' = "scan" /\ UNCHANGED <<hooked, inbox, channel, wait, retryVars, told>>
             ELSE /\ Remove /\ hookPids' = {} /\ retryIn' = 0 /\ retries' = 0
                  /\ degraded' = FALSE /\ KeepTold
                  /\ \E time \in {1, OffWait} : Park(time)
    /\ UNCHANGED restOfTop

\* Mutant: the text of a failed scan stays.
ScanOnceKeepsText ==
    \/ known' = procs /\ scanFailed' = FALSE /\ UNCHANGED <<changes, error>>
    \/ Change /\ scanFailed' = TRUE /\ error' = "scan" /\ UNCHANGED known

\* runtime.scan: the processes that run, or none of the truth.
ScanOnce ==
    \/ known' = procs /\ scanFailed' = FALSE /\ UNCHANGED changes
       /\ error' = IF scanFailed /\ error = "scan" THEN "" ELSE error
    \/ Change /\ scanFailed' = TRUE /\ error' = "scan" /\ UNCHANGED known

Scan ==
    /\ pc = "scan" /\ pc' = "hook"
    /\ IF scanAge >= ScanInterval
       THEN ScanOnce /\ scanAge' = 0
       ELSE UNCHANGED <<known, scanFailed, error, scanAge, changes>>
    /\ absent' = IF known' # {} THEN 0 ELSE absent
    /\ IF known' # lastPids
       THEN lastPids' = known' /\ burstLeft' = BurstRounds /\ quiet' = 0
       ELSE UNCHANGED paceVars
    /\ UNCHANGED <<procs, hooked, inbox, channel, flagVars, wakeVars, wait, was,
                   retryVars, eventVars, tickVars, tray, unseen, told, misses>>
    /\ KeepUnknown

\* The hook of other processes is of no use.  An install fails by bad luck, or
\* because one of the processes is gone.
TryInstall ==
    \/ Install(known) /\ retryIn' = 0 /\ retries' = 0 /\ degraded' = FALSE /\ UNCHANGED changes
    \/ /\ IF known \subseteq procs THEN Change ELSE UNCHANGED changes
       /\ Remove /\ degraded' = TRUE
       /\ LET failed == IF known = hookPids THEN retries + 1 ELSE 1
          IN  retryIn' = RetryDelay(failed) /\ retries' = Smaller(failed, RetryDoublings)

\* Mutant: a hook is only looked after when the processes change.
HookOnlyNew ==
    /\ pc = "hook" /\ pc' = "events" /\ hookPids' = known
    /\ IF known # {} /\ known # hookPids
       THEN TryInstall
       ELSE IF known # hookPids
       THEN Remove /\ retryIn' = 0 /\ retries' = 0 /\ degraded' = FALSE /\ UNCHANGED changes
       ELSE UNCHANGED <<hooked, inbox, channel, retryIn, retries, degraded, changes>>
    /\ KeepTold
    /\ UNCHANGED <<procs, known, flagVars, error, wakeVars, wait, was, scanVars,
                   paceVars, eventVars, tickVars, tray, unseen, unknown, misses>>

Hook ==
    /\ pc = "hook" /\ pc' = "events" /\ hookPids' = known
    /\ IF known # {} /\ (known # hookPids \/ (hooked = {} /\ retryIn = 0))
       THEN TryInstall
       ELSE IF known # hookPids
       THEN Remove /\ retryIn' = 0 /\ retries' = 0 /\ degraded' = FALSE /\ UNCHANGED changes
       ELSE UNCHANGED <<hooked, inbox, channel, retryIn, retries, degraded, changes>>
    /\ KeepTold
    /\ UNCHANGED <<procs, known, flagVars, error, wakeVars, wait, was, scanVars,
                   paceVars, eventVars, tickVars, tray, unseen, unknown, misses>>

\* Events that are drained and of a window that exists are remembered.
DrainEvents ==
    /\ pc = "events" /\ pc' = "decide" /\ channel' = {}
    /\ IF Useful(channel) # {}
       THEN pending' = TRUE /\ eventAge' = 0 /\ quiet' = 0
       ELSE UNCHANGED <<pending, eventAge, quiet>>
    /\ burstLeft' = IF "created" \in channel THEN BurstRounds ELSE burstLeft
    /\ UNCHANGED <<procs, known, hooked, inbox, changes, flagVars, error, wakeVars, wait, was,
                   scanVars, retryVars, lastPids, tickVars, tray, historyVars>>

\* Without KakaoTalk: wait for the next scan, and not for long.
Absent ==
    /\ pc = "decide" /\ known = {}
    /\ Park(Smaller(Larger(1, IF ScanInterval > scanAge THEN ScanInterval - scanAge ELSE 0),
                    AbsentWait))
    /\ eventAge' = ActiveWindow
    /\ UNCHANGED <<hookVars, flagVars, error, wakeVars, was, scanVars, retryVars, paceVars,
                   pending, tickVars, tray, historyVars>>

NotDue ==
    \/ pending /\ full < Burst
    \/ ~pending /\ full < ReconcileInterval /\ (burstLeft = 0 \/ full < Burst)

Sleep ==
    LET time == IF pending \/ burstLeft > 0 THEN Burst - full ELSE ReconcileInterval - full
    IN  Larger(1, IF hooked = {} THEN Smaller(time, retryIn) ELSE time)

WaitForDue ==
    /\ pc = "decide" /\ known # {} /\ NotDue
    /\ Park(Sleep)
    /\ UNCHANGED <<hookVars, flagVars, error, wakeVars, was, scanVars, retryVars, paceVars,
                   eventVars, tickVars, tray, historyVars>>

\* guarded_tick: one look at all windows of the known processes; or a panic, which looks
\* at none of them and for which the remembered event is lost all the same, so that the
\* change it told of is from then on one that nobody tells of.
Reconcile ==
    /\ pc = "decide" /\ known # {} /\ ~NotDue
    /\ pending' = FALSE /\ full' = 0
    /\ \/ /\ panics' = 0 /\ UNCHANGED <<error, changes>>
          /\ unseen' = 0 /\ misses' = 0
       \/ /\ Change /\ panics' = Smaller(panics + 1, PanicLimit) /\ error' = "panic"
          /\ PutOff /\ UNCHANGED unseen
    /\ IF panics' >= PanicLimit THEN Park(PanicPause) /\ UNCHANGED burstLeft
       ELSE IF burstLeft > 0 THEN Park(Burst) /\ burstLeft' = burstLeft - 1
       ELSE pc' = "top" /\ UNCHANGED <<wait, burstLeft>>
    /\ told' = 0
    /\ UNCHANGED <<procs, known, hooked, inbox, channel, flagVars, wakeVars, was, scanVars, retryVars, lastPids, quiet,
                   eventAge, tray, unknown>>

----------------------------------------------------------------------------
(* Waiting.                                                                *)

\* With a hook the thread waits for messages, without one for an unpark.
Awake == wait = 0 \/ IF hooked = {} THEN token ELSE posted \/ inbox # {}

WakeUp ==
    /\ pc = "parked" /\ Awake /\ pc' = "top" /\ wait' = 0
    /\ IF hooked = {}
       THEN token' = FALSE /\ UNCHANGED <<posted, inbox, channel>>
       ELSE Pump /\ posted' = FALSE /\ UNCHANGED token
    /\ KeepTold
    /\ UNCHANGED <<procs, known, hooked, changes, flagVars, error, was, scanVars, retryVars,
                   paceVars, eventVars, tickVars, tray, unseen, unknown, misses>>

\* No age gets there in a run with Changes changes.
AgeCap == 2 * NoScan + (Changes + 1) * (1 + Longest)

Older(age, cap) == Smaller(age + 1, cap)
Count(age, counts) == IF counts THEN Older(age, AgeCap) ELSE age

TimePasses ==
    /\ pc = "parked" /\ ~Awake
    /\ wait' = wait - 1 /\ retryIn' = IF retryIn > 0 THEN retryIn - 1 ELSE 0
    /\ scanAge' = Older(scanAge, NoScan) /\ absent' = Older(absent, AbsentAfter)
    /\ full' = Older(full, Overdue) /\ quiet' = Older(quiet, QuietCap)
    /\ eventAge' = Older(eventAge, ActiveWindow)
    /\ unseen' = Count(unseen, unseen > 0 /\ was # "off" /\ procs \subseteq known)
    /\ told' = Count(told, Told /\ was # "off" /\ known # {})
    /\ unknown' = Count(unknown, was # "off" /\ ~(procs \subseteq known)
                                /\ (known = {} \/ ~(known \subseteq procs)))
    /\ UNCHANGED <<hookVars, flagVars, error, wakeVars, pc, was, scanFailed, hookPids,
                   retries, degraded, lastPids, burstLeft, pending, panics, tray, misses>>

----------------------------------------------------------------------------
(* Other threads, and KakaoTalk.                                           *)

restOfTray == <<procs, known, hooked, inbox, channel, error, pc, wait, was, scanVars, retryVars, paceVars, eventVars,
                tickVars, historyVars>>

\* A toggle or a request to stop stores the flag, and then notifies.
Command ==
    /\ tray = "idle" /\ Change /\ tray' = "stored"
    /\ \/ switches' \in {"off", "on", "more"} \ {switches} /\ UNCHANGED stopping
       \/ stopping' = TRUE /\ UNCHANGED switches
    /\ UNCHANGED <<wakeVars, restOfTray>>

\* Mutant: a notification is only an unpark.
NotifyUnparks ==
    /\ tray = "stored" /\ tray' = "idle" /\ token' = TRUE
    /\ UNCHANGED <<changes, posted, flagVars, restOfTray>>

\* notify_control unparks the worker and posts a message to its thread.
NotifyControl ==
    /\ \/ tray = "stored" /\ tray' = "unparked" /\ token' = TRUE /\ UNCHANGED posted
       \/ tray = "unparked" /\ tray' = "idle" /\ posted' = TRUE /\ UNCHANGED token
    /\ UNCHANGED <<changes, flagVars, restOfTray>>

restOfKakao == <<flagVars, error, wakeVars, pc, wait, was, scanVars, retryVars, paceVars,
                 eventVars, tickVars, tray, told>>

KakaoStep ==
    /\ pc # "ended"
    /\ \/ \E p \in Pid : Launch(p) /\ UNCHANGED <<unseen, misses>>
       \/ \E p \in Pid : Quit(p) /\ (IF procs' = {} THEN unseen' = 0 /\ misses' = 0
                                     ELSE UNCHANGED <<unseen, misses>>)
       \/ \E p \in Pid, event \in Events :
            /\ ChangeWindow(p, event)
            /\ unseen' = IF event = "gone" THEN unseen ELSE Larger(unseen, 1)
            /\ UNCHANGED misses
    /\ UNCHANGED restOfKakao
    /\ KeepUnknown

Worker == Top \/ Scan \/ Hook \/ DrainEvents \/ Absent \/ WaitForDue \/ Reconcile \/ WakeUp

Next == Worker \/ TimePasses \/ Command \/ NotifyControl \/ KakaoStep

Spec == Init /\ [][Next]_vars

\* The worker goes on, and while it sleeps time does.
FairSpec == Spec /\ WF_vars(Worker \/ TimePasses)

----------------------------------------------------------------------------
(* Properties.                                                             *)

\* The type invariant.  With what the tray shows while the worker waits: the hook
\* is degraded exactly when it is missing where one is wanted, and the text of a
\* failed scan goes when a scan succeeds.
TypeOK ==
    /\ HookTypeOK
    /\ {switches, was} \subseteq {"off", "on", "more"}
    /\ {stopping, degraded, token, posted, scanFailed, pending} \subseteq BOOLEAN
    /\ error \in {"", "scan", "panic"} /\ (error = "scan" => scanFailed)
    /\ pc \in {"top", "scan", "hook", "events", "decide", "parked", "ended"}
    /\ wait \in 0 .. Overdue + PanicPause + OffWait + AbsentWait
    /\ lastPids \subseteq Pid /\ hookPids \subseteq Pid
    /\ hooked \in {{}, hookPids}
    /\ burstLeft \in 0 .. BurstRounds /\ panics \in 0 .. PanicLimit
    /\ scanAge \in 0 .. NoScan /\ full \in 0 .. Overdue /\ absent \in 0 .. AbsentAfter
    /\ quiet \in 0 .. QuietCap /\ eventAge \in 0 .. ActiveWindow
    /\ retryIn \in 0 .. Doubled[RetryDoublings] /\ retries \in 0 .. RetryDoublings
    /\ tray \in {"idle", "stored", "unparked"}
    /\ {unseen, told, unknown} \subseteq 0 .. AgeCap /\ misses \in Nat
    /\ pc = "parked" => (degraded <=> was # "off" /\ known # {} /\ hooked = {})

\* The worker never sleeps through a command: when a switch or stop differs from
\* what it read and the notification is out, it is about to wake up, whichever of
\* its two waits it is in (notify_control, NativeRuntime::wait).
NoSleepOnNews ==
    pc = "parked" /\ tray = "idle"
        /\ (stopping \/ switches # was)
    => Awake

\* The longest sleep while KakaoTalk runs: any of the intervals, whatever the settings.
Nap == IF panics >= PanicLimit THEN Longest ELSE Overdue

\* What the looks that were put off cost a waiting change at most.
Delay == misses * Longest

\* What changes in KakaoTalk is looked at in time.  A window event that arrives
\* waits for one burst interval; a change nobody tells of, because there is no hook, the
\* channel was full or the round that had the event panicked, for the longest interval,
\* which without a hook is the idle one, or that of a burst where it is longer.  Longer
\* only: the pause after repeated panics; and at most one interval or pause more for
\* every round that panicked while the change waited (guarded_tick), and for every switch
\* change that came when the last look was longer ago than the 10 s it is set back to.
SeenInTime ==
    /\ told <= Burst
    /\ unseen <= 1 + Nap + Delay
    /\ pc = "parked" /\ was # "off" /\ hooked = {} /\ panics < PanicLimit
       => unseen <= 1 + Larger(Burst, Idle) + Delay

\* A KakaoTalk that is started while none ran, or after one that was known has
\* ended, is found soon, unless scans fail: the next scan is due after the interval
\* of an absent KakaoTalk, and the worker is asleep no longer than that.
FoundInTime == ~scanFailed => unknown < Larger(ScanBase, AbsentScan) + Nap

\* When KakaoTalk stays and the switch is on, the hook comes to cover its
\* processes, however often an install or a scan failed.
Wanted == switches # "off" /\ ~stopping /\ procs # {}
HookReturns == Wanted ~> hooked = procs \/ ~Wanted
=============================================================================
