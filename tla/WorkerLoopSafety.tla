-------------------------- MODULE WorkerLoopSafety --------------------------
(***************************************************************************)
(* What is proved about WorkerLoop, for every choice of intervals, limits  *)
(* and processes: no command is slept through, its type invariant, and the *)
(* bounds on how long a change in KakaoTalk or a new KakaoTalk waits to be *)
(* looked at.                                                              *)
(***************************************************************************)
EXTENDS WorkerLoop, Induction, TLAPS, FiniteSetTheorems

----------------------------------------------------------------------------
(* The back-off: what Doubled computes.                                    *)

\* A table of Doubled up to n.
Table(g, n) ==
    /\ g \in [0 .. n -> Nat] /\ g[0] = 1
    /\ \A i \in 1 .. n : g[i] = 2 * g[i - 1]

LEMMA TablesAgree ==
    ASSUME NEW g, NEW h, NEW m \in Nat, NEW n \in Nat, Table(g, m), Table(h, n)
    PROVE  \A i \in Nat : i <= m /\ i <= n => g[i] = h[i]
<1> DEFINE S == {i \in Nat : i <= m /\ i <= n => g[i] = h[i]}
<1>1. 0 \in S
  BY DEF Table
<1>2. ASSUME NEW i \in Nat, i \in S PROVE i + 1 \in S
  <2> SUFFICES ASSUME i + 1 <= m, i + 1 <= n PROVE g[i + 1] = h[i + 1]
    OBVIOUS
  <2>1. g[i] = h[i] /\ i + 1 \in 1 .. m /\ i + 1 \in 1 .. n /\ (i + 1) - 1 = i
    BY <1>2
  <2> QED
    BY <2>1 DEF Table
<1> HIDE DEF S
<1>3. Nat \subseteq S
  BY <1>1, <1>2, Inductive
<1> QED
  BY <1>3 DEF S

LEMMA TablesExist == \A n \in Nat : \E g : Table(g, n)
<1> DEFINE S == {n \in Nat : \E g : Table(g, n)}
<1>1. 0 \in S
  <2>1. Table([i \in 0 .. 0 |-> 1], 0)
    BY DEF Table
  <2> QED
    BY <2>1
<1>2. ASSUME NEW n \in Nat, n \in S PROVE n + 1 \in S
  <2>1. PICK g : Table(g, n)
    BY <1>2
  <2> DEFINE h == [i \in 0 .. n + 1 |-> IF i = n + 1 THEN 2 * g[n] ELSE g[i]]
  <2>2. h \in [0 .. n + 1 -> Nat] /\ h[0] = 1
    BY <2>1 DEF Table
  <2>3. ASSUME NEW i \in 1 .. n + 1 PROVE h[i] = 2 * h[i - 1]
    BY <2>1 DEF Table
  <2>4. Table(h, n + 1)
    BY <2>2, <2>3 DEF Table
  <2> QED
    BY <2>4
<1> HIDE DEF S
<1>3. Nat \subseteq S
  BY <1>1, <1>2, Inductive
<1> QED
  BY <1>3 DEF S

LEMMA DoubledIs ==
    /\ Doubled[0] = 1
    /\ \A n \in Nat : Doubled[n + 1] = 2 * Doubled[n]
<1> DEFINE Body(f) == [n \in Nat |-> IF n = 0 THEN 1 ELSE 2 * f[n - 1]]
           table[n \in Nat] == CHOOSE g : Table(g, n)
           F == [n \in Nat |-> table[n][n]]
<1>1. \A n \in Nat : Table(table[n], n)
  BY TablesExist
<1> HIDE DEF table
<1>2. ASSUME NEW n \in Nat \ {0} PROVE table[n][n] = 2 * table[n - 1][n - 1]
  <2>1. n - 1 \in Nat /\ n \in 1 .. n /\ n - 1 <= n
    OBVIOUS
  <2>2. Table(table[n], n) /\ Table(table[n - 1], n - 1)
    BY <1>1, <2>1
  <2>3. table[n][n - 1] = table[n - 1][n - 1]
    BY <2>1, <2>2, TablesAgree
  <2> QED
    BY <2>1, <2>2, <2>3 DEF Table
<1>3. F = Body(F)
  <2>1. F[0] = 1
    BY <1>1 DEF Table
  <2>2. \A n \in Nat \ {0} : n - 1 \in Nat /\ F[n] = 2 * F[n - 1]
    BY <1>2
  <2> HIDE DEF F
  <2>3. F = [n \in Nat |-> F[n]]
    BY DEF F
  <2>4. \A n \in Nat : F[n] = IF n = 0 THEN 1 ELSE 2 * F[n - 1]
    BY <2>1, <2>2
  <2> QED
    BY <2>3, <2>4
<1> HIDE DEF F
<1>4. Doubled = CHOOSE f : f = Body(f)
  BY DEF Doubled
<1>5. Doubled = Body(Doubled)
  BY <1>3, <1>4
<1>6. \A n \in Nat : Doubled[n] = IF n = 0 THEN 1 ELSE 2 * Doubled[n - 1]
  BY <1>5
<1>7. \A n \in Nat : n + 1 \in Nat /\ n + 1 # 0 /\ (n + 1) - 1 = n
  OBVIOUS
<1> QED
  BY <1>6, <1>7

\* It grows, and fast enough.
LEMMA DoubledGrows ==
    \A n \in Nat : /\ Doubled[n] \in Nat /\ n + 1 <= Doubled[n]
                   /\ \A m \in 0 .. n : Doubled[m] <= Doubled[n]
<1> DEFINE S == {n \in Nat : /\ Doubled[n] \in Nat /\ n + 1 <= Doubled[n]
                             /\ \A m \in 0 .. n : /\ Doubled[m] \in Nat
                                                 /\ Doubled[m] <= Doubled[n]}
<1>1. 0 \in S
  BY DoubledIs
<1>2. ASSUME NEW n \in Nat, n \in S PROVE n + 1 \in S
  <2>1. Doubled[n + 1] = 2 * Doubled[n] /\ Doubled[n] \in Nat /\ n + 1 <= Doubled[n]
    BY <1>2, DoubledIs
  <2>2. ASSUME NEW m \in 0 .. n + 1 PROVE Doubled[m] \in Nat /\ Doubled[m] <= Doubled[n + 1]
    <3>1. CASE m = n + 1
      BY <2>1, <3>1
    <3>2. CASE m \in 0 .. n
      <4>1. Doubled[m] \in Nat /\ Doubled[m] <= Doubled[n]
        BY <1>2, <3>2
      <4> QED
        BY <4>1, <2>1
    <3> QED
      BY <3>1, <3>2
  <2> QED
    BY <2>1, <2>2
<1> HIDE DEF S
<1>3. Nat \subseteq S
  BY <1>1, <1>2, Inductive
<1> QED
  BY <1>3 DEF S

----------------------------------------------------------------------------
(* Intervals.                                                              *)

LEMMA ConstantsType ==
    /\ {ScanBase, ScanLow, ScanAlive, AbsentAfter, AbsentScan, AbsentWait, Burst, BurstRounds,
        Poll, Idle, Rewind, ActiveWindow, QuietBefore, PanicLimit, PanicPause, OffWait}
       \subseteq Nat \ {0}
    /\ Burst <= Rewind
    /\ IdleMax \in Nat /\ MostDoublings \in Nat /\ RetryDoublings \in Nat /\ LowLatency \in BOOLEAN
  BY WorkerAssumption

\* Without a KakaoTalk that is known to be whole the next scan is due after that.
Lag == Larger(ScanBase, AbsentScan)

LEMMA BoundsType ==
    /\ Overdue \in Nat /\ Burst <= Overdue /\ Idle <= Overdue /\ IdleMax <= Overdue
    /\ Nap \in Nat /\ Overdue <= Nap /\ (panics >= PanicLimit => PanicPause <= Nap)
    /\ NoScan \in Nat /\ Lag \in Nat /\ Lag <= NoScan /\ Lag >= 1
    /\ Longest \in Nat /\ Overdue <= Longest /\ PanicPause <= Longest /\ Nap <= Longest
    /\ Rewound \in 0 .. Overdue /\ Burst <= Rewound
    /\ AgeCap \in Nat \ {0}
<1>1. /\ Overdue \in Nat /\ Burst <= Overdue /\ Idle <= Overdue /\ IdleMax <= Overdue
      /\ NoScan \in Nat /\ Lag \in Nat /\ Lag <= NoScan /\ Lag >= 1
  BY ConstantsType DEF Overdue, NoScan, Lag, Larger
<1>2. Longest \in Nat /\ Overdue <= Longest /\ PanicPause <= Longest
  BY <1>1, ConstantsType DEF Longest, Larger
<1>3. /\ Nap \in Nat /\ Overdue <= Nap /\ (panics >= PanicLimit => PanicPause <= Nap)
      /\ Nap <= Longest
  BY <1>1, <1>2 DEF Nap
<1>4. Rewound \in 0 .. Overdue /\ Burst <= Rewound
  BY <1>1, ConstantsType DEF Rewound, Smaller
<1>5. AgeCap \in Nat \ {0}
  <2>1. (Changes + 1) * (1 + Longest) \in Nat \ {0}
    BY <1>2, HookAssumption
  <2> QED
    BY <1>1, <2>1 DEF AgeCap
<1> QED
  BY <1>1, <1>2, <1>3, <1>4, <1>5

\* What putting a look off adds.
LEMMA DelayType ==
    ASSUME misses \in Nat
    PROVE  /\ Delay \in Nat
           /\ misses' = misses + 1 => Delay' = Delay + Longest
           /\ UNCHANGED misses => UNCHANGED Delay
           /\ misses' = 0 => Delay' = 0
<1>1. Longest \in Nat /\ UNCHANGED Longest
  BY BoundsType
<1>2. Delay \in Nat
  BY <1>1 DEF Delay
<1>3. (misses + 1) * Longest = misses * Longest + Longest /\ 0 * Longest = 0
  BY <1>1
<1> QED
  BY <1>1, <1>2, <1>3 DEF Delay

LEMMA ScanIntervalType ==
    /\ ScanInterval \in Nat /\ ScanInterval <= NoScan
    /\ ~AllAlive => ScanInterval <= Lag
  BY ConstantsType DEF ScanInterval, NoScan, Lag, Larger

LEMMA Division ==
    ASSUME NEW a \in Nat, NEW b \in Nat \ {0}
    PROVE  a \div b \in Nat /\ b * (a \div b) <= a /\ a < b * (a \div b) + b
  OBVIOUS

LEMMA QuietCapType == QuietCap \in Nat \ {0}
<1>1. IdleMax \div Idle \in Nat
  BY ConstantsType, Division
<1> QED
  BY <1>1, ConstantsType DEF QuietCap, Larger

LEMMA BackedOffType ==
    ASSUME NEW q \in Nat, q >= QuietBefore
    PROVE  BackedOff(q) \in Nat /\ BackedOff(q) <= IdleMax
<1> DEFINE n == Smaller((q - QuietBefore) \div QuietBefore + 1, MostDoublings)
<1>1. q - QuietBefore \in Nat
  BY ConstantsType
<1>2. (q - QuietBefore) \div QuietBefore \in Nat
  BY <1>1, ConstantsType, Division
<1>3. n \in Nat
  BY <1>2, ConstantsType DEF Smaller
<1> HIDE DEF n
<1>4. Idle * Doubled[n] \in Nat
  BY <1>3, DoubledGrows, ConstantsType
<1>5. BackedOff(q) = Smaller(Idle * Doubled[n], IdleMax)
  BY DEF BackedOff, n
<1> QED
  BY <1>4, <1>5, ConstantsType DEF Smaller

LEMMA ReconcileIntervalType ==
    ASSUME quiet \in Nat
    PROVE  /\ ReconcileInterval \in Nat /\ ReconcileInterval <= Overdue
           /\ hooked = {} => ReconcileInterval <= Idle
<1>1. CASE eventAge < ActiveWindow \/ hooked = {} \/ IdleMax <= Idle \/ quiet < QuietBefore
  BY <1>1, ConstantsType, BoundsType DEF ReconcileInterval, Smaller
<1>2. CASE ~(eventAge < ActiveWindow \/ hooked = {} \/ IdleMax <= Idle \/ quiet < QuietBefore)
  <2>1. quiet >= QuietBefore
    BY <1>2, ConstantsType
  <2>2. BackedOff(quiet) \in Nat /\ BackedOff(quiet) <= IdleMax
    BY <2>1, BackedOffType
  <2>3. ReconcileInterval = BackedOff(quiet)
    BY <1>2 DEF ReconcileInterval
  <2> QED
    BY <1>2, <2>2, <2>3, ConstantsType, BoundsType
<1> QED
  BY <1>1, <1>2

\* A longer quiet than QuietCap does not change the interval of reconcile_interval, so the
\* model, which does not count further, leaves out nothing that the worker does.
THEOREM QuietSettles == \A q \in Nat : q >= QuietCap => BackedOff(q) = BackedOff(QuietCap)
<1> DEFINE k == IdleMax \div Idle
           c == Larger(1, k)
           n(q) == (q - QuietBefore) \div QuietBefore + 1
<1>1. k \in Nat /\ IdleMax < Idle * k + Idle
  BY ConstantsType, Division
<1>2. QuietCap = QuietBefore * c
  BY DEF QuietCap
<1> HIDE DEF k
<1>3. c \in Nat /\ c >= 1 /\ c >= k
  BY <1>1 DEF Larger
<1> HIDE DEF c
<1>4. ASSUME NEW q \in Nat, q >= QuietBefore * c
      PROVE  n(q) \in Nat /\ n(q) >= c
  <2> DEFINE d == (q - QuietBefore) \div QuietBefore
  <2>1. QuietBefore * c >= QuietBefore
    BY <1>3, ConstantsType
  <2>2. q - QuietBefore \in Nat /\ QuietBefore \in Nat \ {0}
    BY <1>3, <1>4, <2>1, ConstantsType
  <2>3. d \in Nat /\ q - QuietBefore < QuietBefore * d + QuietBefore
    BY <2>2, Division
  <2> HIDE DEF d
  <2>4. d + 1 >= c
    <3> SUFFICES ASSUME d + 2 <= c PROVE FALSE
      BY <1>3, <2>3
    <3>1. QuietBefore * (d + 2) <= QuietBefore * c
      BY <1>3, <2>3, ConstantsType
    <3> QED
      BY <3>1, <1>3, <1>4, <2>3, ConstantsType
  <2> QED
    BY <2>3, <2>4 DEF d
<1>5. ASSUME NEW m \in Nat, m >= c PROVE Smaller(Idle * Doubled[m], IdleMax) = IdleMax
  <2>1. Doubled[m] \in Nat /\ Doubled[m] >= k + 1
    BY <1>1, <1>3, <1>5, DoubledGrows
  <2>2. Idle * Doubled[m] >= Idle * (k + 1)
    BY <1>1, <2>1, ConstantsType
  <2> QED
    BY <1>1, <2>1, <2>2, ConstantsType DEF Smaller
<1>6. ASSUME NEW q \in Nat, q >= QuietBefore * c
      PROVE  BackedOff(q) = IF MostDoublings < c THEN Smaller(Idle * Doubled[MostDoublings], IdleMax)
                            ELSE IdleMax
  <2>1. n(q) \in Nat /\ n(q) >= c
    BY <1>4, <1>6
  <2> HIDE DEF n
  <2>2. BackedOff(q) = Smaller(Idle * Doubled[Smaller(n(q), MostDoublings)], IdleMax)
    BY DEF BackedOff, n
  <2>3. CASE MostDoublings < c
    <3>1. Smaller(n(q), MostDoublings) = MostDoublings
      BY <1>3, <2>1, <2>3, ConstantsType DEF Smaller
    <3> QED
      BY <2>2, <2>3, <3>1
  <2>4. CASE MostDoublings >= c
    <3>1. Smaller(n(q), MostDoublings) \in Nat /\ Smaller(n(q), MostDoublings) >= c
      BY <1>3, <2>1, <2>4, ConstantsType DEF Smaller
    <3>2. BackedOff(q) = IdleMax
      BY <1>5, <2>2, <3>1
    <3> QED
      BY <1>3, <2>4, <3>2, ConstantsType
  <2> QED
    BY <1>3, <2>3, <2>4, ConstantsType
<1>7. QuietCap \in Nat
  BY QuietCapType
<1>8. QuietBefore * c >= QuietBefore * c
  BY <1>2, <1>7
<1> QED
  BY <1>2, <1>6, <1>7, <1>8

LEMMA RetryDelayType ==
    ASSUME NEW n \in Nat \ {0}
    PROVE  RetryDelay(n) \in 0 .. Doubled[RetryDoublings]
<1>1. Smaller(n - 1, RetryDoublings) \in 0 .. RetryDoublings
  BY ConstantsType DEF Smaller
<1> QED
  BY <1>1, ConstantsType, DoubledGrows DEF RetryDelay

LEMMA RetryReset == 0 \in 0 .. Doubled[RetryDoublings] /\ 0 \in 0 .. RetryDoublings
  BY ConstantsType, DoubledGrows

----------------------------------------------------------------------------
(* Commands.  A command is two notifications after a stored flag, and the  *)
(* worker has two ways to wait, each of which takes one of them; the proof *)
(* is that whatever it took before it read the flags is not needed after.  *)

\* Something the worker has not read yet.
News == stopping \/ switches # was

\* From reading the flags to the end of its sleep the worker takes no notification, so
\* those of a command in that time are still there.
Kept ==
    pc \in {"scan", "hook", "events", "decide", "parked"} /\ News =>
        /\ tray = "idle" => token /\ posted
        /\ tray = "unparked" => token

\* The steps of the worker between the two.
LEMMA WorkerKeeps ==
    ASSUME Kept, Scan \/ Hook \/ DrainEvents \/ Absent \/ WaitForDue \/ Reconcile
    PROVE  Kept'
<1>1. UNCHANGED <<switches, stopping, was, tray, token, posted>>
  BY DEF Scan, Hook, DrainEvents, Absent, WaitForDue, Reconcile, flagVars, wakeVars
<1>2. pc \in {"hook", "scan", "events", "decide"}
  BY DEF Scan, Hook, DrainEvents, Absent, WaitForDue, Reconcile
<1> QED
  BY <1>1, <1>2 DEF Kept, News

\* Every step.
LEMMA KeptStep == Kept /\ [Next]_vars => Kept'
<1> SUFFICES ASSUME Kept, [Next]_vars PROVE Kept'
  OBVIOUS
<1>1. CASE Top
  BY <1>1 DEF Top, Kept, News, restOfTop, flagVars
<1>2. CASE Scan \/ Hook \/ DrainEvents \/ Absent \/ WaitForDue \/ Reconcile
  BY <1>2, WorkerKeeps
<1>3. CASE WakeUp
  BY <1>3 DEF WakeUp, Kept
<1>4. CASE TimePasses \/ KakaoStep
  BY <1>4 DEF TimePasses, KakaoStep, restOfKakao, flagVars, wakeVars, Kept, News
<1>5. CASE Command
  BY <1>5 DEF Command, restOfTray, wakeVars, Kept, News
<1>6. CASE NotifyControl
  BY <1>6 DEF NotifyControl, restOfTray, flagVars, Kept, News
<1>7. CASE UNCHANGED vars
  BY <1>7 DEF vars, flagVars, wakeVars, Kept, News
<1> QED
  BY <1>1, <1>2, <1>3, <1>4, <1>5, <1>6, <1>7 DEF Next, Worker

\* When a switch or a stop that the worker has not read is notified, it is awake or
\* about to be, with a hook or without (notify_control, NativeRuntime::wait).
THEOREM NoNewsIsSleptThrough == Spec => []NoSleepOnNews
<1>1. Init => Kept
  BY DEF Init, Kept
<1>2. Kept => NoSleepOnNews
  BY DEF Kept, News, NoSleepOnNews, Awake
<1> QED
  BY <1>1, <1>2, KeptStep, PTL DEF Spec

----------------------------------------------------------------------------
(* Types.                                                                  *)

Flags ==
    /\ switches \in {"off", "on", "more"} /\ was \in {"off", "on", "more"}
    /\ stopping \in BOOLEAN /\ degraded \in BOOLEAN /\ token \in BOOLEAN /\ posted \in BOOLEAN
    /\ scanFailed \in BOOLEAN /\ pending \in BOOLEAN
    /\ error \in {"", "scan", "panic"} /\ (error = "scan" => scanFailed)
    /\ pc \in {"top", "scan", "hook", "events", "decide", "parked", "ended"}
    /\ tray \in {"idle", "stored", "unparked"}

Numbers ==
    /\ wait \in 0 .. Overdue + PanicPause + OffWait + AbsentWait
    /\ burstLeft \in 0 .. BurstRounds /\ panics \in 0 .. PanicLimit
    /\ scanAge \in 0 .. NoScan /\ full \in 0 .. Overdue /\ absent \in 0 .. AbsentAfter
    /\ quiet \in 0 .. QuietCap /\ eventAge \in 0 .. ActiveWindow
    /\ retryIn \in 0 .. Doubled[RetryDoublings] /\ retries \in 0 .. RetryDoublings
    /\ unseen \in 0 .. AgeCap /\ told \in 0 .. AgeCap /\ unknown \in 0 .. AgeCap /\ misses \in Nat

\* From the end of Hook until the worker has slept its hook is one of the processes it
\* knows, or it misses one and says so.
Hooks ==
    /\ lastPids \subseteq Pid /\ hookPids \subseteq Pid
    /\ hooked \in {{}, hookPids}
    /\ degraded <=> hookPids # {} /\ hooked = {}
    /\ pc \in {"scan", "hook", "events", "decide"} => was # "off"
    /\ pc \in {"events", "decide", "parked"} /\ was # "off" => hookPids = known
    /\ pc = "parked" /\ was = "off" => hookPids = {}

Typed == HookTypeOK /\ Flags /\ Numbers /\ Hooks

LEMMA FlagsKept ==
    ASSUME Flags, UNCHANGED <<switches, stopping, was, degraded, token, posted, scanFailed, pending,
                              error, pc, tray>>
    PROVE  Flags'
<1>1. (error = "scan" => scanFailed)'
  BY DEF Flags
<1>2. /\ stopping' \in BOOLEAN /\ degraded' \in BOOLEAN /\ token' \in BOOLEAN /\ posted' \in BOOLEAN
      /\ scanFailed' \in BOOLEAN /\ pending' \in BOOLEAN
  BY DEF Flags
<1>3. /\ switches' \in {"off", "on", "more"} /\ was' \in {"off", "on", "more"}
      /\ error' \in {"", "scan", "panic"} /\ tray' \in {"idle", "stored", "unparked"}
      /\ pc' \in {"top", "scan", "hook", "events", "decide", "parked", "ended"}
  BY DEF Flags
<1> QED
  BY <1>1, <1>2, <1>3 DEF Flags

LEMMA TypedIsTypeOK == Typed => TypeOK
<1> SUFFICES ASSUME Typed PROVE TypeOK
  OBVIOUS
<1>1. pc = "parked" => (degraded <=> was # "off" /\ known # {} /\ hooked = {})
  BY DEF Typed, Hooks, Flags
<1> QED
  BY <1>1 DEF Typed, Flags, Numbers, Hooks, TypeOK

LEMMA TypedInit == Init => Typed
<1> SUFFICES ASSUME Init PROVE Typed
  OBVIOUS
<1>1. HookTypeOK
  <2>1. channel = {} /\ Cardinality(channel) = 0
    BY FS_EmptySet DEF Init, HookInit
  <2>2. 0 <= Capacity /\ 0 \in 0 .. Changes
    BY HookAssumption
  <2> QED
    BY <2>1, <2>2 DEF Init, HookInit, HookTypeOK
<1>2. Flags
  BY DEF Init, Flags
<1>3. Numbers
  <2>1. /\ 0 \in 0 .. BurstRounds /\ 0 \in 0 .. PanicLimit /\ 0 \in 0 .. AbsentAfter
        /\ ActiveWindow \in 0 .. ActiveWindow
    BY ConstantsType
  <2>2. /\ 0 \in 0 .. QuietCap /\ 0 \in 0 .. AgeCap /\ NoScan \in 0 .. NoScan
        /\ Rewound \in 0 .. Overdue
    BY BoundsType, QuietCapType
  <2>3. 0 \in 0 .. Overdue + PanicPause + OffWait + AbsentWait
    BY ConstantsType, BoundsType
  <2> QED
    BY <2>1, <2>2, <2>3, RetryReset DEF Init, Numbers
<1>4. Hooks
  BY DEF Init, HookInit, Hooks
<1> QED
  BY <1>1, <1>2, <1>3, <1>4 DEF Typed

\* The operations of EventHook.
LEMMA RemoveTyped ==
    ASSUME HookTypeOK, Remove, procs' \subseteq Pid, known' \subseteq Pid, changes' \in 0 .. Changes
    PROVE  HookTypeOK'
  BY FS_EmptySet, HookAssumption DEF Remove, HookTypeOK

LEMMA InstallTyped ==
    ASSUME HookTypeOK, Install(known), procs' \subseteq Pid, known' \subseteq Pid,
           changes' \in 0 .. Changes
    PROVE  HookTypeOK'
  BY FS_EmptySet, HookAssumption DEF Install, HookTypeOK

LEMMA ChangeTyped == HookTypeOK /\ (Change \/ UNCHANGED changes) => changes' \in 0 .. Changes
  BY HookAssumption DEF Change, HookTypeOK

LEMMA PumpTyped ==
    ASSUME HookTypeOK, Pump, hooked # {}, UNCHANGED <<procs, known, hooked, changes>>
    PROVE  HookTypeOK'
<1>1. PICK fits \in SUBSET (channel \cup inbox) : Cardinality(fits) <= Capacity /\ channel' = fits
  BY DEF Pump
<1>2. inbox' = {}
  BY DEF Pump
<1> QED
  BY <1>1, <1>2 DEF HookTypeOK

LEMMA TellTyped ==
    ASSUME HookTypeOK, NEW p, NEW event \in Events, Tell(p, event), procs' \subseteq Pid,
           changes' \in 0 .. Changes
    PROVE  HookTypeOK'
  BY DEF Tell, HookTypeOK

LEMMA TopTyped == Typed /\ Top => Typed'
<1> SUFFICES ASSUME Typed, Top PROVE Typed'
  OBVIOUS
<1> USE DEF Top, restOfTop
<1>1. HookTypeOK'
  <2>1. CASE UNCHANGED <<hooked, inbox, channel>>
    BY <2>1 DEF Typed, HookTypeOK
  <2>2. CASE Remove
    BY <2>2, RemoveTyped DEF Typed, HookTypeOK
  <2> QED
    BY <2>1, <2>2
<1>2. Flags'
  BY DEF Typed, Flags, flagVars, wakeVars, retryVars, eventVars, Park
<1>3. Numbers'
  <2>1. wait' \in 0 .. Overdue + PanicPause + OffWait + AbsentWait
    BY ConstantsType, BoundsType DEF Typed, Numbers, Park
  <2>2. told' \in 0 .. AgeCap
    BY BoundsType DEF Typed, Numbers, KeepTold
  <2>3. full' \in 0 .. Overdue /\ scanAge' \in 0 .. NoScan
    BY BoundsType DEF Typed, Numbers
  <2>4. retryIn' \in 0 .. Doubled[RetryDoublings] /\ retries' \in 0 .. RetryDoublings
    BY RetryReset DEF Typed, Numbers, retryVars
  <2>5. misses' \in Nat
    BY DEF Typed, Numbers, PutOff
  <2> QED
    BY <2>1, <2>2, <2>3, <2>4, <2>5 DEF Typed, Numbers, paceVars, eventVars
<1>4. Hooks'
  BY DEF Typed, Hooks, Flags, paceVars, retryVars, Remove, Park
<1> QED
  BY <1>1, <1>2, <1>3, <1>4 DEF Typed

LEMMA ScanTyped == Typed /\ Scan => Typed'
<1> SUFFICES ASSUME Typed, Scan PROVE Typed'
  OBVIOUS
<1> USE DEF Scan
<1>1. \/ ScanOnce /\ scanAge' = 0
      \/ UNCHANGED <<known, scanFailed, error, scanAge, changes>>
  OBVIOUS
<1>2. HookTypeOK'
  <2>1. known' \subseteq Pid
    BY <1>1 DEF ScanOnce, Typed, HookTypeOK
  <2>2. changes' \in 0 .. Changes
    BY <1>1, ChangeTyped DEF ScanOnce, Typed
  <2> QED
    BY <2>1, <2>2 DEF Typed, HookTypeOK
<1>3. Flags'
  <2>1. /\ scanFailed' \in BOOLEAN /\ error' \in {"", "scan", "panic"}
        /\ error' = "scan" => scanFailed'
    BY <1>1 DEF Typed, Flags, ScanOnce
  <2> QED
    BY <2>1 DEF Typed, Flags, flagVars, wakeVars, retryVars, eventVars
<1>4. Numbers'
  <2>1. absent' \in 0 .. AbsentAfter /\ scanAge' \in 0 .. NoScan
    BY <1>1, ConstantsType, BoundsType DEF Typed, Numbers
  <2>2. burstLeft' \in 0 .. BurstRounds /\ quiet' \in 0 .. QuietCap
    BY ConstantsType, QuietCapType DEF Typed, Numbers, paceVars
  <2>3. unknown' \in 0 .. AgeCap
    BY BoundsType DEF Typed, Numbers, KeepUnknown
  <2> QED
    BY <2>1, <2>2, <2>3 DEF Typed, Numbers, retryVars, eventVars, tickVars
<1>5. Hooks'
  <2>1. lastPids' \subseteq Pid
    BY <1>2 DEF Typed, Hooks, paceVars, HookTypeOK
  <2> QED
    BY <2>1 DEF Typed, Hooks, retryVars
<1> QED
  BY <1>2, <1>3, <1>4, <1>5 DEF Typed

LEMMA TryInstallTyped ==
    ASSUME Typed, TryInstall, known # {}
    PROVE  /\ changes' \in 0 .. Changes /\ degraded' \in BOOLEAN
           /\ retryIn' \in 0 .. Doubled[RetryDoublings] /\ retries' \in 0 .. RetryDoublings
           /\ hooked' \in {{}, known} /\ (degraded' <=> hooked' = {})
           /\ Install(known) \/ Remove
<1>1. changes' \in 0 .. Changes /\ (Install(known) \/ Remove)
  BY ChangeTyped DEF TryInstall, Typed
<1>2. degraded' \in BOOLEAN /\ hooked' \in {{}, known} /\ (degraded' <=> hooked' = {})
  BY DEF TryInstall, Install, Remove
<1>3. retryIn' \in 0 .. Doubled[RetryDoublings] /\ retries' \in 0 .. RetryDoublings
  <2>1. CASE retryIn' = 0 /\ retries' = 0
    BY <2>1, RetryReset
  <2>2. CASE ~(retryIn' = 0 /\ retries' = 0)
    <3>1. PICK failed \in Nat \ {0} :
             retryIn' = RetryDelay(failed) /\ retries' = Smaller(failed, RetryDoublings)
      BY <2>2 DEF TryInstall, Typed, Numbers
    <3> QED
      BY <3>1, RetryDelayType, ConstantsType DEF Smaller
  <2> QED
    BY <2>1, <2>2
<1> QED
  BY <1>1, <1>2, <1>3

LEMMA HookTyped == Typed /\ Hook => Typed'
<1> SUFFICES ASSUME Typed, Hook PROVE Typed'
  OBVIOUS
<1> USE DEF Hook
<1>1. \/ known # {} /\ TryInstall
      \/ /\ known = {} /\ Remove /\ retryIn' = 0 /\ retries' = 0 /\ degraded' = FALSE
         /\ UNCHANGED changes
      \/ known = hookPids /\ UNCHANGED <<hooked, inbox, channel, retryIn, retries, degraded, changes>>
  OBVIOUS
<1>2. /\ changes' \in 0 .. Changes /\ degraded' \in BOOLEAN
      /\ retryIn' \in 0 .. Doubled[RetryDoublings] /\ retries' \in 0 .. RetryDoublings
      /\ hooked' \in {{}, known} /\ (degraded' <=> known # {} /\ hooked' = {})
      /\ Install(known) \/ Remove \/ UNCHANGED <<hooked, inbox, channel>>
  <2>1. CASE known # {} /\ TryInstall
    BY <2>1, TryInstallTyped
  <2>2. CASE known = {} /\ Remove /\ retryIn' = 0 /\ retries' = 0 /\ degraded' = FALSE
             /\ UNCHANGED changes
    BY <2>2, RetryReset DEF Remove, Typed, HookTypeOK
  <2>3. CASE known = hookPids /\ UNCHANGED <<hooked, inbox, channel, retryIn, retries, degraded, changes>>
    BY <2>3 DEF Typed, HookTypeOK, Hooks, Flags, Numbers
  <2> QED
    BY <1>1, <2>1, <2>2, <2>3
<1> HIDE DEF Hook
<1>3. /\ pc' = "events" /\ hookPids' = known /\ KeepTold /\ pc = "hook"
      /\ UNCHANGED <<procs, known, flagVars, error, wakeVars, wait, was, scanVars,
                     paceVars, eventVars, tickVars, tray, unseen, unknown, misses>>
  BY DEF Hook
<1>4. HookTypeOK'
  <2>1. CASE UNCHANGED <<hooked, inbox, channel>>
    BY <1>2, <1>3, <2>1 DEF Typed, HookTypeOK
  <2> QED
    BY <1>2, <1>3, <2>1, RemoveTyped, InstallTyped DEF Typed, HookTypeOK
<1>5. Flags'
  BY <1>2, <1>3 DEF Typed, Flags, flagVars, wakeVars, scanVars, eventVars
<1>6. Numbers'
  <2>1. told' \in 0 .. AgeCap
    BY <1>3, BoundsType DEF Typed, Numbers, KeepTold
  <2> QED
    BY <1>2, <1>3, <2>1 DEF Typed, Numbers, scanVars, paceVars, eventVars, tickVars
<1>7. Hooks'
  BY <1>2, <1>3 DEF Typed, Hooks, HookTypeOK, paceVars
<1> QED
  BY <1>4, <1>5, <1>6, <1>7 DEF Typed

LEMMA DrainTyped == Typed /\ DrainEvents => Typed'
<1> SUFFICES ASSUME Typed, DrainEvents PROVE Typed'
  OBVIOUS
<1> USE DEF DrainEvents
<1>1. HookTypeOK'
  BY FS_EmptySet, HookAssumption DEF Typed, HookTypeOK
<1>2. Flags'
  BY DEF Typed, Flags, flagVars, wakeVars, scanVars, retryVars
<1>3. Numbers'
  BY ConstantsType, QuietCapType DEF Typed, Numbers, scanVars, retryVars, tickVars, historyVars
<1>4. Hooks'
  BY DEF Typed, Hooks, retryVars
<1> QED
  BY <1>1, <1>2, <1>3, <1>4 DEF Typed

LEMMA ParkTyped ==
    ASSUME NEW time, Park(time), time \in 0 .. Overdue + PanicPause + OffWait + AbsentWait
    PROVE  pc' = "parked" /\ wait' \in 0 .. Overdue + PanicPause + OffWait + AbsentWait
  BY DEF Park

LEMMA AbsentTyped == Typed /\ Absent => Typed'
<1> SUFFICES ASSUME Typed, Absent PROVE Typed'
  OBVIOUS
<1> DEFINE time == Smaller(Larger(1, IF ScanInterval > scanAge THEN ScanInterval - scanAge ELSE 0),
                           AbsentWait)
<1>1. time \in 0 .. AbsentWait
  BY ScanIntervalType, ConstantsType DEF Smaller, Larger, Typed, Numbers
<1>2. time \in 0 .. Overdue + PanicPause + OffWait + AbsentWait
  BY <1>1, BoundsType, ConstantsType
<1> HIDE DEF time
<1>3. Park(time)
  BY DEF Absent, time
<1>4. wait' \in 0 .. Overdue + PanicPause + OffWait + AbsentWait
  BY <1>2, <1>3, ParkTyped
<1> USE DEF Absent
<1>5. HookTypeOK'
  BY DEF Typed, HookTypeOK, hookVars
<1>6. Flags'
  BY <1>3 DEF Typed, Flags, flagVars, wakeVars, scanVars, retryVars, Park
<1>7. Numbers'
  BY <1>4, ConstantsType DEF Typed, Numbers, scanVars, retryVars, paceVars, tickVars, historyVars
<1>8. Hooks'
  BY DEF Typed, Hooks, retryVars, paceVars, hookVars
<1> QED
  BY <1>5, <1>6, <1>7, <1>8 DEF Typed

\* What WaitForDue parks for.
LEMMA SleepType ==
    ASSUME Typed, NotDue
    PROVE  /\ Sleep \in 1 .. Overdue
           /\ full < Overdue
           /\ full + Sleep <= Overdue
           /\ pending => full + Sleep <= Burst
           /\ hooked = {} => full + Sleep <= Larger(Burst, Idle)
<1> DEFINE interval == IF pending \/ burstLeft > 0 THEN Burst ELSE ReconcileInterval
<1>1. full \in Nat /\ retryIn \in Nat /\ quiet \in Nat /\ burstLeft \in Nat
  BY ConstantsType, DoubledGrows DEF Typed, Numbers
<1>2. /\ ReconcileInterval \in Nat /\ ReconcileInterval <= Overdue
      /\ hooked = {} => ReconcileInterval <= Idle
  BY <1>1, ReconcileIntervalType
<1>3. /\ interval \in Nat /\ interval <= Overdue /\ full < interval
      /\ pending => interval = Burst
      /\ hooked = {} => interval <= Larger(Burst, Idle)
  BY <1>1, <1>2, ConstantsType, BoundsType DEF NotDue, Larger
<1> DEFINE time == IF pending \/ burstLeft > 0 THEN Burst - full ELSE ReconcileInterval - full
<1>4. time = interval - full /\ time \in Nat \ {0}
  BY <1>1, <1>2, <1>3, ConstantsType
<1>5. Sleep = Larger(1, IF hooked = {} THEN Smaller(time, retryIn) ELSE time)
  BY DEF Sleep
<1> HIDE DEF time, interval
<1>6. Sleep \in Nat /\ Sleep >= 1 /\ Sleep <= time
  BY <1>1, <1>4, <1>5 DEF Larger, Smaller
<1> QED
  BY <1>1, <1>3, <1>4, <1>6, BoundsType, ConstantsType DEF Larger

LEMMA WaitTyped == Typed /\ WaitForDue => Typed'
<1> SUFFICES ASSUME Typed, WaitForDue PROVE Typed'
  OBVIOUS
<1> USE DEF WaitForDue
<1>1. Sleep \in 0 .. Overdue + PanicPause + OffWait + AbsentWait
  BY SleepType, ConstantsType, BoundsType
<1>2. wait' \in 0 .. Overdue + PanicPause + OffWait + AbsentWait
  BY <1>1, ParkTyped
<1>3. HookTypeOK'
  BY DEF Typed, HookTypeOK, hookVars
<1>4. Flags'
  BY DEF Typed, Flags, flagVars, wakeVars, scanVars, retryVars, eventVars, Park
<1>5. Numbers'
  BY <1>2 DEF Typed, Numbers, scanVars, retryVars, paceVars, eventVars, tickVars, historyVars
<1>6. Hooks'
  BY DEF Typed, Hooks, retryVars, paceVars, hookVars, Park
<1> QED
  BY <1>3, <1>4, <1>5, <1>6 DEF Typed

LEMMA ReconcileTyped == Typed /\ Reconcile => Typed'
<1> SUFFICES ASSUME Typed, Reconcile PROVE Typed'
  OBVIOUS
<1> USE DEF Reconcile
<1>1. changes' \in 0 .. Changes
  BY ChangeTyped DEF Typed
<1>2. panics' \in 0 .. PanicLimit
  BY ConstantsType DEF Typed, Numbers, Smaller
<1>3. burstLeft' \in 0 .. BurstRounds
  <2>1. burstLeft' = burstLeft \/ (burstLeft > 0 /\ burstLeft' = burstLeft - 1)
    OBVIOUS
  <2> QED
    BY <2>1, ConstantsType DEF Typed, Numbers
<1>4. wait' \in 0 .. Overdue + PanicPause + OffWait + AbsentWait
  BY BoundsType, ConstantsType DEF Typed, Numbers, Park
<1>5. pc' \in {"top", "parked"} /\ error' \in {error, "panic"}
  BY DEF Park
<1>6. HookTypeOK'
  BY <1>1 DEF Typed, HookTypeOK
<1>7. Flags'
  BY <1>5 DEF Typed, Flags, flagVars, wakeVars, scanVars, retryVars
<1>8. Numbers'
  <2>1. unseen' \in 0 .. AgeCap /\ told' \in 0 .. AgeCap /\ misses' \in Nat /\ full' \in 0 .. Overdue
    BY BoundsType DEF Typed, Numbers, PutOff
  <2> QED
    BY <1>2, <1>3, <1>4, <2>1 DEF Typed, Numbers, scanVars, retryVars
<1>9. Hooks'
  BY <1>5 DEF Typed, Hooks, retryVars
<1> QED
  BY <1>6, <1>7, <1>8, <1>9 DEF Typed

LEMMA WakeTyped == Typed /\ WakeUp => Typed'
<1> SUFFICES ASSUME Typed, WakeUp PROVE Typed'
  OBVIOUS
<1> USE DEF WakeUp
<1>1. HookTypeOK'
  <2>1. CASE hooked = {}
    BY <2>1 DEF Typed, HookTypeOK
  <2>2. CASE hooked # {}
    BY <2>2, PumpTyped DEF Typed
  <2> QED
    BY <2>1, <2>2
<1>2. Flags'
  BY DEF Typed, Flags, flagVars, scanVars, retryVars, eventVars
<1>3. Numbers'
  <2>1. told' \in 0 .. AgeCap /\ 0 \in 0 .. Overdue + PanicPause + OffWait + AbsentWait
    BY ConstantsType, BoundsType DEF Typed, Numbers, KeepTold
  <2> QED
    BY <2>1 DEF Typed, Numbers, scanVars, retryVars, paceVars, eventVars, tickVars
<1>4. Hooks'
  BY DEF Typed, Hooks, retryVars, paceVars
<1> QED
  BY <1>1, <1>2, <1>3, <1>4 DEF Typed

LEMMA OlderType ==
    ASSUME NEW cap \in Nat, NEW age \in 0 .. cap
    PROVE  Older(age, cap) \in 0 .. cap /\ Older(age, cap) <= age + 1
  BY DEF Older, Smaller

LEMMA CountType ==
    ASSUME NEW age \in 0 .. AgeCap, NEW counts \in BOOLEAN
    PROVE  /\ Count(age, counts) \in 0 .. AgeCap /\ Count(age, counts) <= age + 1
           /\ ~counts => Count(age, counts) = age
<1>1. AgeCap \in Nat
  BY BoundsType
<1>2. Older(age, AgeCap) \in 0 .. AgeCap /\ Older(age, AgeCap) <= age + 1
  BY <1>1, OlderType
<1> QED
  BY <1>2 DEF Count

LEMMA TimeTyped == Typed /\ TimePasses => Typed'
<1> SUFFICES ASSUME Typed, TimePasses PROVE Typed'
  OBVIOUS
<1> USE DEF TimePasses
<1>1. HookTypeOK'
  BY DEF Typed, HookTypeOK, hookVars
<1>2. Flags'
  BY DEF Typed, Flags, flagVars, wakeVars
<1>3. Numbers'
  <2>1. wait' \in 0 .. Overdue + PanicPause + OffWait + AbsentWait
    BY ConstantsType, BoundsType DEF Typed, Numbers, Awake
  <2>2. retryIn' \in 0 .. Doubled[RetryDoublings]
    BY ConstantsType, DoubledGrows DEF Typed, Numbers
  <2>3. /\ scanAge' \in 0 .. NoScan /\ full' \in 0 .. Overdue /\ quiet' \in 0 .. QuietCap
    BY OlderType, BoundsType, QuietCapType DEF Typed, Numbers
  <2>4. absent' \in 0 .. AbsentAfter /\ eventAge' \in 0 .. ActiveWindow
    BY OlderType, ConstantsType DEF Typed, Numbers
  <2>5. unseen' \in 0 .. AgeCap /\ told' \in 0 .. AgeCap /\ unknown' \in 0 .. AgeCap
    BY CountType DEF Typed, Numbers
  <2> QED
    BY <2>1, <2>2, <2>3, <2>4, <2>5 DEF Typed, Numbers
<1>4. Hooks'
  BY DEF Typed, Hooks, hookVars
<1> QED
  BY <1>1, <1>2, <1>3, <1>4 DEF Typed

LEMMA OthersTyped == Typed /\ (Command \/ NotifyControl) => Typed'
<1> SUFFICES ASSUME Typed, Command \/ NotifyControl PROVE Typed'
  OBVIOUS
<1> USE DEF Command, NotifyControl, restOfTray
<1>1. HookTypeOK'
  <2>1. changes' \in 0 .. Changes
    BY ChangeTyped DEF Typed
  <2> QED
    BY <2>1 DEF Typed, HookTypeOK
<1>2. Flags'
  BY DEF Typed, Flags, flagVars, wakeVars, scanVars, retryVars, eventVars
<1>3. Numbers'
  BY DEF Typed, Numbers, scanVars, retryVars, paceVars, eventVars, tickVars, historyVars
<1>4. Hooks'
  BY DEF Typed, Hooks, retryVars, paceVars
<1> QED
  BY <1>1, <1>2, <1>3, <1>4 DEF Typed

LEMMA KakaoTyped == Typed /\ KakaoStep => Typed'
<1> SUFFICES ASSUME Typed, KakaoStep PROVE Typed'
  OBVIOUS
<1>1. Change
  BY DEF KakaoStep, Launch, Quit, ChangeWindow
<1>2. changes' \in 0 .. Changes
  BY <1>1, ChangeTyped DEF Typed
<1>3. UNCHANGED <<known, hooked, channel>>
  BY DEF KakaoStep, Launch, Quit, ChangeWindow, Tell
<1>4. HookTypeOK'
  <2>1. CASE \E p \in Pid : Launch(p)
    BY <2>1, <1>2 DEF Launch, Typed, HookTypeOK
  <2>2. CASE \E p \in Pid : Quit(p)
    BY <2>2, <1>2, TellTyped DEF Quit, Typed, HookTypeOK, Events
  <2>3. CASE \E p \in Pid, event \in Events : ChangeWindow(p, event)
    BY <2>3, <1>2, TellTyped DEF ChangeWindow, Typed, HookTypeOK
  <2> QED
    BY <2>1, <2>2, <2>3 DEF KakaoStep
<1>5. Flags'
  <2>1. UNCHANGED restOfKakao
    BY DEF KakaoStep
  <2> QED
    BY <2>1, FlagsKept DEF restOfKakao, Typed, flagVars, wakeVars, scanVars, retryVars, eventVars
<1>6. Numbers'
  <2>1. unseen' \in {unseen, 0, Larger(unseen, 1)} /\ unknown' \in {unknown, 0}
    BY DEF KakaoStep, KeepUnknown
  <2>2. unseen' \in 0 .. AgeCap /\ unknown' \in 0 .. AgeCap /\ misses' \in Nat
    BY <2>1, BoundsType DEF KakaoStep, Larger, Typed, Numbers
  <2> QED
    BY <2>2 DEF KakaoStep, restOfKakao, Typed, Numbers, scanVars, retryVars, paceVars, eventVars,
                tickVars
<1>7. Hooks'
  BY <1>3 DEF KakaoStep, restOfKakao, Typed, Hooks, retryVars, paceVars
<1> QED
  BY <1>4, <1>5, <1>6, <1>7 DEF Typed

LEMMA TypedStep == Typed /\ [Next]_vars => Typed'
<1> SUFFICES ASSUME Typed, [Next]_vars PROVE Typed'
  OBVIOUS
<1>1. CASE Worker
  BY <1>1, TopTyped, ScanTyped, HookTyped, DrainTyped, AbsentTyped, WaitTyped, ReconcileTyped,
     WakeTyped DEF Worker
<1>2. CASE TimePasses \/ Command \/ NotifyControl \/ KakaoStep
  BY <1>2, TimeTyped, OthersTyped, KakaoTyped
<1>3. CASE UNCHANGED vars
  <2>1. HookTypeOK'
    BY <1>3 DEF vars, hookVars, Typed, HookTypeOK
  <2>2. Flags'
    BY <1>3, FlagsKept DEF vars, flagVars, wakeVars, scanVars, retryVars, eventVars, Typed
  <2>3. Numbers'
    BY <1>3 DEF vars, scanVars, retryVars, paceVars, eventVars, tickVars, historyVars, Typed, Numbers
  <2>4. Hooks'
    BY <1>3 DEF vars, hookVars, retryVars, paceVars, Typed, Hooks
  <2> QED
    BY <2>1, <2>2, <2>3, <2>4 DEF Typed
<1> QED
  BY <1>1, <1>2, <1>3 DEF Next

\* The worker's state keeps its types and bounds; while it waits, the hook counts as
\* degraded exactly when it wants one and has none, and the text of a failed scan is
\* only there while the last scan failed (run_worker, HookRetry).
THEOREM WorkerTypes == Spec => []TypeOK
  BY TypedInit, TypedStep, TypedIsTypeOK, PTL DEF Spec

----------------------------------------------------------------------------
(* Changes in KakaoTalk are seen in time.                                  *)

\* How long the worker may go on without a look.
Length == IF panics >= PanicLimit THEN Nap ELSE IF hooked = {} THEN Larger(Burst, Idle) ELSE Overdue

LEMMA LengthType == Length \in Nat /\ Burst <= Length /\ Length <= Nap
  BY ConstantsType, BoundsType DEF Length, Larger

\* But for the looks that were put off, a change that waits is not older than the last look,
\* and what is left of a sleep ends before the change is too old.
Seeing ==
    /\ procs = {} => unseen = 0
    /\ known = {} => unseen <= 1
    /\ unseen <= 1 + Nap + Delay
    /\ unseen > 0 /\ full < Overdue => unseen <= 1 + full + Delay
    /\ pc = "parked" /\ was # "off" /\ known # {} =>
         wait <= Length /\ Larger(unseen, 1) + wait <= 1 + Length + Delay

LEMMA NumbersNat ==
    ASSUME Typed
    PROVE  /\ wait \in Nat /\ full \in Nat /\ scanAge \in Nat /\ panics \in Nat
           /\ unseen \in Nat /\ told \in Nat /\ unknown \in Nat
           /\ misses \in Nat /\ Delay \in Nat
<1>1. misses \in Nat
  BY DEF Typed, Numbers
<1> QED
  BY <1>1, DelayType, ConstantsType, BoundsType DEF Typed, Numbers

LEMMA SeeingKept ==
    ASSUME Seeing, UNCHANGED <<procs, known, hooked, was, panics, full, unseen, misses>>,
           pc' # "parked" \/ UNCHANGED <<pc, wait>>
    PROVE  Seeing'
  BY DEF Seeing, Length, Nap, Delay

LEMMA SeeingWait == Typed /\ Seeing /\ WaitForDue => Seeing'
<1> SUFFICES ASSUME Typed, Seeing, WaitForDue PROVE Seeing'
  OBVIOUS
<1>1. /\ pc' = "parked" /\ wait' = Sleep /\ NotDue
      /\ UNCHANGED <<procs, known, hooked, was, panics, full, unseen, misses>>
  BY DEF WaitForDue, Park, hookVars, tickVars, historyVars
<1>2. Larger(unseen, 1) <= 1 + full + Delay
  BY <1>1, SleepType, NumbersNat DEF Seeing, Larger
<1>3. full + Sleep <= Length
  <2>1. CASE panics >= PanicLimit
    BY <1>1, <2>1, SleepType, BoundsType, NumbersNat DEF Length
  <2>2. CASE ~(panics >= PanicLimit)
    BY <1>1, <2>2, SleepType DEF Length
  <2> QED
    BY <2>1, <2>2
<1>4. Sleep <= Length /\ Larger(unseen, 1) + Sleep <= 1 + Length + Delay
  <2>1. Larger(unseen, 1) \in Nat
    BY NumbersNat DEF Larger
  <2> QED
    BY <1>1, <1>2, <1>3, <2>1, SleepType, NumbersNat, LengthType, BoundsType
<1> QED
  BY <1>1, <1>4 DEF Seeing, Length, Nap, Delay

\* A round that looks at the windows starts afresh; one that panics while a change waits puts
\* it off by the sleep that follows, which is no longer than Longest.
LEMMA SeeingReconcile == Typed /\ Seeing /\ Reconcile => Seeing'
<1> SUFFICES ASSUME Typed, Seeing, Reconcile PROVE Seeing'
  OBVIOUS
<1>1. full' = 0 /\ panics' \in Nat /\ UNCHANGED <<procs, known, hooked, was>>
  BY NumbersNat, ConstantsType DEF Reconcile, Smaller
<1>2. /\ Nap' \in Nat /\ Overdue <= Nap' /\ (panics' >= PanicLimit => PanicPause <= Nap')
  BY BoundsType, ConstantsType DEF Nap
<1>3. Length' \in Nat /\ Burst <= Length'
  BY <1>2, BoundsType, ConstantsType DEF Length, Larger
<1>4. pc' = "parked" =>
        \/ panics' >= PanicLimit /\ wait' = PanicPause
        \/ wait' = Burst
  BY DEF Reconcile, Park
<1>5. pc' = "parked" => wait' <= Length'
  <2>1. CASE panics' >= PanicLimit
    BY <2>1, <1>2, <1>3, <1>4 DEF Length
  <2>2. CASE ~(panics' >= PanicLimit)
    BY <2>2, <1>3, <1>4
  <2> QED
    BY <2>1, <2>2
<1>6. pc' = "parked" => wait' \in Nat
  BY <1>4, ConstantsType
<1>7. unseen' \in Nat /\ unseen' <= 1 + Delay' /\ Delay' \in Nat /\ unseen' \in {0, unseen}
  <2>1. CASE unseen' = 0 /\ misses' = 0
    <3>1. Delay' = 0
      BY <2>1, NumbersNat, DelayType
    <3> QED
      BY <2>1, <3>1
  <2>2. CASE unseen = 0 /\ UNCHANGED <<unseen, misses>>
    <3>1. Delay' = Delay
      BY <2>2, NumbersNat, DelayType
    <3> QED
      BY <2>2, <3>1, NumbersNat
  <2>3. CASE unseen > 0 /\ UNCHANGED unseen /\ misses' = misses + 1
    <3>1. Delay' = Delay + Longest
      BY <2>3, NumbersNat, DelayType
    <3>2. unseen <= 1 + Nap + Delay /\ Nap <= Longest
      BY BoundsType DEF Seeing
    <3> QED
      BY <2>3, <3>1, <3>2, NumbersNat, BoundsType
  <2> QED
    BY <2>1, <2>2, <2>3, NumbersNat DEF Reconcile, PutOff
<1>8. Larger(unseen', 1) <= 1 + Delay' /\ Larger(unseen', 1) \in Nat
  <2>1. \A n, d \in Nat : n <= 1 + d => Larger(n, 1) <= 1 + d /\ Larger(n, 1) \in Nat
    BY DEF Larger
  <2> HIDE <1>2, <1>3
  <2> QED
    BY <1>7, <2>1
<1>9. pc' = "parked" => Larger(unseen', 1) + wait' <= 1 + Length' + Delay'
  BY <1>3, <1>5, <1>6, <1>7, <1>8
<1>10. unseen' <= 1 + Nap' + Delay' /\ unseen' <= 1 + full' + Delay'
  <2>1. \A n, d, m \in Nat : n <= 1 + d => n <= 1 + m + d
    OBVIOUS
  <2>2. Nap' \in Nat /\ full' \in Nat
    BY <1>1, <1>2
  <2> QED
    BY <1>7, <2>1, <2>2
<1>11. (procs' = {} => unseen' = 0) /\ (known' = {} => unseen' <= 1)
  BY <1>1, <1>7, NumbersNat DEF Seeing
<1> QED
  BY <1>5, <1>9, <1>10, <1>11 DEF Seeing

LEMMA SeeingTime == Typed /\ Seeing /\ TimePasses => Seeing'
<1> SUFFICES ASSUME Typed, Seeing, TimePasses PROVE Seeing'
  OBVIOUS
<1>1. /\ pc = "parked" /\ wait' = wait - 1 /\ wait # 0 /\ full' = Older(full, Overdue)
      /\ UNCHANGED <<procs, known, hooked, pc, was, panics, misses>>
  BY DEF TimePasses, Awake, hookVars
<1>2. UNCHANGED <<Nap, Length, Delay>>
  BY <1>1 DEF Nap, Length, Delay
<1>3. full' < Overdue => full' = full + 1
  BY <1>1, NumbersNat, BoundsType DEF Older, Smaller
<1>11. was # "off" /\ known # {} => wait' <= Length
  BY <1>1, NumbersNat, LengthType DEF Seeing
<1>4. CASE unseen > 0 /\ was # "off" /\ procs \subseteq known
  <2>1. procs # {} /\ known # {}
    BY <1>4 DEF Seeing
  <2>2. unseen' \in Nat /\ unseen' <= unseen + 1 /\ unseen' > 0
    <3>1. unseen' = Smaller(unseen + 1, AgeCap)
      BY <1>4 DEF TimePasses, Count, Older
    <3> QED
      BY <1>4, <3>1, NumbersNat, BoundsType DEF Smaller
  <2>3. Larger(unseen', 1) + wait' <= Larger(unseen, 1) + wait
    BY <1>1, <1>4, <2>2, NumbersNat DEF Larger
  <2>4. Larger(unseen, 1) + wait <= 1 + Length + Delay
    BY <1>1, <1>4, <2>1 DEF Seeing
  <2>5. Larger(unseen', 1) + wait' <= 1 + Length + Delay
    BY <1>1, <2>2, <2>3, <2>4, NumbersNat, LengthType DEF Larger
  <2>6. unseen' <= 1 + Nap + Delay
    BY <1>1, <2>2, <2>5, NumbersNat, LengthType, BoundsType DEF Larger
  <2>7. unseen' > 0 /\ full' < Overdue => unseen' <= 1 + full' + Delay
    BY <1>3, <1>4, <2>2, NumbersNat, BoundsType DEF Seeing
  <2> QED
    BY <1>1, <1>2, <1>11, <2>1, <2>5, <2>6, <2>7 DEF Seeing
<1>5. CASE ~(unseen > 0 /\ was # "off" /\ procs \subseteq known)
  <2>1. unseen' = unseen
    BY <1>5 DEF TimePasses, Count
  <2>2. Larger(unseen, 1) + wait' <= Larger(unseen, 1) + wait
    BY <1>1, NumbersNat DEF Larger
  <2>3. was # "off" /\ known # {} => Larger(unseen, 1) + wait' <= 1 + Length + Delay
    BY <1>1, <2>2, NumbersNat, LengthType DEF Seeing, Larger
  <2>4. unseen > 0 /\ full' < Overdue => unseen <= 1 + full' + Delay
    BY <1>3, NumbersNat, BoundsType DEF Seeing
  <2> QED
    BY <1>1, <1>2, <1>11, <2>1, <2>3, <2>4 DEF Seeing
<1> QED
  BY <1>4, <1>5

LEMMA SeeingKakao == Typed /\ Seeing /\ KakaoStep => Seeing'
<1> SUFFICES ASSUME Typed, Seeing, KakaoStep PROVE Seeing'
  OBVIOUS
<1>1. UNCHANGED <<known, hooked, pc, wait, was, panics, full>>
  BY DEF KakaoStep, Launch, Quit, ChangeWindow, Tell, restOfKakao, tickVars
<1>2. UNCHANGED <<Nap, Length>>
  BY <1>1 DEF Nap, Length
<1>3. \/ UNCHANGED <<unseen, misses>> /\ procs # {} /\ procs' # {}
      \/ UNCHANGED <<unseen, misses>> /\ unseen = 0
      \/ unseen' = Larger(unseen, 1) /\ UNCHANGED misses /\ procs' # {}
      \/ unseen' = 0 /\ misses' = 0
  <2>1. CASE \E p \in Pid : Launch(p) /\ UNCHANGED <<unseen, misses>>
    BY <2>1 DEF Launch, Seeing
  <2>2. CASE \E p \in Pid : Quit(p) /\ (IF procs' = {} THEN unseen' = 0 /\ misses' = 0
                                     ELSE UNCHANGED <<unseen, misses>>)
    BY <2>2 DEF Quit
  <2>3. CASE \E p \in Pid, event \in Events :
               /\ ChangeWindow(p, event)
               /\ unseen' = IF event = "gone" THEN unseen ELSE Larger(unseen, 1)
               /\ UNCHANGED misses
    BY <2>3 DEF ChangeWindow
  <2> QED
    BY <2>1, <2>2, <2>3 DEF KakaoStep
<1>4. \/ Delay' = Delay /\ unseen' \in Nat /\ Larger(unseen', 1) <= Larger(unseen, 1)
      \/ Delay' = 0 /\ unseen' = 0
  BY <1>3, NumbersNat, DelayType DEF Larger
<1>5. (procs' = {} => unseen' = 0) /\ (known = {} => unseen' <= 1)
  BY <1>3, NumbersNat DEF Seeing, Larger
<1>6. unseen' <= 1 + Nap + Delay'
  BY <1>4, NumbersNat, BoundsType DEF Seeing, Larger
<1>7. unseen' > 0 /\ full < Overdue => unseen' <= 1 + full + Delay'
  BY <1>3, <1>4, NumbersNat, BoundsType DEF Seeing, Larger
<1>8. pc = "parked" /\ was # "off" /\ known # {} => Larger(unseen', 1) + wait <= 1 + Length + Delay'
  <2> SUFFICES ASSUME pc = "parked", was # "off", known # {}
               PROVE  Larger(unseen', 1) + wait <= 1 + Length + Delay'
    OBVIOUS
  <2>1. CASE Delay' = Delay /\ unseen' \in Nat /\ Larger(unseen', 1) <= Larger(unseen, 1)
    BY <2>1, NumbersNat, LengthType DEF Seeing, Larger
  <2>2. CASE Delay' = 0 /\ unseen' = 0
    BY <1>1, <2>2, NumbersNat, LengthType DEF Seeing, Larger
  <2> QED
    BY <1>4, <2>1, <2>2
<1> QED
  BY <1>1, <1>2, <1>5, <1>6, <1>7, <1>8 DEF Seeing

LEMMA SeeingScan == Typed /\ Seeing /\ Scan => Seeing'
<1> SUFFICES ASSUME Typed, Seeing, Scan PROVE Seeing'
  OBVIOUS
<1>1. /\ pc' = "hook" /\ UNCHANGED <<procs, hooked, was, panics, full, unseen, misses>>
      /\ known' = procs \/ known' = known
  BY DEF Scan, ScanOnce, tickVars
<1>2. known' = {} => unseen <= 1
  BY <1>1 DEF Seeing
<1> QED
  BY <1>1, <1>2 DEF Seeing, Nap, Delay

\* A switch change may set the last look back to one that is nearer.
LEMMA SeeingTop == Typed /\ Seeing /\ Top => Seeing'
<1> SUFFICES ASSUME Typed, Seeing, Top PROVE Seeing'
  OBVIOUS
<1>1. /\ UNCHANGED <<procs, known, panics, unseen>> /\ full' \in {full, Rewound}
      /\ pc' = "parked" => was' = "off"
      /\ IF full' < full THEN PutOff ELSE UNCHANGED misses
  BY NumbersNat DEF Top, restOfTop, Park
<1>2. UNCHANGED Nap
  BY <1>1 DEF Nap
<1>3. unseen > 0 /\ full' < Overdue => unseen <= 1 + full' + Delay'
  <2>1. CASE full' < full /\ unseen > 0
    <3>1. Delay' = Delay + Longest
      BY <1>1, <2>1, NumbersNat, DelayType DEF PutOff
    <3>2. unseen <= 1 + Nap + Delay /\ Nap <= Longest /\ full' \in Nat
      BY <1>1, NumbersNat, BoundsType DEF Seeing
    <3> QED
      BY <3>1, <3>2, NumbersNat, BoundsType
  <2>2. CASE ~(full' < full)
    BY <1>1, <2>2, NumbersNat, BoundsType, DelayType DEF Seeing
  <2> QED
    BY <2>1, <2>2, NumbersNat
<1>4. unseen <= 1 + Nap + Delay'
  <2>1. Delay' = Delay \/ Delay' = Delay + Longest
    BY <1>1, NumbersNat, DelayType DEF PutOff
  <2> QED
    BY <2>1, NumbersNat, BoundsType DEF Seeing
<1> QED
  BY <1>1, <1>2, <1>3, <1>4 DEF Seeing

LEMMA SeeingStep == Typed /\ Seeing /\ [Next]_vars => Seeing'
<1> SUFFICES ASSUME Typed, Seeing, [Next]_vars PROVE Seeing'
  OBVIOUS
<1>1. CASE Hook
  <2>1. pc' = "events" /\ UNCHANGED <<procs, known, was, panics, full, unseen, misses>>
    BY <1>1 DEF Hook, tickVars
  <2> QED
    BY <2>1 DEF Seeing, Nap, Delay
<1>2. CASE DrainEvents
  BY <1>2, SeeingKept DEF DrainEvents, tickVars, historyVars
<1>3. CASE Absent
  <2>1. known = {} /\ UNCHANGED <<procs, known, was, panics, full, unseen, misses>>
    BY <1>3 DEF Absent, hookVars, tickVars, historyVars
  <2> QED
    BY <2>1 DEF Seeing, Nap, Delay
<1>4. CASE WakeUp
  BY <1>4, SeeingKept DEF WakeUp, tickVars
<1>5. CASE Command \/ NotifyControl
  BY <1>5, SeeingKept DEF Command, NotifyControl, restOfTray, tickVars, historyVars
<1>6. CASE UNCHANGED vars
  BY <1>6, SeeingKept DEF vars, hookVars, tickVars, historyVars
<1> QED
  BY <1>1, <1>2, <1>3, <1>4, <1>5, <1>6, SeeingTop, SeeingScan, SeeingWait, SeeingReconcile,
     SeeingTime, SeeingKakao DEF Next, Worker

LEMMA SeeingInit == Init => Seeing
<1> SUFFICES ASSUME Init PROVE Seeing
  OBVIOUS
<1>1. unseen = 0 /\ pc = "top" /\ misses = 0
  BY DEF Init
<1>2. Delay \in Nat
  BY <1>1, DelayType
<1> QED
  BY <1>1, <1>2, BoundsType DEF Seeing

----------------------------------------------------------------------------
(* Window events are followed up in time.                                  *)

\* Only a useful event on its way is waited for, and it is not older than the last look.
\* The worker sleeps with an empty channel, so that what it sleeps on it knows of.
Telling ==
    /\ pc \in {"decide", "parked"} => channel = {}
    /\ Told \/ told = 0
    /\ told <= Burst
    /\ told > 0 /\ full < Overdue => told <= full
    /\ pc = "parked" /\ pending /\ was # "off" /\ known # {} => told + wait <= Burst

LEMMA TellingKept ==
    ASSUME Typed, Telling, told' \in {told, 0}, Told' \/ told' = 0, full' \in {full, Rewound},
           pc' = "decide" => channel' = {},
           pc' # "parked"
    PROVE  Telling'
<1>1. told' <= Burst
  BY ConstantsType DEF Telling
<1>2. told' > 0 => told' = told
  BY ConstantsType
<1>3. told' > 0 /\ full' < Overdue => told' <= full'
  BY <1>2, NumbersNat, ConstantsType, BoundsType DEF Telling
<1> QED
  BY <1>1, <1>2, <1>3 DEF Telling

LEMMA KeepToldIs ==
    ASSUME KeepTold, UNCHANGED pending
    PROVE  told' \in {told, 0} /\ (Told' \/ told' = 0)
<1>1. CASE pending \/ Useful(inbox' \cup channel') # {}
  BY <1>1 DEF KeepTold, Told
<1>2. CASE ~(pending \/ Useful(inbox' \cup channel') # {})
  BY <1>2 DEF KeepTold
<1> QED
  BY <1>1, <1>2

LEMMA TellingTop == Typed /\ Telling /\ Top => Telling'
<1> SUFFICES ASSUME Typed, Telling, Top PROVE Telling'
  OBVIOUS
<1>1. full' \in {full, Rewound} /\ UNCHANGED <<pending, known>>
  BY DEF Top, restOfTop, eventVars
<1>2. CASE UNCHANGED <<inbox, channel, told>> /\ pc' # "parked" /\ pc' # "decide"
  <2>1. Told' \/ told' = 0
    BY <1>1, <1>2 DEF Telling, Told
  <2> QED
    BY <1>1, <1>2, <2>1, TellingKept, BoundsType
<1>3. CASE Remove /\ KeepTold /\ was' = "off" /\ pc' = "parked"
  <2>1. told' \in {told, 0} /\ (Told' \/ told' = 0) /\ channel' = {}
    BY <1>1, <1>3, KeepToldIs DEF Remove
  <2>2. told' <= Burst
    BY <2>1, ConstantsType DEF Telling
  <2>3. told' > 0 /\ full' < Overdue => told' <= full'
    <3>1. told' > 0 => told' = told
      BY <2>1, NumbersNat
    <3> QED
      BY <1>1, <3>1, NumbersNat, ConstantsType, BoundsType DEF Telling
  <2> QED
    BY <1>3, <2>1, <2>2, <2>3 DEF Telling
<1> QED
  BY <1>2, <1>3 DEF Top, Park

LEMMA TellingDrain == Typed /\ Telling /\ DrainEvents => Telling'
<1> SUFFICES ASSUME Typed, Telling, DrainEvents PROVE Telling'
  OBVIOUS
<1>1. /\ pc' = "decide" /\ channel' = {} /\ UNCHANGED <<inbox, full, told>>
      /\ pending' = (pending \/ Useful(channel) # {})
  BY DEF DrainEvents, tickVars, historyVars, Typed, Flags
<1>2. Told => Told'
  BY <1>1 DEF Told, Useful
<1>3. Told' \/ told' = 0
  BY <1>1, <1>2 DEF Telling
<1> QED
  BY <1>1, <1>3, TellingKept

LEMMA TellingWait == Typed /\ Telling /\ WaitForDue => Telling'
<1> SUFFICES ASSUME Typed, Telling, WaitForDue PROVE Telling'
  OBVIOUS
<1>1. /\ pc = "decide" /\ NotDue /\ wait' = Sleep
      /\ UNCHANGED <<inbox, channel, pending, full, told, known, was>>
  BY DEF WaitForDue, Park, hookVars, eventVars, tickVars, historyVars
<1>2. Told' <=> Told
  BY <1>1 DEF Told
<1>3. pending => told + Sleep <= Burst
  <2> SUFFICES ASSUME pending PROVE told + Sleep <= Burst
    OBVIOUS
  <2>1. Sleep \in Nat /\ full + Sleep <= Burst /\ full < Overdue
    BY <1>1, SleepType, BoundsType
  <2>2. told <= full
    BY <2>1, NumbersNat DEF Telling
  <2> QED
    BY <2>1, <2>2, NumbersNat, ConstantsType
<1> QED
  BY <1>1, <1>2, <1>3 DEF Telling

LEMMA TellingReconcile == Typed /\ Telling /\ Reconcile => Telling'
<1> SUFFICES ASSUME Typed, Telling, Reconcile PROVE Telling'
  OBVIOUS
<1>1. /\ pc = "decide" /\ UNCHANGED channel /\ told' = 0 /\ pending' = FALSE
      /\ pc' \in {"top", "parked"}
  BY DEF Reconcile, Park
<1>2. 0 <= Burst /\ ~(0 > 0)
  BY ConstantsType
<1> QED
  BY <1>1, <1>2 DEF Telling

LEMMA TellingTime == Typed /\ Telling /\ TimePasses => Telling'
<1> SUFFICES ASSUME Typed, Telling, TimePasses PROVE Telling'
  OBVIOUS
<1>1. /\ pc = "parked" /\ wait' = wait - 1 /\ wait # 0 /\ full' = Older(full, Overdue)
      /\ UNCHANGED <<pc, pending, inbox, channel, known, was>> /\ channel = {}
  BY DEF TimePasses, Awake, hookVars, Telling
<1>2. Told' <=> Told
  BY <1>1 DEF Told
<1>3. full' < Overdue => full' = full + 1
  BY <1>1, NumbersNat, BoundsType DEF Older, Smaller
<1>4. Told => pending
  <2>1. inbox = {}
    BY <1>1 DEF TimePasses, Awake, Typed, HookTypeOK
  <2> QED
    BY <1>1, <2>1 DEF Told, Useful
<1>5. CASE Told /\ was # "off" /\ known # {}
  <2>1. told' \in Nat /\ told' <= told + 1
    <3>1. told' = Smaller(told + 1, AgeCap)
      BY <1>5 DEF TimePasses, Count, Older
    <3> QED
      BY <3>1, NumbersNat, BoundsType DEF Smaller
  <2>2. told + wait <= Burst
    BY <1>1, <1>4, <1>5 DEF Telling
  <2>3. told' + wait' <= Burst /\ told' <= Burst
    BY <1>1, <2>1, <2>2, NumbersNat, ConstantsType
  <2>4. told' > 0 /\ full' < Overdue => told' <= full'
    BY <1>3, <2>1, NumbersNat, BoundsType DEF Telling
  <2> QED
    BY <1>1, <1>2, <1>5, <2>3, <2>4 DEF Telling
<1>6. CASE ~(Told /\ was # "off" /\ known # {})
  <2>1. told' = told
    BY <1>6 DEF TimePasses, Count
  <2>2. told > 0 /\ full' < Overdue => told <= full'
    BY <1>3, NumbersNat, BoundsType DEF Telling
  <2>3. ~(pending /\ was # "off" /\ known # {})
    BY <1>6 DEF Told
  <2> QED
    BY <1>1, <1>2, <2>1, <2>2, <2>3 DEF Telling
<1> QED
  BY <1>5, <1>6

LEMMA TellingKakao == Typed /\ Telling /\ KakaoStep => Telling'
<1> SUFFICES ASSUME Typed, Telling, KakaoStep PROVE Telling'
  OBVIOUS
<1>1. UNCHANGED <<channel, known, pc, wait, was, pending, full, told>> /\ inbox \subseteq inbox'
  BY DEF KakaoStep, Launch, Quit, ChangeWindow, Tell, restOfKakao, eventVars, tickVars
<1>2. Told => Told'
  BY <1>1 DEF Told, Useful
<1> QED
  BY <1>1, <1>2 DEF Telling

LEMMA TellingStep == Typed /\ Telling /\ [Next]_vars => Telling'
<1> SUFFICES ASSUME Typed, Telling, [Next]_vars PROVE Telling'
  OBVIOUS
<1>1. CASE Scan
  <2>1. UNCHANGED <<inbox, channel, pending, full, told>> /\ pc' = "hook"
    BY <1>1 DEF Scan, eventVars, tickVars
  <2> QED
    BY <2>1, TellingKept DEF Telling, Told
<1>2. CASE Hook
  <2>1. KeepTold /\ UNCHANGED <<pending, full>> /\ pc' = "events"
    BY <1>2 DEF Hook, eventVars, tickVars
  <2> QED
    BY <2>1, KeepToldIs, TellingKept
<1>3. CASE Absent
  <2>1. /\ pc = "decide" /\ known = {} /\ UNCHANGED <<inbox, channel, pending, full, told, known>>
    BY <1>3 DEF Absent, hookVars, tickVars, historyVars
  <2> QED
    BY <2>1 DEF Telling, Told
<1>4. CASE WakeUp
  <2>1. KeepTold /\ UNCHANGED <<pending, full>> /\ pc' = "top"
    BY <1>4 DEF WakeUp, eventVars, tickVars
  <2> QED
    BY <2>1, KeepToldIs, TellingKept
<1>5. CASE Command \/ NotifyControl \/ UNCHANGED vars
  <2>1. UNCHANGED <<inbox, channel, pending, full, told, known, pc, wait, was>>
    BY <1>5 DEF Command, NotifyControl, restOfTray, eventVars, tickVars, historyVars, vars, hookVars
  <2> QED
    BY <2>1 DEF Telling, Told
<1> QED
  BY <1>1, <1>2, <1>3, <1>4, <1>5, TellingTop, TellingDrain, TellingWait, TellingReconcile,
     TellingTime, TellingKakao DEF Next, Worker

LEMMA TellingInit == Init => Telling
<1> SUFFICES ASSUME Init PROVE Telling
  OBVIOUS
<1>1. told = 0 /\ pc = "top"
  BY DEF Init
<1> QED
  BY <1>1, ConstantsType DEF Telling

\* What changes in KakaoTalk is looked at in time: one burst interval after the worker's
\* window events say so, and otherwise after the longest interval, the one without a hook,
\* or the pause after repeated panics; and one such time more for every round that panicked
\* while the change waited and every switch change that put its look off (reconcile_interval,
\* run_worker, guarded_tick).
THEOREM ChangesAreSeenInTime == Spec => []SeenInTime
<1>1. Typed /\ Seeing /\ Telling => SeenInTime
  <2> SUFFICES ASSUME Typed, Seeing, Telling PROVE SeenInTime
    OBVIOUS
  <2>1. told <= Burst /\ unseen <= 1 + Nap + Delay
    BY DEF Seeing, Telling
  <2>2. ASSUME pc = "parked", was # "off", hooked = {}, panics < PanicLimit
        PROVE  unseen <= 1 + Larger(Burst, Idle) + Delay
    <3>1. CASE known = {}
      BY <3>1, NumbersNat, ConstantsType DEF Seeing, Larger
    <3>2. CASE known # {}
      <4>1. Length = Larger(Burst, Idle)
        BY <2>2, NumbersNat, ConstantsType DEF Length
      <4>2. Larger(unseen, 1) + wait <= 1 + Length + Delay
        BY <2>2, <3>2 DEF Seeing
      <4> QED
        BY <4>1, <4>2, NumbersNat, LengthType DEF Larger
    <3> QED
      BY <3>1, <3>2
  <2> QED
    BY <2>1, <2>2 DEF SeenInTime
<1> QED
  BY <1>1, TypedInit, TypedStep, SeeingInit, SeeingStep, TellingInit, TellingStep, PTL DEF Spec

----------------------------------------------------------------------------
(* A KakaoTalk that was started is found in time.                          *)

\* A process waits to be found only while the known ones are not whole, which makes scans
\* frequent; and no longer than since the last scan, unless that was made out of date.
Finding ==
    /\ unknown > 0 => ~AllAlive
    /\ ~scanFailed =>
         /\ unknown <= scanAge \/ scanAge = NoScan
         /\ unknown < Lag + Nap
         /\ pc \in {"hook", "events", "decide"} => unknown < Lag
         /\ pc = "parked" /\ was # "off" => unknown + wait < Lag + Nap

LEMMA FindingKept ==
    ASSUME Typed, Finding, UNCHANGED <<procs, known, scanFailed, scanAge, panics, unknown>>,
           \/ UNCHANGED <<pc, wait, was>>
           \/ pc \in {"hook", "events"} /\ pc' \in {"events", "decide"}
    PROVE  Finding'
  BY DEF Finding, AllAlive, Nap

\* A sleep that begins with what is unknown younger than a scan interval.
LEMMA FindingSleeps ==
    ASSUME Typed, Finding, pc = "decide",
           UNCHANGED <<procs, known, scanFailed, scanAge, unknown>>,
           pc' = "parked" /\ ~scanFailed => unknown + wait' < Lag + Nap',
           pc' \in {"top", "parked"}, Nap' \in Nat, Nap' >= 1
    PROVE  Finding'
<1>1. ~scanFailed => unknown < Lag + Nap'
  BY NumbersNat, BoundsType DEF Finding
<1> QED
  BY <1>1 DEF Finding, AllAlive

LEMMA FindingTop == Typed /\ Finding /\ Top => Finding'
<1> SUFFICES ASSUME Typed, Finding, Top PROVE Finding'
  OBVIOUS
<1>1. /\ UNCHANGED <<procs, known, scanFailed, panics, unknown>> /\ scanAge' \in {scanAge, NoScan}
      /\ pc' \in {"ended", "scan", "parked"} /\ (pc' = "parked" => was' = "off")
  BY DEF Top, restOfTop, Park
<1> QED
  BY <1>1 DEF Finding, AllAlive, Nap

LEMMA FindingScan == Typed /\ Finding /\ Scan => Finding'
<1> SUFFICES ASSUME Typed, Finding, Scan PROVE Finding'
  OBVIOUS
<1>1. pc' = "hook" /\ UNCHANGED <<procs, panics>> /\ KeepUnknown
  BY DEF Scan, tickVars
<1>2. CASE scanAge >= ScanInterval
  <2>1. CASE known' = procs /\ scanFailed' = FALSE /\ scanAge' = 0
    <3>1. unknown' = 0
      BY <1>1, <2>1 DEF KeepUnknown
    <3> QED
      BY <1>1, <2>1, <3>1, BoundsType DEF Finding, Nap
  <2>2. CASE scanFailed' = TRUE /\ UNCHANGED known
    <3>1. unknown' > 0 => unknown > 0
      BY <1>1, NumbersNat DEF KeepUnknown
    <3> QED
      BY <1>1, <2>2, <3>1 DEF Finding, AllAlive
  <2> QED
    BY <1>2, <2>1, <2>2 DEF Scan, ScanOnce
<1>3. CASE ~(scanAge >= ScanInterval)
  <2>1. UNCHANGED <<known, scanFailed, scanAge>>
    BY <1>3 DEF Scan
  <2>2. unknown' \in {0, unknown}
    BY <1>1 DEF KeepUnknown
  <2>3. ~scanFailed /\ unknown > 0 => unknown < Lag
    BY <1>3, ScanIntervalType, NumbersNat, BoundsType DEF Finding
  <2>4. unknown' \in Nat /\ unknown' <= unknown /\ (~scanFailed => unknown' < Lag)
    BY <2>2, <2>3, NumbersNat, BoundsType
  <2>5. ~scanFailed => (unknown' <= scanAge \/ scanAge = NoScan)
    BY <2>4, NumbersNat DEF Finding
  <2>6. Nap' = Nap
    BY <1>1 DEF Nap
  <2>7. ~scanFailed => unknown' < Lag + Nap
    BY <2>4, BoundsType
  <2>8. unknown' > 0 => unknown > 0
    BY <2>4, NumbersNat
  <2> QED
    BY <1>1, <2>1, <2>4, <2>5, <2>6, <2>7, <2>8 DEF Finding, AllAlive
<1> QED
  BY <1>2, <1>3

LEMMA FindingAbsent == Typed /\ Finding /\ Absent => Finding'
<1> SUFFICES ASSUME Typed, Finding, Absent PROVE Finding'
  OBVIOUS
<1> DEFINE rest == IF ScanInterval > scanAge THEN ScanInterval - scanAge ELSE 0
<1>1. /\ pc = "decide" /\ pc' = "parked" /\ wait' = Smaller(Larger(1, rest), AbsentWait) /\ known = {}
      /\ UNCHANGED <<procs, known, scanFailed, scanAge, panics, unknown>>
  BY DEF Absent, Park, hookVars, scanVars, tickVars, historyVars
<1>2. ScanInterval \in Nat /\ ScanInterval <= Lag /\ ScanInterval <= NoScan
  BY <1>1, ScanIntervalType DEF AllAlive
<1>3. rest \in Nat
  BY <1>2, NumbersNat
<1>4. wait' \in Nat /\ wait' <= Larger(1, rest)
  BY <1>1, <1>3, ConstantsType DEF Smaller, Larger
<1>5. ~scanFailed => unknown + Larger(1, rest) <= Lag
  <2> SUFFICES ASSUME ~scanFailed PROVE unknown + Larger(1, rest) <= Lag
    OBVIOUS
  <2>1. unknown < Lag
    BY <1>1 DEF Finding
  <2>2. CASE ScanInterval > scanAge
    <3>1. unknown <= scanAge
      BY <1>2, <2>2, NumbersNat, BoundsType DEF Finding
    <3>2. rest = ScanInterval - scanAge
      BY <2>2
    <3> QED
      BY <1>2, <2>1, <2>2, <3>1, <3>2, NumbersNat, BoundsType DEF Larger
  <2>3. CASE ~(ScanInterval > scanAge)
    <3>1. Larger(1, rest) = 1
      BY <2>3 DEF Larger
    <3> QED
      BY <2>1, <3>1, NumbersNat, BoundsType
  <2> QED
    BY <2>2, <2>3
<1>6. Nap' = Nap /\ Nap >= 1
  BY <1>1, BoundsType, ConstantsType DEF Nap
<1>7. ~scanFailed => unknown + wait' < Lag + Nap'
  <2>1. Larger(1, rest) \in Nat
    BY <1>3 DEF Larger
  <2> QED
    BY <1>4, <1>5, <1>6, <2>1, NumbersNat, BoundsType
<1> QED
  BY <1>1, <1>6, <1>7, FindingSleeps, BoundsType

LEMMA FindingWait == Typed /\ Finding /\ WaitForDue => Finding'
<1> SUFFICES ASSUME Typed, Finding, WaitForDue PROVE Finding'
  OBVIOUS
<1>1. /\ pc = "decide" /\ pc' = "parked" /\ wait' = Sleep /\ NotDue
      /\ UNCHANGED <<procs, known, scanFailed, scanAge, panics, unknown>>
  BY DEF WaitForDue, Park, hookVars, scanVars, tickVars, historyVars
<1>2. Nap' = Nap /\ Nap >= 1
  BY <1>1, BoundsType, ConstantsType DEF Nap
<1>3. Sleep \in Nat /\ Sleep <= Nap
  BY <1>1, SleepType, BoundsType
<1>4. ~scanFailed => unknown + wait' < Lag + Nap'
  BY <1>1, <1>2, <1>3, NumbersNat, BoundsType DEF Finding
<1> QED
  BY <1>1, <1>2, <1>4, FindingSleeps, BoundsType

LEMMA FindingReconcile == Typed /\ Finding /\ Reconcile => Finding'
<1> SUFFICES ASSUME Typed, Finding, Reconcile PROVE Finding'
  OBVIOUS
<1>1. /\ pc = "decide" /\ pc' \in {"top", "parked"}
      /\ UNCHANGED <<procs, known, scanFailed, scanAge, unknown>>
      /\ pc' = "parked" => (panics' >= PanicLimit /\ wait' = PanicPause) \/ wait' = Burst
  BY DEF Reconcile, Park, scanVars
<1>2. Nap' \in Nat /\ Nap' >= 1 /\ Burst <= Nap' /\ (panics' >= PanicLimit => PanicPause <= Nap')
  BY BoundsType, ConstantsType DEF Nap, Larger
<1>3. pc' = "parked" => wait' \in Nat /\ wait' <= Nap'
  BY <1>1, <1>2, ConstantsType
<1>4. pc' = "parked" /\ ~scanFailed => unknown + wait' < Lag + Nap'
  BY <1>1, <1>2, <1>3, NumbersNat, BoundsType DEF Finding
<1> QED
  BY <1>1, <1>2, <1>4, FindingSleeps

LEMMA FindingWake == Typed /\ Finding /\ WakeUp => Finding'
<1> SUFFICES ASSUME Typed, Finding, WakeUp PROVE Finding'
  OBVIOUS
<1>1. pc' = "top" /\ UNCHANGED <<procs, known, scanFailed, scanAge, panics, unknown>>
  BY DEF WakeUp, scanVars, tickVars
<1> QED
  BY <1>1 DEF Finding, AllAlive, Nap

LEMMA FindingTime == Typed /\ Finding /\ TimePasses => Finding'
<1> SUFFICES ASSUME Typed, Finding, TimePasses PROVE Finding'
  OBVIOUS
<1>1. /\ pc = "parked" /\ wait' = wait - 1 /\ wait # 0 /\ scanAge' = Older(scanAge, NoScan)
      /\ UNCHANGED <<procs, known, pc, was, scanFailed, panics>>
  BY DEF TimePasses, Awake, hookVars
<1>2. Nap' = Nap /\ (AllAlive' <=> AllAlive)
  BY <1>1 DEF Nap, AllAlive
<1>3. scanAge' = NoScan \/ scanAge' = scanAge + 1
  BY <1>1 DEF Older, Smaller
<1>4. scanAge = NoScan => scanAge' = NoScan
  BY <1>1, BoundsType DEF Older, Smaller
<1>5. CASE was # "off" /\ ~(procs \subseteq known) /\ (known = {} \/ ~(known \subseteq procs))
  <2>1. unknown' \in Nat /\ unknown' <= unknown + 1
    <3>1. unknown' = Smaller(unknown + 1, AgeCap)
      BY <1>5 DEF TimePasses, Count, Older
    <3> QED
      BY <3>1, NumbersNat, BoundsType DEF Smaller
  <2>2. ~AllAlive
    BY <1>5 DEF AllAlive
  <2>3. ~scanFailed => unknown' <= scanAge' \/ scanAge' = NoScan
    BY <1>3, <1>4, <2>1, NumbersNat DEF Finding
  <2>4. ~scanFailed => unknown' + wait' < Lag + Nap /\ unknown' < Lag + Nap
    <3> SUFFICES ASSUME ~scanFailed PROVE unknown' + wait' < Lag + Nap /\ unknown' < Lag + Nap
      OBVIOUS
    <3>1. unknown + wait < Lag + Nap
      BY <1>1, <1>5 DEF Finding
    <3> QED
      BY <1>1, <2>1, <3>1, NumbersNat, BoundsType
  <2> QED
    BY <1>1, <1>2, <2>2, <2>3, <2>4 DEF Finding
<1>6. CASE ~(was # "off" /\ ~(procs \subseteq known) /\ (known = {} \/ ~(known \subseteq procs)))
  <2>1. unknown' = unknown
    BY <1>6 DEF TimePasses, Count
  <2>2. ~scanFailed => unknown <= scanAge' \/ scanAge' = NoScan
    BY <1>3, <1>4, NumbersNat DEF Finding
  <2>3. ~scanFailed /\ was # "off" => unknown + wait' < Lag + Nap
    BY <1>1, NumbersNat, BoundsType DEF Finding
  <2> QED
    BY <1>1, <1>2, <2>1, <2>2, <2>3 DEF Finding
<1> QED
  BY <1>5, <1>6

LEMMA FindingKakao == Typed /\ Finding /\ KakaoStep => Finding'
<1> SUFFICES ASSUME Typed, Finding, KakaoStep PROVE Finding'
  OBVIOUS
<1>1. /\ UNCHANGED <<known, pc, wait, was, scanFailed, scanAge, panics>> /\ KeepUnknown
      /\ \/ procs' \subseteq procs
         \/ \E p \in Pid : p \notin known /\ procs' = procs \cup {p}
  BY DEF KakaoStep, Launch, Quit, ChangeWindow, Tell, restOfKakao, scanVars, tickVars
<1>2. Nap' = Nap
  BY <1>1 DEF Nap
<1>3. CASE procs' \subseteq known
  <2>1. unknown' = 0
    BY <1>1, <1>3 DEF KeepUnknown
  <2>2. unknown' <= unknown /\ unknown' \in Nat
    BY <2>1, NumbersNat
  <2>3. ~scanFailed => (unknown' <= scanAge /\ unknown' < Lag /\ unknown' < Lag + Nap)
    BY <2>1, NumbersNat, BoundsType
  <2>4. ~scanFailed /\ pc = "parked" /\ was # "off" => unknown' + wait < Lag + Nap
    BY <2>2, NumbersNat, BoundsType DEF Finding
  <2>5. ~(unknown' > 0)
    BY <2>1
  <2> QED
    BY <1>1, <1>2, <2>3, <2>4, <2>5 DEF Finding
<1>4. CASE ~(procs' \subseteq known)
  <2>1. unknown' = unknown
    BY <1>1, <1>4 DEF KeepUnknown
  <2>2. ~AllAlive => ~AllAlive'
    BY <1>1 DEF AllAlive
  <2> QED
    BY <1>1, <1>2, <2>1, <2>2 DEF Finding
<1> QED
  BY <1>3, <1>4

LEMMA FindingStep == Typed /\ Finding /\ [Next]_vars => Finding'
<1> SUFFICES ASSUME Typed, Finding, [Next]_vars PROVE Finding'
  OBVIOUS
<1>1. CASE Hook
  BY <1>1, FindingKept DEF Hook, scanVars, tickVars
<1>2. CASE DrainEvents
  BY <1>2, FindingKept DEF DrainEvents, scanVars, tickVars, historyVars
<1>3. CASE Command \/ NotifyControl
  BY <1>3, FindingKept DEF Command, NotifyControl, restOfTray, scanVars, tickVars, historyVars
<1>4. CASE UNCHANGED vars
  BY <1>4, FindingKept DEF vars, hookVars, scanVars, tickVars, historyVars
<1> QED
  BY <1>1, <1>2, <1>3, <1>4, FindingTop, FindingScan, FindingAbsent, FindingWait, FindingReconcile,
     FindingWake, FindingTime, FindingKakao DEF Next, Worker

LEMMA FindingInit == Init => Finding
<1> SUFFICES ASSUME Init PROVE Finding
  OBVIOUS
<1>1. unknown = 0 /\ pc = "top" /\ scanAge = NoScan
  BY DEF Init
<1>2. 0 < Lag + Nap /\ ~(0 > 0)
  BY BoundsType
<1> QED
  BY <1>1, <1>2 DEF Finding

\* While scans succeed, a KakaoTalk that is started while none ran or after one that was
\* known has ended is found within the interval of an absent KakaoTalk and one sleep
\* (pid_scan_interval, run_worker).
THEOREM KakaoTalkIsFoundInTime == Spec => []FoundInTime
<1>1. Finding => FoundInTime
  BY DEF Finding, FoundInTime, Lag
<1> QED
  BY <1>1, TypedInit, TypedStep, FindingInit, FindingStep, PTL DEF Spec
=============================================================================
