--------------------------- MODULE RestoreEngine ---------------------------
(***************************************************************************)
(* The engine worker of kakao-app: one thread that looks for KakaoTalk's   *)
(* advertisement windows, hides, empties or closes them, and must be able  *)
(* to bring every one of them back.  One action per phase step; every      *)
(* Win32 call that touches a window is a step of its own, taken after the  *)
(* check that guards it, so KakaoTalk and the tray can act in between.     *)
(*                                                                         *)
(* Times are abstracted: a wait ends early or by its timeout, a retry      *)
(* delay has either elapsed or not.  What the evaluation decides is        *)
(* KakaoTalk's `ad`, seen through the graph that one tick builds.          *)
(***************************************************************************)
EXTENDS KakaoTalk

CONSTANTS
    RestoreMissThreshold,         \* RESTORE_MISS_THRESHOLD, 2 in the code
    RestoreMaxAttempts,           \* RESTORE_MAX_ATTEMPTS, 5 in the code
    RestoreGiveupCooldownTicks,   \* RESTORE_GIVEUP_COOLDOWN_TICKS, 300 in the code
    TrayMoves                     \* bound: how many tray commands are given

ASSUME ThresholdAssumption == RestoreMissThreshold \in Nat \ {0}
ASSUME AttemptsAssumption  == RestoreMaxAttempts \in Nat \ {0}
ASSUME GiveupAssumption    == RestoreGiveupCooldownTicks \in Nat \ {0}
ASSUME TrayAssumption == TrayMoves \in Nat

VARIABLES
    \* SharedFlags
    enabled, stopping, resetReq,
    gauge,        \* restore_failures
    commands,     \* tray commands given so far
    \* locals of run_worker and of tick
    pc,
    wasEnabled,   \* the switch as the previous round read it
    cached,       \* cached_pids
    offArmed,     \* OffRestore.next lies in the future
    graph,        \* graph[h]: the process of h when the graph was built, NoPid if absent
    flatSeen,     \* windows with an empty rectangle in the graph
    plan,         \* evaluation.actions
    todo,         \* windows the current apply phase has not reached
    pend,         \* identities the current restore pass has not reached
    cur,          \* the identity a Win32 call in progress is about
    ctx,          \* who started the running drain
    \* EngineCaches
    snaps,        \* keys of the snapshot map
    wasVisible,   \* those whose was_visible is set
    hadSize,      \* those whose rect is not empty
    miss, attempts, cooldown,   \* StaleState, 0 where the map has no entry
    \* history
    hid, flat,    \* windows the worker hid, emptied, and nobody showed, resized since
    settled,      \* windows a restore reported done and no call with a snapshot suppressed since
    uncaptured,   \* windows hidden by the worker without a snapshot
    late,         \* suppressing calls since the switch went off or stop was requested
    unmatched     \* unmatched[i]: evaluations in a row that did not match i

flagVars  == <<enabled, stopping, resetReq, commands>>
loopVars  == <<wasEnabled, cached, offArmed>>
tickVars  == <<graph, flatSeen, plan>>
passVars  == <<todo, pend, cur, ctx>>
snapVars  == <<snaps, wasVisible, hadSize>>
staleVars == <<miss, attempts, cooldown>>
ghostVars == <<hid, flat, settled, uncaptured, late, unmatched>>
engineVars == <<flagVars, gauge, pc, loopVars, tickVars, passVars, snapVars, staleVars, ghostVars>>
vars == <<kakaoVars, engineVars>>

Nobody  == <<NoWindow, NoPid>>
NoPlan  == [hide |-> {}, zero |-> {}, close |-> {}]
NoGraph == [h \in Window |-> NoPid]
Zero    == [i \in Identity |-> 0]
Matched == {<<h, graph[h]>> : h \in {w \in plan.hide \cup plan.zero \cup plan.close : graph[w] # NoPid}}

Restoring == pc \in {"drainCall", "staleCall"}
\* Identities the worker still has the snapshot of: in the map, in the list a
\* drain took out of it, or in the hands of the restore in progress.
Recorded == snaps \cup pend \cup (IF Restoring THEN {cur} ELSE {})

----------------------------------------------------------------------------
(* Restore order: top-level windows first, then by handle.  The final      *)
(* drain takes windows that never failed before the ones that did.         *)

IsChild(i) == Parent[i[1]] # NoWindow
TreeOrder(i, j) ==
    \/ ~IsChild(i) /\ IsChild(j)
    \/ (IsChild(i) <=> IsChild(j)) /\ i[1] <= j[1]

\* Mutant: the final drain does not look at earlier failures.
FinalOrderUnsorted(i, j) == TreeOrder(i, j)

FinalOrder(i, j) ==
    \/ attempts[i] = 0 /\ attempts[j] > 0
    \/ (attempts[i] = 0 <=> attempts[j] = 0) /\ TreeOrder(i, j)

IsNext(i) ==
    /\ i \in pend
    /\ \A j \in pend : IF ctx = "final" THEN FinalOrder(i, j) ELSE TreeOrder(i, j)

\* retry_cooldown_ticks: 1, 2, 4, 8, 16 ticks, then the long pause.
Backoff == <<1, 2, 4, 8, 16>>
RetryCooldown(n) ==
    IF n >= RestoreMaxAttempts THEN RestoreGiveupCooldownTicks
    ELSE Backoff[IF n < 5 THEN n ELSE 5]

\* Failed attempts are counted up to the point where the count stops to matter.
OneMore(n) == IF n < RestoreMaxAttempts THEN n + 1 ELSE RestoreMaxAttempts

\* Windows whose last restore failed.
Stuck == {i \in Identity : attempts[i] > 0}

\* Mutant: a window whose next attempt is due does not count.
CountCooling == Cardinality({i \in Identity : cooldown[i] > 0})

\* restore_failure_count, what report_restore is given.
RestoreFailureCount == Cardinality(Stuck)

DropStale(S) ==
    /\ miss' = [i \in Identity |-> IF i \in S THEN 0 ELSE miss[i]]
    /\ attempts' = [i \in Identity |-> IF i \in S THEN 0 ELSE attempts[i]]
    /\ cooldown' = [i \in Identity |-> IF i \in S THEN 0 ELSE cooldown[i]]

\* The locals of a tick, and of a restore pass, go out of scope.
EndTick == graph' = NoGraph /\ flatSeen' = {} /\ plan' = NoPlan /\ todo' = {}
EndPass == pend' = {} /\ cur' = Nobody /\ ctx' = "off"

----------------------------------------------------------------------------
(* History bookkeeping, the same for every step.                           *)

\* The worker has just hidden newHid and emptied newFlat.
Observe(newHid, newFlat) ==
    /\ hid' = ((hid \cup newHid) \ shown') \cap Live'
    /\ flat' = ((flat \cup newFlat) \ sized') \cap Live'

Quiet == Observe({}, {}) /\ settled' = settled \cap (hid' \cup flat')
                         /\ uncaptured' = uncaptured \cap hid' /\ UNCHANGED late

Late == IF enabled /\ ~stopping THEN late ELSE IF late < 2 THEN late + 1 ELSE 2

----------------------------------------------------------------------------
Init ==
    /\ KakaoInit
    /\ enabled \in BOOLEAN /\ stopping = FALSE /\ resetReq = FALSE /\ commands = 0
    /\ gauge = 0
    /\ pc = "top"
    /\ wasEnabled = enabled /\ cached = {} /\ offArmed = FALSE
    /\ graph = NoGraph /\ flatSeen = {} /\ plan = NoPlan
    /\ todo = {} /\ pend = {} /\ cur = Nobody /\ ctx = "off"
    /\ snaps = {} /\ wasVisible = {} /\ hadSize = {}
    /\ miss = Zero /\ attempts = Zero /\ cooldown = Zero
    /\ hid = {} /\ flat = {} /\ settled = {} /\ uncaptured = {}
    /\ late = 0 /\ unmatched = Zero

----------------------------------------------------------------------------
(* Tray thread.                                                            *)

Command == commands < TrayMoves /\ commands' = commands + 1

ToggleEnabled ==
    /\ Command
    /\ enabled' = ~enabled
    /\ late' = IF enabled' /\ ~stopping THEN 0 ELSE late
    /\ UNCHANGED <<kakaoVars, stopping, resetReq, gauge, pc, loopVars, tickVars, passVars,
                   snapVars, staleVars, hid, flat, settled, uncaptured, unmatched>>

ResetRestoreFailures ==
    /\ Command
    /\ resetReq' = TRUE
    /\ UNCHANGED <<kakaoVars, enabled, stopping, gauge, pc, loopVars, tickVars, passVars,
                   snapVars, staleVars, ghostVars>>

\* Exit from the tray, the end of the message loop or a staged update.
RequestStop ==
    /\ ~stopping
    /\ stopping' = TRUE
    /\ UNCHANGED <<kakaoVars, enabled, resetReq, commands, gauge, pc, loopVars, tickVars,
                   passVars, snapVars, staleVars, ghostVars>>

\* join_with_timeout gives up after three seconds and the process ends.  The
\* snapshots that are left stand for the windows nobody will bring back.
AbandonWorker ==
    /\ stopping /\ pc \notin {"done", "killed"}
    /\ pc' = "killed"
    /\ wasEnabled' = enabled /\ cached' = {} /\ offArmed' = FALSE
    /\ EndTick /\ EndPass
    /\ snaps' = Recorded
    /\ DropStale(Identity)
    /\ UNCHANGED <<kakaoVars, flagVars, gauge, wasVisible, hadSize, ghostVars>>

----------------------------------------------------------------------------
(* Head of the worker loop.                                                *)

\* Mutant: the delay of the next attempt survives the reset.
ClearKeepsCooldown == attempts' = Zero /\ UNCHANGED <<miss, cooldown>>

ClearRestoreFailures ==
    /\ attempts' = Zero
    /\ cooldown' = Zero
    /\ UNCHANGED miss

LoopTop ==
    /\ pc = "top" /\ ~stopping
    /\ resetReq' = FALSE
    /\ IF resetReq THEN ClearRestoreFailures ELSE UNCHANGED staleVars
    /\ offArmed' = (offArmed /\ ~resetReq /\ (enabled <=> wasEnabled))
    /\ wasEnabled' = enabled
    /\ pc' = IF enabled THEN "scan" ELSE "off"
    /\ UNCHANGED <<kakaoVars, enabled, stopping, commands, gauge, cached, tickVars, passVars,
                   snapVars, ghostVars>>

\* Look for KakaoTalk's processes.  The known ones are kept when no scan is due
\* or the scan fails; a reconciliation is due or not.
Scan ==
    /\ pc = "scan"
    /\ \/ cached' = {proc} \ {NoPid}
       \/ UNCHANGED cached
    /\ \/ cached' = {} /\ pc' = "absent"
       \/ cached' # {} /\ pc' \in {"build", "wait"}
    /\ UNCHANGED <<kakaoVars, flagVars, gauge, wasEnabled, offArmed, tickVars, passVars,
                   snapVars, staleVars, ghostVars>>

EndWait ==
    /\ pc = "wait" /\ pc' = "top"
    /\ UNCHANGED <<kakaoVars, flagVars, gauge, wasEnabled, cached, tickVars, passVars,
                   snapVars, staleVars, ghostVars>>

\* A notification, a posted message or a spurious return ends the wait early ...
EarlyWake == EndWait /\ UNCHANGED offArmed
\* Mutant: the delay is measured anew from every wake-up.
TimeoutWakeRearmed == EndWait /\ UNCHANGED offArmed

\* ... or the delay of the pending retry has passed.
TimeoutWake == EndWait /\ offArmed' = FALSE

----------------------------------------------------------------------------
(* restore_snapshot and the passes that call it.                           *)

\* SetWindowPos and ShowWindow of restore_snapshot on cur; `done` is its result.
\* A window that does not answer blocks the calls; one that refuses, or is gone,
\* carries out at most one of the two.
RestoreWindow(done) ==
    LET h == cur[1]
        setsPos == cur \in hadSize
        shows   == cur \in wasVisible
    IN  /\ h \notin hung
        /\ \E posOk, showOk \in BOOLEAN :
             /\ IdentityMatches(cur) /\ h \notin refusing => posOk /\ showOk
             /\ h \in refusing => ~(posOk /\ showOk)
             /\ ~IdentityMatches(cur) => ~posOk /\ ~showOk
             /\ sized' = IF setsPos /\ posOk THEN sized \cup {h} ELSE sized
             /\ shown' = IF shows /\ showOk THEN shown \cup {h} ELSE shown
             /\ done <=> (setsPos => posOk) /\ (shows => h \in shown')
        /\ UNCHANGED <<proc, owner, ad, hung, refusing, moves, late, unmatched>>
        /\ Observe({}, {})
        /\ settled' = (IF done THEN settled \cup {h} ELSE settled) \cap (hid' \cup flat')
        /\ uncaptured' = uncaptured \cap hid'

\* Mutant: a failed restore forgets the snapshot.
PutBackNothing(done) ==
    /\ cur' = Nobody
    /\ UNCHANGED snaps
    /\ wasVisible' = wasVisible \ {cur}
    /\ hadSize' = hadSize \ {cur}

\* The snapshot of cur goes back into the map when the restore failed.
PutBack(done) ==
    /\ cur' = Nobody
    /\ snaps' = IF done THEN snaps ELSE snaps \cup {cur}
    /\ wasVisible' = IF done THEN wasVisible \ {cur} ELSE wasVisible
    /\ hadSize' = IF done THEN hadSize \ {cur} ELSE hadSize

DropSnapshots(S) ==
    /\ snaps' = snaps \ S
    /\ wasVisible' = wasVisible \ S
    /\ hadSize' = hadSize \ S

----------------------------------------------------------------------------
(* OFF, KakaoTalk absent, and stop: drain_restore_all, drain_restore_all_final. *)

StartDrain(who) ==
    /\ pend' = snaps
    /\ snaps' = {}
    /\ ctx' = who
    /\ pc' = "drain"

\* Mutant: nothing left to restore, but the count of failures is not taken back.
NoRetryKeepsGauge ==
    /\ snaps = {} \/ offArmed
    /\ offArmed' = (offArmed /\ snaps # {})
    /\ UNCHANGED gauge

\* OffRestore.retry when there is nothing to restore, or not yet.
NoRetry ==
    \/ snaps = {} /\ gauge' = 0 /\ offArmed' = FALSE
    \/ snaps # {} /\ offArmed /\ UNCHANGED <<gauge, offArmed>>

OffRetry ==
    /\ pc = "off"
    /\ \/ NoRetry /\ pc' = "wait" /\ UNCHANGED <<pend, ctx, snaps>>
       \/ snaps # {} /\ ~offArmed /\ StartDrain("off") /\ UNCHANGED <<gauge, offArmed>>
    /\ UNCHANGED <<kakaoVars, flagVars, wasEnabled, cached, tickVars, todo, cur,
                   wasVisible, hadSize, staleVars, ghostVars>>

\* KakaoTalk is not running: the same retry, then clear_transient.
AbsentRetry ==
    /\ pc = "absent"
    /\ \/ NoRetry /\ pc' = "wait" /\ DropStale(Identity) /\ UNCHANGED <<pend, ctx, snaps>>
       \/ snaps # {} /\ ~offArmed /\ StartDrain("absent") /\ UNCHANGED <<gauge, offArmed, staleVars>>
    /\ UNCHANGED <<kakaoVars, flagVars, wasEnabled, cached, tickVars, todo, cur,
                   wasVisible, hadSize, ghostVars>>

\* Mutant: only a worker that is switched on looks at the stop request.
LeaveLoopWhenOn ==
    /\ pc = "top" /\ stopping /\ enabled
    /\ StartDrain("final")
    /\ UNCHANGED <<kakaoVars, flagVars, gauge, loopVars, tickVars, todo, cur, wasVisible, hadSize,
                   staleVars, ghostVars>>

LeaveLoop ==
    /\ pc = "top" /\ stopping
    /\ StartDrain("final")
    /\ UNCHANGED <<kakaoVars, flagVars, gauge, loopVars, tickVars, todo, cur, wasVisible, hadSize,
                   staleVars, ghostVars>>

\* restore_pending, one snapshot: forget it, postpone it, or go on to the calls.
DrainCheck(i) ==
    /\ pc = "drain" /\ IsNext(i)
    /\ pend' = pend \ {i}
    /\ \/ /\ ~IdentityMatches(i)
          /\ wasVisible' = wasVisible \ {i} /\ hadSize' = hadSize \ {i}
          /\ UNCHANGED <<pc, snaps, cur>>
       \/ /\ IdentityMatches(i) /\ i[1] \in hung
          /\ snaps' = snaps \cup {i}
          /\ UNCHANGED <<pc, wasVisible, hadSize, cur>>
       \/ /\ IdentityMatches(i) /\ i[1] \notin hung
          /\ cur' = i /\ pc' = "drainCall"
          /\ UNCHANGED snapVars
    /\ UNCHANGED <<kakaoVars, flagVars, gauge, loopVars, tickVars, todo, ctx, staleVars, ghostVars>>

DrainCall ==
    /\ pc = "drainCall" /\ pc' = "drain"
    /\ \E done \in BOOLEAN : RestoreWindow(done) /\ PutBack(done)
    /\ UNCHANGED <<flagVars, gauge, loopVars, tickVars, todo, pend, ctx, staleVars>>

\* The failures are what is back in the map; bookkeeping of the others is dropped.
DrainDone ==
    /\ pc = "drain" /\ pend = {}
    /\ gauge' = Cardinality(snaps)
    /\ offArmed' = IF ctx = "final" THEN offArmed ELSE snaps # {}
    /\ DropStale(IF ctx = "absent" THEN Identity ELSE Identity \ snaps)
    /\ pc' = IF ctx = "final" THEN "done" ELSE "wait"
    /\ EndPass
    /\ UNCHANGED <<kakaoVars, flagVars, wasEnabled, cached, tickVars, todo, snapVars, ghostVars>>

----------------------------------------------------------------------------
(* One reconciliation: build_graph, evaluate, apply_evaluation.            *)

\* apply_once: what each kind of advertisement window gets.  Popups are closed
\* only while they are visible and are kept down otherwise.
PlanFor(seen) ==
    [hide  |-> {h \in seen : AdKind[h] \in {"banner", "popup"}},
     zero  |-> {h \in seen : AdKind[h] = "popup"},
     close |-> {h \in seen : AdKind[h] = "eva" \/ (AdKind[h] = "popup" /\ IsWindowVisible(h))}]

Tick ==
    LET seen == {h \in Live : owner[h] \in cached}
        tick == PlanFor(seen \cap ad)
        hits == {<<h, owner[h]>> : h \in tick.hide \cup tick.zero \cup tick.close}
        gone == Identity \ ({<<h, owner[h]>> : h \in seen} \cup snaps)
    IN  /\ pc = "build"
        /\ DropStale(gone) \/ UNCHANGED staleVars     \* the cache cleanup is due or not
        /\ \/ /\ enabled /\ pc' = "apply"
              /\ graph' = [h \in Window |-> IF h \in seen THEN owner[h] ELSE NoPid]
              /\ flatSeen' = seen \ sized
              /\ plan' = tick
              /\ unmatched' = [i \in Identity |-> IF i \in hits \/ i \notin snaps THEN 0
                                  ELSE IF unmatched[i] < RestoreMissThreshold
                                       THEN unmatched[i] + 1 ELSE RestoreMissThreshold]
           \/ /\ ~enabled /\ pc' = "wait"
              /\ UNCHANGED <<tickVars, unmatched>>
        /\ UNCHANGED <<kakaoVars, flagVars, gauge, loopVars, passVars, snapVars, hid, flat,
                       settled, uncaptured, late>>

\* Mutant: the switch and the stop request are read once, at the head of the pass.
PrecheckWithoutFlags(h) ==
    /\ graph[h] \in cached
    /\ IdentityMatches(<<h, graph[h]>>)
    /\ h \notin hung

\* The check in front of every capture and every call of apply_evaluation.
Precheck(h) ==
    /\ ~stopping /\ enabled
    /\ graph[h] \in cached
    /\ IdentityMatches(<<h, graph[h]>>)
    /\ h \notin hung

\* Mutant: every pass takes the snapshot anew.
RememberLatest(h) ==
    LET i == <<h, graph[h]>>
    IN  /\ snaps' = snaps \cup {i}
        /\ wasVisible' = IF h \in shown THEN wasVisible \cup {i} ELSE wasVisible \ {i}
        /\ hadSize' = IF h \in sized THEN hadSize \cup {i} ELSE hadSize \ {i}

\* remember_snapshot: the first snapshot of an identity is the one that is kept.
Remember(h) ==
    LET i == <<h, graph[h]>>
    IN  IF i \in snaps THEN UNCHANGED snapVars
        ELSE /\ snaps' = snaps \cup {i}
             /\ wasVisible' = IF h \in shown THEN wasVisible \cup {i} ELSE wasVisible
             /\ hadSize' = IF h \in sized THEN hadSize \cup {i} ELSE hadSize

BeginApply ==
    /\ pc = "apply"
    /\ \/ (stopping \/ ~enabled) /\ pc' = "restore" /\ UNCHANGED todo
       \/ ~stopping /\ enabled /\ pc' = "capture" /\ todo' = plan.hide \cup plan.zero
    /\ UNCHANGED <<kakaoVars, flagVars, gauge, loopVars, tickVars, pend, cur, ctx, snapVars,
                   staleVars, ghostVars>>

Capture(h) ==
    /\ pc = "capture" /\ h \in todo
    /\ todo' = todo \ {h}
    /\ IF Precheck(h) THEN Remember(h) ELSE UNCHANGED snapVars
    /\ UNCHANGED <<kakaoVars, flagVars, gauge, pc, loopVars, tickVars, pend, cur, ctx,
                   staleVars, ghostVars>>

HideCheck(h) ==
    /\ pc = "hide" /\ h \in todo
    /\ todo' = todo \ {h}
    /\ IF Precheck(h) /\ h \in shown
       THEN cur' = <<h, graph[h]>> /\ pc' = "hideCall"
       ELSE UNCHANGED <<cur, pc>>
    /\ UNCHANGED <<kakaoVars, flagVars, gauge, loopVars, tickVars, pend, ctx, snapVars,
                   staleVars, ghostVars>>

\* The zero-size pass remembers the window itself, whatever the capture pass did.
ZeroCheck(h) ==
    /\ pc = "zero" /\ h \in todo
    /\ todo' = todo \ {h}
    /\ IF Precheck(h) /\ h \notin flatSeen
       THEN Remember(h) /\ cur' = <<h, graph[h]>> /\ pc' = "zeroCall"
       ELSE UNCHANGED <<snapVars, cur, pc>>
    /\ UNCHANGED <<kakaoVars, flagVars, gauge, loopVars, tickVars, pend, ctx, staleVars, ghostVars>>

\* The time budget of the close pass may run out before any of its windows.
CloseCheck(h) ==
    /\ pc = "close" /\ h \in todo
    /\ IF Precheck(h)
       THEN \/ todo' = todo \ {h} /\ cur' = <<h, graph[h]>> /\ pc' = "closeCall"
            \/ todo' = {} /\ UNCHANGED <<cur, pc>>
       ELSE todo' = todo \ {h} /\ UNCHANGED <<cur, pc>>
    /\ UNCHANGED <<kakaoVars, flagVars, gauge, loopVars, tickVars, pend, ctx, snapVars,
                   staleVars, ghostVars>>

\* ShowWindow(SW_HIDE) and SetWindowPos(0, 0, 0, 0) on cur.
Suppress(newHid, newFlat) ==
    LET h == cur[1]
        works == IdentityMatches(cur) /\ h \notin refusing
        hides == IF works THEN newHid \cap shown ELSE {}
        flattens == IF works THEN newFlat \cap sized ELSE {}
    IN  /\ h \notin hung
        /\ shown' = shown \ hides
        /\ sized' = sized \ flattens
        /\ UNCHANGED <<proc, owner, ad, hung, refusing, moves, unmatched>>
        /\ Observe(hides, flattens)
        /\ settled' = (IF cur \in snaps THEN settled \ (hides \cup flattens) ELSE settled)
                        \cap (hid' \cup flat')
        /\ uncaptured' = (IF cur \in snaps THEN uncaptured ELSE uncaptured \cup hides) \cap hid'
        /\ late' = Late
        /\ cur' = Nobody

HideCall ==
    /\ pc = "hideCall" /\ pc' = "hide"
    /\ Suppress({cur[1]}, {})
    /\ UNCHANGED <<flagVars, gauge, loopVars, tickVars, todo, pend, ctx, snapVars, staleVars>>

ZeroCall ==
    /\ pc = "zeroCall" /\ pc' = "zero"
    /\ Suppress({}, {cur[1]})
    /\ UNCHANGED <<flagVars, gauge, loopVars, tickVars, todo, pend, ctx, snapVars, staleVars>>

\* WM_CLOSE is a request: the window, with its children, goes or stays.
CloseCall ==
    /\ pc = "closeCall" /\ pc' = "close"
    /\ \/ IdentityMatches(cur) /\ cur[1] \notin hung /\ Vanish(Subtree(cur[1]))
       \/ UNCHANGED <<owner, shown, sized, ad, hung, refusing>>
    /\ UNCHANGED <<proc, moves>>
    /\ Observe({}, {}) /\ settled' = settled \cap (hid' \cup flat')
    /\ uncaptured' = uncaptured \cap hid'
    /\ late' = Late /\ cur' = Nobody
    /\ UNCHANGED <<flagVars, gauge, loopVars, tickVars, todo, pend, ctx, snapVars, staleVars, unmatched>>

\* A phase has gone through its list.  The close phase ends by dropping the
\* snapshots of windows that no longer match.
NextPhase ==
    /\ todo = {}
    /\ \/ pc = "capture" /\ pc' = "hide" /\ todo' = plan.hide /\ UNCHANGED snapVars
       \/ pc = "hide" /\ pc' = "zero" /\ todo' = plan.zero /\ UNCHANGED snapVars
       \/ pc = "zero" /\ pc' = "close" /\ todo' = plan.close /\ UNCHANGED snapVars
       \/ /\ pc = "close" /\ pc' = "restore" /\ UNCHANGED todo
          /\ IF plan.close = {} THEN UNCHANGED snapVars
             ELSE DropSnapshots({i \in snaps : ~IdentityMatches(i)})
    /\ UNCHANGED <<kakaoVars, flagVars, gauge, loopVars, tickVars, pend, cur, ctx, staleVars, ghostVars>>

----------------------------------------------------------------------------
(* restore_stale_hidden: bring back what no longer looks like an ad.       *)

BeginStale ==
    /\ pc = "restore"
    /\ \/ snaps = {} /\ pc' = "wait" /\ EndTick /\ UNCHANGED <<pend, ctx>>
       \/ snaps # {} /\ pc' = "stale" /\ pend' = snaps /\ ctx' = "stale" /\ UNCHANGED <<tickVars, todo>>
    /\ UNCHANGED <<kakaoVars, flagVars, gauge, loopVars, cur, snapVars, staleVars, ghostVars>>

\* Mutant: one evaluation without a match is enough ...
MissesAtOnce(n) == RestoreMissThreshold
\* ... or the streak wraps around before it is long enough.
MissesWrap(n) == (n + 1) % RestoreMissThreshold

Misses(n) == IF n < RestoreMissThreshold THEN n + 1 ELSE RestoreMissThreshold

StaleCheck(i) ==
    /\ pc = "stale" /\ IsNext(i)
    /\ pend' = pend \ {i}
    /\ \/ /\ i \in Matched
          /\ DropStale({i}) /\ UNCHANGED <<pc, cur, snapVars>>
       \/ /\ i \notin Matched /\ Misses(miss[i]) < RestoreMissThreshold
          /\ miss' = [miss EXCEPT ![i] = Misses(@)]
          /\ UNCHANGED <<pc, cur, snapVars, attempts, cooldown>>
       \/ /\ i \notin Matched /\ Misses(miss[i]) = RestoreMissThreshold /\ cooldown[i] > 0
          /\ miss' = [miss EXCEPT ![i] = Misses(@)]
          /\ cooldown' = [cooldown EXCEPT ![i] = @ - 1]
          /\ UNCHANGED <<pc, cur, snapVars, attempts>>
       \/ /\ i \notin Matched /\ Misses(miss[i]) = RestoreMissThreshold /\ cooldown[i] = 0
          /\ \/ /\ ~IdentityMatches(i)
                /\ DropStale({i}) /\ DropSnapshots({i}) /\ UNCHANGED <<pc, cur>>
             \/ /\ IdentityMatches(i) /\ i[1] \in hung
                /\ miss' = [miss EXCEPT ![i] = Misses(@)]
                /\ attempts' = [attempts EXCEPT ![i] = OneMore(@)]
                /\ cooldown' = [cooldown EXCEPT ![i] = RetryCooldown(OneMore(attempts[i]))]
                /\ UNCHANGED <<pc, cur, snapVars>>
             \/ /\ IdentityMatches(i) /\ i[1] \notin hung
                /\ miss' = [miss EXCEPT ![i] = Misses(@)]
                /\ cur' = i /\ snaps' = snaps \ {i} /\ pc' = "staleCall"
                /\ UNCHANGED <<attempts, cooldown, wasVisible, hadSize>>
    /\ UNCHANGED <<kakaoVars, flagVars, gauge, loopVars, tickVars, todo, ctx, ghostVars>>

StaleCall ==
    /\ pc = "staleCall" /\ pc' = "stale"
    /\ \E done \in BOOLEAN :
         /\ RestoreWindow(done) /\ PutBack(done)
         /\ IF done THEN DropStale({cur})
            ELSE /\ attempts' = [attempts EXCEPT ![cur] = OneMore(@)]
                 /\ cooldown' = [cooldown EXCEPT ![cur] = RetryCooldown(OneMore(attempts[cur]))]
                 /\ UNCHANGED miss
    /\ UNCHANGED <<flagVars, gauge, loopVars, tickVars, todo, pend, ctx>>

StaleDone ==
    /\ pc = "stale" /\ pend = {}
    /\ gauge' = RestoreFailureCount
    /\ pc' = "wait" /\ EndTick /\ EndPass
    /\ UNCHANGED <<kakaoVars, flagVars, loopVars, snapVars, staleVars, ghostVars>>

----------------------------------------------------------------------------
(* KakaoTalk's own steps.  A handle is not given out again while a call    *)
(* that was checked for it is in progress.                                 *)

KakaoStep ==
    /\ \/ \E p \in Pid : Launch(p)
       \/ Quit
       \/ \E h \in Window \ {cur[1]} : Create(h)
       \/ \E h \in Window : Destroy(h) \/ Show(h) \/ Hide(h) \/ Resize(h) \/ ChangeContent(h)
       \/ \E h \in Window : Hang(h) \/ Refuse(h)
    /\ Quiet
    /\ UNCHANGED <<flagVars, gauge, pc, loopVars, tickVars, passVars, snapVars, staleVars, unmatched>>

RecoverStep ==
    /\ \E h \in Window : Recover(h)
    /\ UNCHANGED engineVars

\* The process has ended.
Ended == pc \in {"done", "killed"} /\ UNCHANGED vars

Tray == ToggleEnabled \/ ResetRestoreFailures \/ RequestStop \/ AbandonWorker

Drain == \/ OffRetry \/ AbsentRetry \/ LeaveLoop
         \/ \E i \in Identity : DrainCheck(i)
         \/ DrainCall \/ DrainDone

Apply == \/ BeginApply
         \/ \E h \in Window : Capture(h) \/ HideCheck(h) \/ ZeroCheck(h) \/ CloseCheck(h)
         \/ HideCall \/ ZeroCall \/ CloseCall \/ NextPhase

Stale == BeginStale \/ (\E i \in Identity : StaleCheck(i)) \/ StaleCall \/ StaleDone

Worker == LoopTop \/ Scan \/ Drain \/ Tick \/ Apply \/ Stale

Next == Worker \/ EarlyWake \/ TimeoutWake \/ Tray \/ KakaoStep \/ RecoverStep \/ Ended

Spec == Init /\ [][Next]_vars

(* The worker runs until it waits or a window blocks it; every wait ends;  *)
(* deadlines are absolute, so a retry is due in the end however often the  *)
(* wait is cut short; scans succeed and reconciliations fall due again and *)
(* again.  Nothing is assumed of KakaoTalk and of the tray.                *)
Fairness ==
    /\ WF_vars(Worker)
    /\ SF_vars(TimeoutWake)
    /\ SF_vars(Scan /\ cached' = {proc} \ {NoPid} /\ pc' # "wait")

FairSpec == Spec /\ Fairness

----------------------------------------------------------------------------
(* Properties.                                                             *)

\* Windows the worker took from the screen and has not reported back.
Suppressed == ((hid \ uncaptured) \cup flat) \ settled

ControlTypeOK ==
    /\ enabled \in BOOLEAN /\ stopping \in BOOLEAN /\ resetReq \in BOOLEAN
    /\ commands \in 0 .. TrayMoves
    /\ gauge \in Nat
    /\ pc \in {"top", "scan", "off", "absent", "wait", "build", "apply", "capture", "hide",
              "hideCall", "zero", "zeroCall", "close", "closeCall", "restore", "stale",
              "staleCall", "drain", "drainCall", "done", "killed"}
    /\ wasEnabled \in BOOLEAN /\ cached \subseteq Pid /\ offArmed \in BOOLEAN
    /\ ctx \in {"off", "absent", "final", "stale"}

TickTypeOK ==
    /\ graph \in [Window -> Pid \cup {NoPid}]
    /\ flatSeen \subseteq Window
    /\ plan \in [hide : SUBSET Window, zero : SUBSET Window, close : SUBSET Window]
    /\ todo \subseteq Window

SnapTypeOK ==
    /\ snaps \subseteq Identity /\ pend \subseteq Identity
    /\ cur \in Identity \cup {Nobody}
    /\ wasVisible \subseteq Recorded /\ hadSize \subseteq Recorded

StaleTypeOK ==
    /\ miss \in [Identity -> 0 .. RestoreMissThreshold]
    /\ attempts \in [Identity -> 0 .. RestoreMaxAttempts]
    /\ cooldown \in [Identity -> Nat]
    /\ \A i \in Identity : cooldown[i] > 0 => attempts[i] > 0

HistoryTypeOK ==
    /\ hid \subseteq Live /\ flat \subseteq Live
    /\ settled \subseteq hid \cup flat
    /\ uncaptured \subseteq hid
    /\ late \in 0 .. 2
    /\ unmatched \in [Identity -> 0 .. RestoreMissThreshold]

\* Types; a snapshot's fields belong to a snapshot that is still held, and only a
\* window that failed to come back has a retry delay.
TypeOK == KakaoTypeOK /\ ControlTypeOK /\ TickTypeOK /\ SnapTypeOK /\ StaleTypeOK /\ HistoryTypeOK

\* No window is left suppressed without the snapshot that can bring it back,
\* whatever fails, hangs, disappears or changes between the steps of a pass
\* (restore.rs and apply.rs move snapshots between the map, a drained list and a
\* local variable).  Windows hidden without a snapshot are the subject of
\* HideNeedsSnapshot.
NothingOrphaned == \A h \in Suppressed : <<h, owner[h]>> \in Recorded

\* After the switch went off or the program was told to stop, at most the one call
\* that was already under way still suppresses a window (precheck, apply.rs).
LateSuppression == late <= 1

\* A window is brought back only after RESTORE_MISS_THRESHOLD evaluations in a row
\* that did not match it, so one uncertain evaluation makes no ad flicker.
NoFlicker == pc = "staleCall" => unmatched[cur] >= RestoreMissThreshold

\* When the drain at exit gets to a window that failed before, every other window
\* is back or has been tried: a join that times out there abandons no window that
\* could have come back at once (drain_restore_all_final, ISSUE-001).
HealthyFirst ==
    pc = "drainCall" /\ ctx = "final" /\ attempts[cur] > 0 =>
        \A h \in Suppressed : attempts[<<h, owner[h]>>] > 0 \/ <<h, owner[h]>> \in snaps

\* Between two rounds the failure count covers every window that is held in a
\* failed restore: a problem is never hidden from the status line.
GaugeCoversStuck == pc = "wait" => Cardinality(Stuck \cap snaps) <= gauge

\* After a round with the switch off the count is exact, and zero means that
\* nothing is suppressed any more (OffRestore.retry).
OffReportsTruth ==
    pc = "wait" /\ ~wasEnabled =>
        gauge = Cardinality(snaps) /\ (gauge = 0 => Suppressed = {})

Ledger == INSTANCE RestoreLedger WITH
    alive  <- {<<h, owner[h]>> : h \in Live},
    face   <- [i \in Identity |->
                 (IF IdentityMatches(i) /\ i[1] \in shown THEN {"shown"} ELSE {}) \cup
                 (IF IdentityMatches(i) /\ i[1] \in sized THEN {"sized"} ELSE {})],
    owed   <- Recorded,
    record <- [i \in Identity |-> (IF i \in wasVisible THEN {"shown"} ELSE {}) \cup
                                  (IF i \in hadSize THEN {"sized"} ELSE {})],
    down   <- {<<h, owner[h]>> : h \in Suppressed}

\* The worker keeps the ledger: a window is entered as it looked before it was
\* suppressed, the entry does not change, and it is closed only when the window
\* looks like that again or is gone.
ImplementsLedger == Ledger!Spec

\* Once the switch stays off and the windows answer, everything comes back
\* (OffRestore.retry backs off, but never gives up).
Obeying == hung = {} /\ refusing = {}
OffRestores == <>[](~enabled /\ ~stopping /\ Obeying) => <>[](snaps = {} /\ Suppressed = {})

\* A window that stops to look like an advertisement comes back while the engine
\* stays on, after any number of failed attempts.
VanishedAdRestored ==
    \A h \in Window :
        <>[](enabled /\ ~stopping /\ Obeying /\ h \in Live \ ad) => <>[](h \notin Suppressed)

\* A stop request ends the worker unless a window blocks it.
StopFinishes == stopping ~> (pc \in {"done", "killed"} \/ hung # {})

(* What the repository says and the code does not do.                      *)

\* "Gauge: windows currently stuck in a failed restore" (flags.rs): with no window
\* held any more the count is zero.
GaugeCountsHeldWindows == pc = "wait" /\ snaps = {} => gauge = 0

\* Switching off brings the hidden advertisements back (SOAK_TEST.md): when the
\* round reports no failure, no window is still as the worker left it.
OffBringsBack == pc = "wait" /\ ~wasEnabled /\ gauge = 0 => (hid \ uncaptured) \cup flat = {}

\* "Capture every affected window before hiding any ancestor" (apply.rs): no window
\* is hidden that could not be brought back.
HideNeedsSnapshot == uncaptured = {}

=============================================================================
