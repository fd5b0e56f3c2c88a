----------------------- MODULE RestoreEngineSafety -------------------------
(***************************************************************************)
(* What is proved about RestoreEngine for every number of windows,         *)
(* processes, attempts and steps: its types, its safety properties, that   *)
(* it implements RestoreLedger, and that a stop request is worked off step *)
(* by step.  Each property comes with the part of the inductive invariant  *)
(* that makes it go through a step; all parts rest on the types and on     *)
(* PassOK.                                                                 *)
(***************************************************************************)
EXTENDS RestoreEngine, FiniteSetTheorems, TLAPS

----------------------------------------------------------------------------
(* Types.                                                                  *)

(* Which identities a pass still holds, and what a call in progress is     *)
(* about.  TypeOK is inductive only together with this.                    *)
PassOK ==
    /\ pend # {} => pc \in {"drain", "drainCall", "stale", "staleCall"}
    /\ pc \in {"stale", "staleCall"} => pend \subseteq snaps
    /\ pc \in {"drainCall", "staleCall", "hideCall", "zeroCall", "closeCall"} => cur \in Identity
    /\ pc = "zeroCall" => cur \in snaps

----------------------------------------------------------------------------
(* Numbers the model computes.                                             *)

\* Sets of identities are finite.
LEMMA CountIsNat ==
    ASSUME NEW S \in SUBSET Identity
    PROVE  Cardinality(S) \in Nat
BY WindowAssumption, PidAssumption, FS_Product, FS_Subset, FS_CardinalityType DEF Identity

\* OneMore counts up to the maximum and is never zero.
LEMMA OneMoreType ==
    ASSUME NEW n \in 0 .. RestoreMaxAttempts
    PROVE  OneMore(n) \in 1 .. RestoreMaxAttempts
BY AttemptsAssumption DEF OneMore

\* Every number of attempts has a delay.
LEMMA RetryCooldownType ==
    ASSUME NEW n \in 1 .. RestoreMaxAttempts
    PROVE  RetryCooldown(n) \in Nat
BY GiveupAssumption, AttemptsAssumption DEF RetryCooldown, Backoff

\* Misses stays within its bound.
LEMMA MissesType ==
    ASSUME NEW n \in 0 .. RestoreMissThreshold
    PROVE  Misses(n) \in 0 .. RestoreMissThreshold
BY ThresholdAssumption DEF Misses

----------------------------------------------------------------------------
(* Every step preserves every part of TypeOK.                              *)

\* The two calls of restore_snapshot keep KakaoTalk's windows well typed.
LEMMA RestoreWindowTypes ==
    ASSUME TypeOK, cur \in Identity, NEW done, RestoreWindow(done)
    PROVE  KakaoTypeOK'
<1>1. IdentityMatches(cur) => cur[1] \in Live
  BY PidAssumption DEF IdentityMatches, Live, Identity, NoPid
<1>2. PICK posOk \in BOOLEAN, showOk \in BOOLEAN :
        /\ ~IdentityMatches(cur) => ~posOk /\ ~showOk
        /\ sized' = IF cur \in hadSize /\ posOk THEN sized \cup {cur[1]} ELSE sized
        /\ shown' = IF cur \in wasVisible /\ showOk THEN shown \cup {cur[1]} ELSE shown
  BY DEF RestoreWindow
<1>3. Live' = Live /\ UNCHANGED <<proc, owner, ad, hung, refusing, moves>>
  BY DEF RestoreWindow, Live
<1>4. QED
  BY <1>1, <1>2, <1>3 DEF TypeOK, KakaoTypeOK

\* KakaoTalk's windows.
LEMMA KakaoTypeStep ==
    ASSUME TypeOK, PassOK, Next
    PROVE  KakaoTypeOK'
<1> USE DEF KakaoTypeOK, kakaoVars, Live
<1>1. CASE DrainCall
    BY <1>1, RestoreWindowTypes DEF DrainCall, PassOK
<1>2. CASE StaleCall
    BY <1>2, RestoreWindowTypes DEF StaleCall, PassOK
<1>3. CASE HideCall
    BY <1>3 DEF TypeOK, HideCall, Suppress, flagVars, loopVars, tickVars, snapVars,
       staleVars, IdentityMatches, Observe, Late, Nobody, NoWindow, NoPid
<1>4. CASE ZeroCall
    BY <1>4 DEF TypeOK, ZeroCall, Suppress, flagVars, loopVars, tickVars, snapVars,
       staleVars, IdentityMatches, Observe, Late, Nobody, NoWindow, NoPid
<1>5. CASE CloseCall
  <2>1. CASE Vanish(Subtree(cur[1])) /\ UNCHANGED <<proc, moves>>
    BY <2>1 DEF Vanish, Subtree, TypeOK, NoPid
  <2>2. QED
    BY <1>5, <2>1 DEF CloseCall, TypeOK
<1>6. CASE KakaoStep
  <2>1. ASSUME NEW p \in Pid, Launch(p) PROVE KakaoTypeOK'
    BY <2>1, MovesAssumption DEF Launch, Move, TypeOK
  <2>2. CASE Quit
    BY <2>2, MovesAssumption DEF Quit, Move, Vanish, TypeOK, NoPid
  <2>3. ASSUME NEW h \in Window, Create(h) PROVE KakaoTypeOK'
    BY <2>3, MovesAssumption, PidAssumption DEF Create, Move, TypeOK, NoPid
  <2>4. ASSUME NEW h \in Window, Destroy(h) PROVE KakaoTypeOK'
    BY <2>4, MovesAssumption DEF Destroy, Move, Vanish, Subtree, TypeOK, NoPid
  <2>5. ASSUME NEW h \in Window, Show(h) \/ Hide(h) \/ Resize(h) \/ ChangeContent(h)
        PROVE KakaoTypeOK'
    BY <2>5, MovesAssumption DEF Show, Hide, Resize, ChangeContent, Move, TypeOK
  <2>6. ASSUME NEW h \in Window, Hang(h) \/ Refuse(h) PROVE KakaoTypeOK'
    BY <2>6, MovesAssumption DEF Hang, Refuse, Move, TypeOK
  <2>7. QED
    BY <1>6, <2>1, <2>2, <2>3, <2>4, <2>5, <2>6 DEF KakaoStep
<1>7. CASE RecoverStep
    BY <1>7 DEF TypeOK, RecoverStep, Recover, engineVars, flagVars, loopVars, tickVars,
       passVars, snapVars, staleVars, ghostVars
<1>8. CASE \/ ToggleEnabled \/ ResetRestoreFailures \/ RequestStop \/ AbandonWorker
         \/ LoopTop \/ Scan \/ EarlyWake \/ TimeoutWake \/ OffRetry \/ AbsentRetry
         \/ LeaveLoop \/ (\E i \in Identity : DrainCheck(i)) \/ DrainDone \/ Tick
         \/ BeginApply \/ (\E h \in Window : Capture(h))
         \/ (\E h \in Window : HideCheck(h)) \/ (\E h \in Window : ZeroCheck(h))
         \/ (\E h \in Window : CloseCheck(h)) \/ NextPhase \/ BeginStale
         \/ (\E i \in Identity : StaleCheck(i)) \/ StaleDone \/ Ended
    BY <1>8 DEF TypeOK, ToggleEnabled, loopVars, tickVars, passVars, snapVars, staleVars,
       ResetRestoreFailures, ghostVars, RequestStop, AbandonWorker, flagVars, LoopTop, Scan,
       EarlyWake, EndWait, TimeoutWake, OffRetry, AbsentRetry, LeaveLoop, DrainCheck,
       DrainDone, Tick, BeginApply, Capture, HideCheck, ZeroCheck, CloseCheck, NextPhase,
       BeginStale, StaleCheck, StaleDone, Ended, vars, engineVars
<1>9. QED
    BY <1>1, <1>2, <1>3, <1>4, <1>5, <1>6, <1>7, <1>8
    DEF Next, Worker, Drain, Apply, Stale, Tray

\* Flags, control state and counters.
LEMMA ControlTypeStep ==
    ASSUME TypeOK, PassOK, Next
    PROVE  ControlTypeOK'
<1> USE DEF TypeOK, ControlTypeOK
<1>1. CASE ToggleEnabled
    BY <1>1, TrayAssumption DEF ToggleEnabled, Command, kakaoVars, loopVars, tickVars,
       passVars, snapVars, staleVars
<1>2. CASE ResetRestoreFailures
    BY <1>2, TrayAssumption DEF ResetRestoreFailures, Command, kakaoVars, loopVars, tickVars,
       passVars, snapVars, staleVars, ghostVars
<1>3. CASE RequestStop
    BY <1>3, TrayAssumption DEF RequestStop, kakaoVars, loopVars, tickVars, passVars,
       snapVars, staleVars, ghostVars
<1>4. CASE AbandonWorker
    BY <1>4, TrayAssumption DEF AbandonWorker, EndTick, EndPass, Recorded, DropStale,
       Identity, kakaoVars, flagVars, ghostVars, NoGraph, NoPlan, Nobody, Restoring, NoPid,
       NoWindow
<1>5. CASE LoopTop
    BY <1>5, TrayAssumption DEF LoopTop, ClearRestoreFailures, staleVars, kakaoVars,
       tickVars, passVars, snapVars, ghostVars, Zero, Identity
<1>6. CASE LeaveLoop
    BY <1>6, TrayAssumption DEF LeaveLoop, StartDrain, kakaoVars, flagVars, loopVars,
       tickVars, staleVars, ghostVars
<1>7. ASSUME NEW i \in Identity, DrainCheck(i) PROVE ControlTypeOK'
    BY <1>7, TrayAssumption DEF DrainCheck, IsNext, IdentityMatches, snapVars, kakaoVars,
       flagVars, loopVars, tickVars, staleVars, ghostVars, FinalOrder, TreeOrder, IsChild,
       NoWindow
<1>8. CASE DrainCall
    BY <1>8, TrayAssumption DEF DrainCall, RestoreWindow, PutBack, flagVars, loopVars,
       tickVars, staleVars, IdentityMatches, Observe, Nobody, Live, NoWindow, NoPid
<1>9. ASSUME NEW i \in Identity, StaleCheck(i) PROVE ControlTypeOK'
    BY <1>9, TrayAssumption DEF StaleCheck, IsNext, Matched, DropStale, snapVars, Misses,
       IdentityMatches, DropSnapshots, OneMore, RetryCooldown, kakaoVars, flagVars, loopVars,
       tickVars, ghostVars, FinalOrder, TreeOrder, NoPid, Identity, Backoff, IsChild,
       NoWindow
<1>10. CASE StaleCall
    BY <1>10, TrayAssumption DEF StaleCall, RestoreWindow, PutBack, DropStale, OneMore,
       RetryCooldown, flagVars, loopVars, tickVars, IdentityMatches, Observe, Nobody,
       Identity, Backoff, Live, NoWindow, NoPid
<1>11. CASE KakaoStep
    BY <1>11, TrayAssumption DEF KakaoStep, Launch, Quit, Create, Destroy, Show, Hide,
       Resize, ChangeContent, Hang, Refuse, Quiet, flagVars, loopVars, tickVars, passVars,
       snapVars, staleVars, Move, NoPid, Vanish, Live, NoWindow, Subtree, Observe
<1>12. CASE Scan
  <2>1. proc \in Pid \cup {NoPid} /\ cached \subseteq Pid
    BY DEF KakaoTypeOK
  <2>2. cached' = {proc} \ {NoPid} \/ cached' = cached
    BY <1>12 DEF Scan
  <2>3. pc' \in {"absent", "build", "wait"}
    BY <1>12 DEF Scan
  <2>4. UNCHANGED <<enabled, stopping, resetReq, commands, gauge, wasEnabled, offArmed, ctx>>
    BY <1>12 DEF Scan, flagVars, passVars
  <2>5. QED
    BY <2>1, <2>2, <2>3, <2>4
<1>13. CASE OffRetry
  <2>1. gauge' \in Nat
    BY <1>13 DEF OffRetry, NoRetry
  <2>2. offArmed' = FALSE \/ offArmed' = offArmed
    BY <1>13 DEF OffRetry, NoRetry
  <2>3. ctx' \in {"off", ctx} /\ pc' \in {"wait", "drain"}
    BY <1>13 DEF OffRetry, StartDrain
  <2>4. UNCHANGED <<enabled, stopping, resetReq, commands, wasEnabled, cached>>
    BY <1>13 DEF OffRetry, flagVars
  <2>5. QED
    BY <2>1, <2>2, <2>3, <2>4
<1>14. CASE AbsentRetry
  <2>1. gauge' \in Nat
    BY <1>14 DEF AbsentRetry, NoRetry
  <2>2. offArmed' = FALSE \/ offArmed' = offArmed
    BY <1>14 DEF AbsentRetry, NoRetry
  <2>3. ctx' \in {"absent", ctx} /\ pc' \in {"wait", "drain"}
    BY <1>14 DEF AbsentRetry, StartDrain
  <2>4. UNCHANGED <<enabled, stopping, resetReq, commands, wasEnabled, cached>>
    BY <1>14 DEF AbsentRetry, flagVars
  <2>5. QED
    BY <2>1, <2>2, <2>3, <2>4
<1>15. CASE DrainDone
  <2>1. gauge' \in Nat
    BY <1>15, CountIsNat DEF DrainDone, SnapTypeOK
  <2>2. QED
    BY <1>15, <2>1 DEF DrainDone, EndPass, flagVars
<1>16. CASE StaleDone
  <2>1. gauge' \in Nat
    BY <1>16, CountIsNat DEF StaleDone, RestoreFailureCount, Stuck
  <2>2. QED
    BY <1>16, <2>1 DEF StaleDone, EndPass, flagVars, loopVars
<1>17. CASE \/ EarlyWake \/ TimeoutWake \/ RecoverStep \/ Ended
    BY <1>17 DEF EarlyWake, EndWait, kakaoVars, flagVars, tickVars, passVars, snapVars,
       staleVars, ghostVars, TimeoutWake, RecoverStep, engineVars, loopVars, Ended, vars
<1>18. CASE \/ Tick \/ BeginApply \/ (\E h \in Window : Capture(h))
         \/ (\E h \in Window : HideCheck(h)) \/ (\E h \in Window : ZeroCheck(h))
         \/ (\E h \in Window : CloseCheck(h)) \/ HideCall \/ ZeroCall \/ CloseCall
         \/ NextPhase \/ BeginStale
    BY <1>18 DEF Tick, staleVars, tickVars, kakaoVars, flagVars, loopVars, passVars,
       snapVars, BeginApply, ghostVars, Capture, HideCheck, ZeroCheck, CloseCheck, HideCall,
       ZeroCall, CloseCall, NextPhase, BeginStale
<1>19. QED
    BY <1>1, <1>2, <1>3, <1>4, <1>5, <1>6, <1>7, <1>8, <1>9, <1>10, <1>11, <1>12, <1>13,
       <1>14, <1>15, <1>16, <1>17, <1>18
    DEF Next, Worker, Drain, Apply, Stale, Tray

\* The graph and the plan of a tick.
LEMMA TickTypeStep ==
    ASSUME TypeOK, PassOK, Next
    PROVE  TickTypeOK'
<1> USE DEF TypeOK, TickTypeOK, tickVars
<1>1. CASE AbandonWorker
    BY <1>1 DEF AbandonWorker, EndTick, NoGraph, NoPlan, NoPid
<1>2. CASE Tick
  <2>1. CASE pc' = "wait"
    BY <1>2, <2>1 DEF Tick, passVars
  <2>2. CASE pc' = "apply"
    <3>1. PlanFor({h \in Live : owner[h] \in cached} \cap ad)
            \in [hide : SUBSET Window, zero : SUBSET Window, close : SUBSET Window]
      BY DEF PlanFor, Live
    <3>2. \A h \in Window : owner[h] \in Pid \cup {NoPid}
      BY DEF KakaoTypeOK
    <3>3. QED
      BY <1>2, <2>2, <3>1, <3>2 DEF Tick, passVars, Live
  <2>3. QED
    BY <1>2, <2>1, <2>2 DEF Tick
<1>3. CASE BeginApply
    BY <1>3 DEF BeginApply
<1>4. ASSUME NEW h \in Window, Capture(h) PROVE TickTypeOK'
    BY <1>4 DEF Capture
<1>5. ASSUME NEW h \in Window, HideCheck(h) PROVE TickTypeOK'
    BY <1>5 DEF HideCheck
<1>6. ASSUME NEW h \in Window, ZeroCheck(h) PROVE TickTypeOK'
    BY <1>6 DEF ZeroCheck
<1>7. ASSUME NEW h \in Window, CloseCheck(h) PROVE TickTypeOK'
    BY <1>7 DEF CloseCheck
<1>8. CASE NextPhase
    BY <1>8 DEF NextPhase
<1>9. CASE BeginStale
    BY <1>9 DEF BeginStale, EndTick, NoGraph, NoPlan, NoPid
<1>10. CASE StaleDone
    BY <1>10 DEF StaleDone, EndTick, NoGraph, NoPlan, NoPid
<1>11. CASE \/ ToggleEnabled \/ ResetRestoreFailures \/ RequestStop \/ LoopTop \/ Scan
         \/ EarlyWake \/ TimeoutWake \/ OffRetry \/ AbsentRetry \/ LeaveLoop
         \/ (\E i \in Identity : DrainCheck(i)) \/ DrainCall \/ DrainDone \/ HideCall
         \/ ZeroCall \/ CloseCall \/ (\E i \in Identity : StaleCheck(i)) \/ StaleCall
         \/ KakaoStep \/ RecoverStep \/ Ended
    BY <1>11 DEF ToggleEnabled, kakaoVars, loopVars, passVars, snapVars, staleVars,
       ResetRestoreFailures, ghostVars, RequestStop, LoopTop, Scan, flagVars, EarlyWake,
       EndWait, TimeoutWake, OffRetry, AbsentRetry, LeaveLoop, DrainCheck, DrainCall,
       DrainDone, HideCall, ZeroCall, CloseCall, StaleCheck, StaleCall, KakaoStep,
       RecoverStep, engineVars, Ended, vars
<1>12. QED
    BY <1>1, <1>2, <1>3, <1>4, <1>5, <1>6, <1>7, <1>8, <1>9, <1>10, <1>11
    DEF Next, Worker, Drain, Apply, Stale, Tray

\* Snapshots and their fields.
LEMMA SnapTypeStep ==
    ASSUME TypeOK, PassOK, Next
    PROVE  SnapTypeOK'
<1> USE DEF TypeOK, SnapTypeOK, Recorded, Restoring
<1>1. CASE AbandonWorker
    BY <1>1 DEF PassOK, AbandonWorker, EndPass
<1>2. CASE OffRetry
    BY <1>2 DEF PassOK, OffRetry, NoRetry, StartDrain
<1>3. CASE AbsentRetry
    BY <1>3 DEF PassOK, AbsentRetry, NoRetry, StartDrain
<1>4. CASE LeaveLoop
    BY <1>4 DEF PassOK, LeaveLoop, StartDrain
<1>5. ASSUME NEW i \in Identity, DrainCheck(i) PROVE SnapTypeOK'
    BY <1>5 DEF PassOK, DrainCheck, IsNext, snapVars
<1>6. CASE DrainCall
    BY <1>6 DEF PassOK, DrainCall, PutBack
<1>7. CASE DrainDone
    BY <1>7 DEF PassOK, DrainDone, EndPass, snapVars
<1>8. ASSUME NEW h \in Window, Capture(h) PROVE SnapTypeOK'
    BY <1>8 DEF PassOK, Capture, Precheck, Remember, snapVars, IdentityMatches, Identity,
       NoPid, ControlTypeOK, TickTypeOK
<1>9. ASSUME NEW h \in Window, HideCheck(h) PROVE SnapTypeOK'
    BY <1>9 DEF PassOK, HideCheck, Precheck, IdentityMatches, Identity, snapVars, NoPid,
       ControlTypeOK, TickTypeOK
<1>10. ASSUME NEW h \in Window, ZeroCheck(h) PROVE SnapTypeOK'
    BY <1>10 DEF PassOK, ZeroCheck, Precheck, Remember, IdentityMatches, Identity, snapVars,
       NoPid, ControlTypeOK, TickTypeOK
<1>11. ASSUME NEW h \in Window, CloseCheck(h) PROVE SnapTypeOK'
    BY <1>11 DEF PassOK, CloseCheck, Precheck, IdentityMatches, Identity, snapVars, NoPid,
       ControlTypeOK, TickTypeOK
<1>12. CASE HideCall
    BY <1>12 DEF PassOK, HideCall, Suppress, snapVars
<1>13. CASE ZeroCall
    BY <1>13 DEF PassOK, ZeroCall, Suppress, snapVars
<1>14. CASE CloseCall
    BY <1>14 DEF PassOK, CloseCall, snapVars
<1>15. CASE NextPhase
    BY <1>15 DEF PassOK, NextPhase, DropSnapshots, snapVars
<1>16. CASE BeginStale
    BY <1>16 DEF PassOK, BeginStale, snapVars
<1>17. ASSUME NEW i \in Identity, StaleCheck(i) PROVE SnapTypeOK'
    BY <1>17 DEF PassOK, StaleCheck, IsNext, DropSnapshots, snapVars
<1>18. CASE StaleCall
    BY <1>18 DEF PassOK, StaleCall, PutBack
<1>19. CASE StaleDone
    BY <1>19 DEF PassOK, StaleDone, EndPass, snapVars
<1>20. CASE \/ ToggleEnabled \/ ResetRestoreFailures \/ RequestStop \/ LoopTop \/ Scan
         \/ EarlyWake \/ TimeoutWake \/ Tick \/ BeginApply \/ KakaoStep
         \/ RecoverStep \/ Ended
    BY <1>20 DEF ToggleEnabled, kakaoVars, loopVars, tickVars, passVars, snapVars, staleVars,
       ResetRestoreFailures, ghostVars, RequestStop, LoopTop, Scan, flagVars, EarlyWake,
       EndWait, TimeoutWake, Tick, BeginApply, KakaoStep, RecoverStep, engineVars, Ended,
       vars
<1>21. QED
    BY <1>1, <1>2, <1>3, <1>4, <1>5, <1>6, <1>7, <1>8, <1>9, <1>10, <1>11, <1>12, <1>13,
       <1>14, <1>15, <1>16, <1>17, <1>18, <1>19, <1>20
    DEF Next, Worker, Drain, Apply, Stale, Tray

\* Dropping bookkeeping keeps its types.
LEMMA DropStaleTypes ==
    ASSUME TypeOK, NEW S \in SUBSET Identity, DropStale(S) \/ UNCHANGED staleVars
    PROVE  StaleTypeOK'
BY ThresholdAssumption, AttemptsAssumption DEF TypeOK, StaleTypeOK, DropStale, staleVars

\* StaleState: only a window that failed has a delay.
LEMMA StaleTypeStep ==
    ASSUME TypeOK, PassOK, Next
    PROVE  StaleTypeOK'
<1> USE DEF TypeOK, StaleTypeOK, staleVars
<1>1. CASE AbandonWorker
    BY <1>1, DropStaleTypes DEF AbandonWorker
<1>2. CASE LoopTop
    BY <1>2, AttemptsAssumption DEF LoopTop, ClearRestoreFailures, Zero
<1>3. CASE AbsentRetry
    BY <1>3, DropStaleTypes DEF AbsentRetry
<1>4. CASE DrainDone
    BY <1>4, DropStaleTypes DEF DrainDone
<1>5. CASE Tick
  <2>1. PICK S \in SUBSET Identity : DropStale(S) \/ UNCHANGED staleVars
    BY <1>5 DEF Tick
  <2>2. QED
    BY <2>1, DropStaleTypes
<1>6. ASSUME NEW i \in Identity, StaleCheck(i) PROVE StaleTypeOK'
  <2>1. CASE \E S \in SUBSET Identity : DropStale(S)
    BY <2>1, DropStaleTypes
  <2>2. CASE UNCHANGED <<attempts, cooldown>> /\ miss' = [miss EXCEPT ![i] = Misses(@)]
    BY <2>2, MissesType
  <2>3. CASE /\ miss' = [miss EXCEPT ![i] = Misses(@)] /\ UNCHANGED attempts
             /\ cooldown[i] > 0 /\ cooldown' = [cooldown EXCEPT ![i] = @ - 1]
    BY <2>3, MissesType
  <2>4. CASE /\ miss' = [miss EXCEPT ![i] = Misses(@)]
             /\ attempts' = [attempts EXCEPT ![i] = OneMore(@)]
             /\ cooldown' = [cooldown EXCEPT ![i] = RetryCooldown(OneMore(attempts[i]))]
    <3>1. OneMore(attempts[i]) \in 1 .. RestoreMaxAttempts
      BY OneMoreType
    <3>2. RetryCooldown(OneMore(attempts[i])) \in Nat
      BY <3>1, RetryCooldownType
    <3>3. QED
      BY <2>4, <3>1, <3>2, MissesType
  <2>5. QED
    BY <1>6, <2>1, <2>2, <2>3, <2>4 DEF StaleCheck
<1>7. CASE StaleCall
  <2>1. cur \in Identity
    BY <1>7 DEF StaleCall, PassOK
  <2>2. CASE DropStale({cur})
    BY <2>1, <2>2, DropStaleTypes
  <2>3. CASE /\ UNCHANGED miss
             /\ attempts' = [attempts EXCEPT ![cur] = OneMore(@)]
             /\ cooldown' = [cooldown EXCEPT ![cur] = RetryCooldown(OneMore(attempts[cur]))]
    <3>1. OneMore(attempts[cur]) \in 1 .. RestoreMaxAttempts
      BY <2>1, OneMoreType
    <3>2. RetryCooldown(OneMore(attempts[cur])) \in Nat
      BY <3>1, RetryCooldownType
    <3>3. QED
      BY <2>1, <2>3, <3>1, <3>2
  <2>4. QED
    BY <1>7, <2>2, <2>3 DEF StaleCall
<1>8. CASE \/ ToggleEnabled \/ ResetRestoreFailures \/ RequestStop \/ Scan \/ EarlyWake
         \/ TimeoutWake \/ OffRetry \/ LeaveLoop
         \/ (\E i \in Identity : DrainCheck(i)) \/ DrainCall \/ BeginApply
         \/ (\E h \in Window : Capture(h)) \/ (\E h \in Window : HideCheck(h))
         \/ (\E h \in Window : ZeroCheck(h)) \/ (\E h \in Window : CloseCheck(h))
         \/ HideCall \/ ZeroCall \/ CloseCall \/ NextPhase \/ BeginStale \/ StaleDone
         \/ KakaoStep \/ RecoverStep \/ Ended
    BY <1>8 DEF ToggleEnabled, kakaoVars, loopVars, tickVars, passVars, snapVars,
       ResetRestoreFailures, ghostVars, RequestStop, Scan, flagVars, EarlyWake, EndWait,
       TimeoutWake, OffRetry, LeaveLoop, DrainCheck, DrainCall, BeginApply, Capture,
       HideCheck, ZeroCheck, CloseCheck, HideCall, ZeroCall, CloseCall, NextPhase,
       BeginStale, StaleDone, KakaoStep, RecoverStep, engineVars, Ended, vars
<1>9. QED
    BY <1>1, <1>2, <1>3, <1>4, <1>5, <1>6, <1>7, <1>8
    DEF Next, Worker, Drain, Apply, Stale, Tray

\* The history variables.
LEMMA HistoryTypeStep ==
    ASSUME TypeOK, PassOK, Next
    PROVE  HistoryTypeOK'
<1> USE DEF TypeOK, HistoryTypeOK, ghostVars
<1>1. CASE ToggleEnabled
    BY <1>1 DEF ToggleEnabled, Live, kakaoVars
<1>2. CASE DrainCall
    BY <1>2 DEF DrainCall, RestoreWindow, Observe, Live
<1>3. CASE Tick
    BY <1>3, ThresholdAssumption DEF Tick, kakaoVars, Live
<1>4. CASE HideCall
    BY <1>4 DEF HideCall, Suppress, Observe, Late, Live
<1>5. CASE ZeroCall
    BY <1>5 DEF ZeroCall, Suppress, Observe, Late, Live
<1>6. CASE CloseCall
    BY <1>6 DEF CloseCall, Observe, Late, Live
<1>7. CASE StaleCall
    BY <1>7 DEF StaleCall, RestoreWindow, Observe, Live
<1>8. CASE KakaoStep
    BY <1>8 DEF KakaoStep, Quiet, Observe, Live
<1>9. CASE \/ ResetRestoreFailures \/ RequestStop \/ AbandonWorker \/ LoopTop \/ Scan
         \/ EarlyWake \/ TimeoutWake \/ OffRetry \/ AbsentRetry \/ LeaveLoop
         \/ (\E i \in Identity : DrainCheck(i)) \/ DrainDone \/ BeginApply
         \/ (\E h \in Window : Capture(h)) \/ (\E h \in Window : HideCheck(h))
         \/ (\E h \in Window : ZeroCheck(h)) \/ (\E h \in Window : CloseCheck(h))
         \/ NextPhase \/ BeginStale \/ (\E i \in Identity : StaleCheck(i))
         \/ StaleDone \/ RecoverStep \/ Ended
    BY <1>9 DEF ResetRestoreFailures, kakaoVars, loopVars, tickVars, passVars, snapVars,
       staleVars, RequestStop, AbandonWorker, flagVars, LoopTop, Scan, EarlyWake, EndWait,
       TimeoutWake, OffRetry, AbsentRetry, LeaveLoop, DrainCheck, DrainDone, BeginApply,
       Capture, HideCheck, ZeroCheck, CloseCheck, NextPhase, BeginStale, StaleCheck,
       StaleDone, RecoverStep, Recover, Live, engineVars, Ended, vars
<1>10. QED
    BY <1>1, <1>2, <1>3, <1>4, <1>5, <1>6, <1>7, <1>8, <1>9
    DEF Next, Worker, Drain, Apply, Stale, Tray

\* What a pass still holds.
LEMMA PassStep ==
    ASSUME TypeOK, PassOK, Next
    PROVE  PassOK'
<1> USE DEF PassOK
<1>1. CASE AbandonWorker
    BY <1>1 DEF TypeOK, SnapTypeOK, AbandonWorker, EndPass
<1>2. CASE OffRetry
    BY <1>2 DEF TypeOK, SnapTypeOK, OffRetry, NoRetry, StartDrain
<1>3. CASE AbsentRetry
    BY <1>3 DEF TypeOK, SnapTypeOK, AbsentRetry, NoRetry, StartDrain
<1>4. CASE LeaveLoop
    BY <1>4 DEF TypeOK, SnapTypeOK, LeaveLoop, StartDrain
<1>5. ASSUME NEW i \in Identity, DrainCheck(i) PROVE PassOK'
    BY <1>5 DEF TypeOK, SnapTypeOK, DrainCheck, IsNext, snapVars
<1>6. CASE DrainCall
    BY <1>6 DEF TypeOK, SnapTypeOK, DrainCall, PutBack
<1>7. CASE DrainDone
    BY <1>7 DEF TypeOK, SnapTypeOK, DrainDone, EndPass, snapVars
<1>8. ASSUME NEW h \in Window, Capture(h) PROVE PassOK'
    BY <1>8 DEF TypeOK, SnapTypeOK, ControlTypeOK, TickTypeOK, Capture, Precheck, Remember,
       snapVars, IdentityMatches, Identity, NoPid
<1>9. ASSUME NEW h \in Window, HideCheck(h) PROVE PassOK'
    BY <1>9 DEF TypeOK, SnapTypeOK, ControlTypeOK, TickTypeOK, HideCheck, Precheck,
       IdentityMatches, Identity, snapVars, NoPid
<1>10. ASSUME NEW h \in Window, ZeroCheck(h) PROVE PassOK'
    BY <1>10 DEF TypeOK, SnapTypeOK, ControlTypeOK, TickTypeOK, ZeroCheck, Precheck, Remember,
       IdentityMatches, Identity, snapVars, NoPid
<1>11. ASSUME NEW h \in Window, CloseCheck(h) PROVE PassOK'
    BY <1>11 DEF TypeOK, SnapTypeOK, ControlTypeOK, TickTypeOK, CloseCheck, Precheck,
       IdentityMatches, Identity, snapVars, NoPid
<1>12. CASE HideCall
    BY <1>12 DEF TypeOK, SnapTypeOK, HideCall, Suppress, snapVars
<1>13. CASE ZeroCall
    BY <1>13 DEF TypeOK, SnapTypeOK, ZeroCall, Suppress, snapVars
<1>14. CASE CloseCall
    BY <1>14 DEF TypeOK, SnapTypeOK, CloseCall, snapVars
<1>15. CASE NextPhase
    BY <1>15 DEF TypeOK, SnapTypeOK, NextPhase, DropSnapshots, snapVars
<1>16. CASE BeginStale
    BY <1>16 DEF TypeOK, SnapTypeOK, BeginStale, snapVars
<1>17. ASSUME NEW i \in Identity, StaleCheck(i) PROVE PassOK'
    BY <1>17 DEF TypeOK, SnapTypeOK, StaleCheck, IsNext, DropSnapshots, snapVars
<1>18. CASE StaleCall
    BY <1>18 DEF TypeOK, SnapTypeOK, StaleCall, PutBack
<1>19. CASE StaleDone
    BY <1>19 DEF TypeOK, SnapTypeOK, StaleDone, EndPass, snapVars
<1>20. CASE \/ ToggleEnabled \/ ResetRestoreFailures \/ RequestStop \/ LoopTop \/ Scan
         \/ EarlyWake \/ TimeoutWake \/ Tick \/ BeginApply \/ KakaoStep
         \/ RecoverStep \/ Ended
    BY <1>20 DEF ToggleEnabled, kakaoVars, loopVars, tickVars, passVars, snapVars, staleVars,
       ResetRestoreFailures, ghostVars, RequestStop, LoopTop, Scan, flagVars, EarlyWake,
       EndWait, TimeoutWake, Tick, BeginApply, KakaoStep, RecoverStep, engineVars, Ended,
       vars
<1>21. QED
    BY <1>1, <1>2, <1>3, <1>4, <1>5, <1>6, <1>7, <1>8, <1>9, <1>10, <1>11, <1>12, <1>13,
       <1>14, <1>15, <1>16, <1>17, <1>18, <1>19, <1>20
    DEF Next, Worker, Drain, Apply, Stale, Tray

----------------------------------------------------------------------------
(* All of it together.                                                      *)

\* The invariant holds before the first step ...
LEMMA TypesInit ==
    ASSUME Init
    PROVE  TypeOK /\ PassOK
<1>1. KakaoTypeOK
  BY MovesAssumption DEF Init, KakaoInit, KakaoTypeOK, Live, NoPid
<1>2. ControlTypeOK
  <2>1. enabled \in BOOLEAN /\ wasEnabled = enabled
    BY DEF Init
  <2>2. wasEnabled \in BOOLEAN
    BY <2>1
  <2>3. stopping = FALSE /\ resetReq = FALSE /\ offArmed = FALSE
    BY DEF Init
  <2>4. /\ commands \in 0 .. TrayMoves /\ gauge \in Nat /\ pc = "top" /\ cached = {}
        /\ ctx = "off"
    BY TrayAssumption DEF Init
  <2>5. QED
    BY <2>1, <2>2, <2>3, <2>4 DEF ControlTypeOK
<1>3. TickTypeOK
  BY DEF Init, TickTypeOK, NoGraph, NoPlan, NoPid
<1>4. SnapTypeOK
  BY DEF Init, SnapTypeOK, Recorded, Restoring
<1>5. StaleTypeOK
  BY ThresholdAssumption, AttemptsAssumption DEF Init, StaleTypeOK, Zero
<1>6. HistoryTypeOK
  BY ThresholdAssumption DEF Init, HistoryTypeOK, Zero
<1>7. PassOK
  BY DEF Init, PassOK
<1>8. QED
  BY <1>1, <1>2, <1>3, <1>4, <1>5, <1>6, <1>7 DEF TypeOK

\* ... through steps that change nothing ...
LEMMA TypesStutter ==
    ASSUME TypeOK, PassOK, UNCHANGED vars
    PROVE  TypeOK' /\ PassOK'
<1>1. UNCHANGED <<kakaoVars, flagVars, gauge, pc, loopVars, tickVars, passVars, snapVars,
                  staleVars, ghostVars>>
  BY DEF vars, engineVars
<1>2. KakaoTypeOK' /\ ControlTypeOK' /\ TickTypeOK'
  BY <1>1 DEF TypeOK, KakaoTypeOK, Live, kakaoVars, ControlTypeOK, flagVars, loopVars, passVars,
     TickTypeOK, tickVars
<1>3. SnapTypeOK' /\ StaleTypeOK' /\ HistoryTypeOK' /\ PassOK'
  BY <1>1 DEF TypeOK, SnapTypeOK, Recorded, Restoring, snapVars, passVars, StaleTypeOK,
     staleVars, HistoryTypeOK, Live, kakaoVars, ghostVars, PassOK
<1>4. QED
  BY <1>2, <1>3 DEF TypeOK

\* ... and through every step.
LEMMA TypesStep ==
    ASSUME TypeOK, PassOK, [Next]_vars
    PROVE  TypeOK' /\ PassOK'
<1>1. CASE Next
  BY <1>1, KakaoTypeStep, ControlTypeStep, TickTypeStep, SnapTypeStep, StaleTypeStep,
     HistoryTypeStep, PassStep DEF TypeOK
<1>2. CASE UNCHANGED vars
  BY <1>2, TypesStutter
<1>3. QED
  BY <1>1, <1>2

\* The variables keep their types for every number of windows, processes and
\* attempts; a snapshot's fields never outlive the snapshot, and only a window that
\* failed to come back is held off (EngineCaches, StaleState).
THEOREM TypesCorrect == Spec => []TypeOK
<1>1. Init => TypeOK /\ PassOK
  BY TypesInit
<1>2. (TypeOK /\ PassOK) /\ [Next]_vars => (TypeOK /\ PassOK)'
  BY TypesStep
<1>3. QED
  BY <1>1, <1>2, PTL DEF Spec

----------------------------------------------------------------------------
(* Safety.                                                                 *)

\* A step finds these proved about the state it starts from.
Sound == TypeOK /\ PassOK

\* A call that got past its check was checked before the switch went off.
LateOK ==
    /\ LateSuppression
    /\ late = 1 => (~enabled \/ stopping) /\ pc \notin {"hideCall", "zeroCall", "closeCall"}

\* The final drain leaves the windows that failed before to the end.
OrderOK ==
    pc = "drainCall" /\ ctx = "final" /\ attempts[cur] > 0 => \A j \in pend : attempts[j] > 0

\* Until a round gets to the windows, the count of the previous one covers them.
GaugeOK ==
    pc \in {"wait", "top", "scan", "off", "absent", "build"} =>
        Cardinality(Stuck \cap snaps) <= gauge

\* Phases only a round with the switch on goes through.
OnPhases == {"scan", "absent", "build", "apply", "capture", "hide", "hideCall", "zero",
             "zeroCall", "close", "closeCall", "restore", "stale", "staleCall"}

\* While the switch stays off the count of the last drain stays exact.
OffOK ==
    /\ pc \in OnPhases => wasEnabled
    /\ pc = "off" => ~wasEnabled
    /\ pc \in {"wait", "top"} /\ ~wasEnabled => gauge = Cardinality(snaps)
    /\ pc = "off" /\ offArmed => gauge = Cardinality(snaps)

ApplyPhases == {"apply", "capture", "hide", "hideCall", "zero", "zeroCall", "close",
                "closeCall", "restore"}

\* The streak kept by StaleState is never longer than the real one; it is strictly
\* shorter while the running tick has been evaluated but not yet counted.
Counted(i) == miss[i] <= unmatched[i]
Due(i) == i \in Matched \/ miss[i] < unmatched[i] \/ unmatched[i] = RestoreMissThreshold
MissOK ==
    /\ pc \in {"capture", "hide", "hideCall", "zero", "zeroCall"} =>
           todo \subseteq plan.hide \cup plan.zero
    /\ pc \in ApplyPhases => \A i \in snaps : Due(i)
    /\ pc \in {"stale", "staleCall"} =>
           (\A i \in pend : Due(i)) /\ (\A i \in snaps \ pend : Counted(i))
    /\ pc = "staleCall" => unmatched[cur] = RestoreMissThreshold
    /\ pc \notin ApplyPhases \cup {"stale", "staleCall"} => \A i \in Recorded : Counted(i)

Safe == Sound /\ NothingOrphaned /\ LateOK /\ OrderOK /\ GaugeOK /\ OffOK /\ MissOK

----------------------------------------------------------------------------
(* Counting.                                                               *)

\* A subset has no more members.
LEMMA CountMono ==
    ASSUME NEW S \in SUBSET Identity, NEW T \in SUBSET S
    PROVE  Cardinality(T) <= Cardinality(S)
BY WindowAssumption, PidAssumption, FS_Product, FS_Subset, FS_CardinalityType DEF Identity

\* Only the empty set counts zero.
LEMMA CountEmpty ==
    ASSUME NEW S \in SUBSET Identity
    PROVE  Cardinality(S) = 0 <=> S = {}
BY WindowAssumption, PidAssumption, FS_Product, FS_Subset, FS_EmptySet DEF Identity

----------------------------------------------------------------------------
(* Every step preserves every part of the invariant.                       *)

\* No step loses the snapshot of a suppressed window.
LEMMA OrphanStep ==
    ASSUME Sound, NothingOrphaned, Next
    PROVE  NothingOrphaned'
<1> USE DEF Sound, TypeOK, PassOK, NothingOrphaned, Recorded, Restoring, Suppressed,
        SnapTypeOK
<1>1. CASE AbandonWorker
    BY <1>1 DEF AbandonWorker, EndPass, ghostVars, kakaoVars
<1>2. CASE OffRetry
    BY <1>2 DEF OffRetry, StartDrain, ghostVars, kakaoVars
<1>3. CASE AbsentRetry
    BY <1>3 DEF AbsentRetry, StartDrain, ghostVars, kakaoVars
<1>4. CASE LeaveLoop
    BY <1>4 DEF LeaveLoop, StartDrain, ghostVars, kakaoVars
<1>5. ASSUME NEW i \in Identity, DrainCheck(i) PROVE NothingOrphaned'
    BY <1>5 DEF DrainCheck, IsNext, snapVars, ghostVars, kakaoVars, IdentityMatches,
       HistoryTypeOK, Live
<1>6. CASE DrainCall
    BY <1>6 DEF DrainCall, RestoreWindow, PutBack, Observe, Live
<1>7. CASE DrainDone
    BY <1>7 DEF DrainDone, EndPass, snapVars, ghostVars, kakaoVars
<1>8. ASSUME NEW h \in Window, Capture(h) PROVE NothingOrphaned'
    BY <1>8 DEF Capture, Remember, snapVars, ghostVars, kakaoVars
<1>9. ASSUME NEW h \in Window, HideCheck(h) PROVE NothingOrphaned'
    BY <1>9 DEF HideCheck, snapVars, ghostVars, kakaoVars
<1>10. ASSUME NEW h \in Window, ZeroCheck(h) PROVE NothingOrphaned'
    BY <1>10 DEF ZeroCheck, Remember, snapVars, ghostVars, kakaoVars
<1>11. ASSUME NEW h \in Window, CloseCheck(h) PROVE NothingOrphaned'
    BY <1>11 DEF CloseCheck, snapVars, ghostVars, kakaoVars
<1>12. CASE HideCall
  <2>1. cur \in Identity /\ Recorded = snaps /\ Recorded' = snaps
    BY <1>12 DEF HideCall, snapVars, Recorded, Restoring
  <2>2. UNCHANGED owner /\ Live' = Live
    BY <1>12 DEF HideCall, Suppress, Live
  <2>3. ASSUME NEW h \in Suppressed', h \notin Suppressed
        PROVE  cur = <<h, owner[h]>> /\ cur \in snaps
    <3>1. h = cur[1] /\ cur \in snaps /\ IdentityMatches(cur)
      BY <1>12, <2>3 DEF HideCall, Suppress, Observe, Suppressed
    <3>2. QED
      BY <2>1, <3>1 DEF IdentityMatches, Identity
  <2>4. QED
    BY <2>1, <2>2, <2>3
<1>13. CASE ZeroCall
  <2>1. cur \in snaps /\ cur \in Identity /\ Recorded = snaps /\ Recorded' = snaps
    BY <1>13 DEF ZeroCall, SnapTypeOK, snapVars, Recorded, Restoring
  <2>2. UNCHANGED owner /\ Live' = Live
    BY <1>13 DEF ZeroCall, Suppress, Live
  <2>3. ASSUME NEW h \in Suppressed', h \notin Suppressed
        PROVE  cur = <<h, owner[h]>> /\ cur \in snaps
    <3>1. h = cur[1] /\ cur \in snaps /\ IdentityMatches(cur)
      BY <1>13, <2>3 DEF ZeroCall, Suppress, Observe, Suppressed
    <3>2. QED
      BY <2>1, <3>1 DEF IdentityMatches, Identity
  <2>4. QED
    BY <2>1, <2>2, <2>3
<1>14. CASE CloseCall
    BY <1>14 DEF CloseCall, Observe, Live, snapVars, Vanish
<1>15. CASE NextPhase
    BY <1>15 DEF NextPhase, DropSnapshots, snapVars, IdentityMatches, ghostVars, kakaoVars
<1>16. CASE BeginStale
    BY <1>16 DEF BeginStale, snapVars, ghostVars, kakaoVars
<1>17. ASSUME NEW i \in Identity, StaleCheck(i) PROVE NothingOrphaned'
    BY <1>17 DEF StaleCheck, IsNext, DropSnapshots, snapVars, IdentityMatches, ghostVars,
       kakaoVars
<1>18. CASE StaleCall
    BY <1>18 DEF StaleCall, RestoreWindow, PutBack, Observe, Live
<1>19. CASE StaleDone
    BY <1>19 DEF StaleDone, EndPass, snapVars, ghostVars, kakaoVars
<1>20. CASE KakaoStep
  <2>1. \A h \in Live \cap Live' : owner'[h] = owner[h]
    <3>1. ASSUME NEW p \in Pid, Launch(p) PROVE UNCHANGED owner
      BY <3>1 DEF Launch
    <3>2. CASE Quit
      BY <3>2 DEF Quit, Vanish, Live
    <3>3. ASSUME NEW h \in Window, Create(h)
          PROVE  \A w \in Live : owner'[w] = owner[w]
      BY <3>3 DEF Create, Live, KakaoTypeOK
    <3>4. ASSUME NEW h \in Window, Destroy(h)
          PROVE  \A w \in Live \cap Live' : owner'[w] = owner[w]
      BY <3>4 DEF Destroy, Vanish, Live
    <3>5. ASSUME NEW h \in Window,
                 Show(h) \/ Hide(h) \/ Resize(h) \/ ChangeContent(h) \/ Hang(h) \/ Refuse(h)
          PROVE  UNCHANGED owner
      BY <3>5 DEF Show, Hide, Resize, ChangeContent, Hang, Refuse
    <3>6. QED
      BY <1>20, <3>1, <3>2, <3>3, <3>4, <3>5 DEF KakaoStep
  <2>2. Suppressed' \subseteq Suppressed /\ Suppressed' \subseteq Live'
    BY <1>20 DEF KakaoStep, Quiet, Observe, Suppressed
  <2>3. Suppressed \subseteq Live /\ Recorded' = Recorded
    BY <1>20 DEF KakaoStep, passVars, snapVars, Suppressed, HistoryTypeOK, Recorded, Restoring
  <2>4. QED
    BY <2>1, <2>2, <2>3
<1>21. CASE \/ ToggleEnabled \/ ResetRestoreFailures \/ RequestStop \/ LoopTop \/ Scan
         \/ EarlyWake \/ TimeoutWake \/ Tick \/ BeginApply \/ RecoverStep \/ Ended
    BY <1>21 DEF ToggleEnabled, kakaoVars, loopVars, tickVars, passVars, snapVars, staleVars,
       ResetRestoreFailures, ghostVars, RequestStop, LoopTop, Scan, flagVars, EarlyWake,
       EndWait, TimeoutWake, Tick, BeginApply, RecoverStep, engineVars, Ended, vars, Recover
<1>22. QED
    BY <1>1, <1>2, <1>3, <1>4, <1>5, <1>6, <1>7, <1>8, <1>9, <1>10, <1>11, <1>12, <1>13,
       <1>14, <1>15, <1>16, <1>17, <1>18, <1>19, <1>20, <1>21
    DEF Next, Worker, Drain, Apply, Stale, Tray

\* No step adds a second late call.
LEMMA LateStep ==
    ASSUME Sound, LateOK, Next
    PROVE  LateOK'
<1> USE DEF Sound, TypeOK, PassOK, LateOK, LateSuppression, HistoryTypeOK
<1>1. CASE ToggleEnabled
    BY <1>1 DEF ToggleEnabled, ControlTypeOK
<1>2. CASE RequestStop
    BY <1>2 DEF RequestStop, ghostVars
<1>3. ASSUME NEW h \in Window, HideCheck(h) PROVE LateOK'
    BY <1>3 DEF HideCheck, Precheck, flagVars, ghostVars
<1>4. ASSUME NEW h \in Window, ZeroCheck(h) PROVE LateOK'
    BY <1>4 DEF ZeroCheck, Precheck, flagVars, ghostVars
<1>5. ASSUME NEW h \in Window, CloseCheck(h) PROVE LateOK'
    BY <1>5 DEF CloseCheck, Precheck, flagVars, ghostVars
<1>6. CASE HideCall
    BY <1>6 DEF HideCall, Suppress, Late, flagVars
<1>7. CASE ZeroCall
    BY <1>7 DEF ZeroCall, Suppress, Late, flagVars
<1>8. CASE CloseCall
    BY <1>8 DEF CloseCall, Late, flagVars
<1>9. CASE OffRetry
    BY <1>9 DEF OffRetry, StartDrain, flagVars, ghostVars
<1>10. CASE AbsentRetry
    BY <1>10 DEF AbsentRetry, StartDrain, flagVars, ghostVars
<1>11. CASE DrainDone
    BY <1>11 DEF DrainDone, flagVars, ghostVars
<1>12. ASSUME NEW i \in Identity, StaleCheck(i) PROVE LateOK'
    BY <1>12 DEF StaleCheck, flagVars, ghostVars
<1>13. CASE NextPhase
    BY <1>13 DEF NextPhase, flagVars, ghostVars
<1>14. CASE BeginStale
    BY <1>14 DEF BeginStale, flagVars, ghostVars
<1>15. CASE \/ ResetRestoreFailures \/ AbandonWorker \/ LoopTop \/ Scan \/ EarlyWake
         \/ TimeoutWake \/ Tick \/ BeginApply \/ (\E h \in Window : Capture(h))
    BY <1>15 DEF ResetRestoreFailures, kakaoVars, loopVars, tickVars, passVars, snapVars,
       staleVars, ghostVars, AbandonWorker, flagVars, LoopTop, Scan, EarlyWake, EndWait,
       TimeoutWake, Tick, BeginApply, Capture, RestoreWindow, StartDrain, Quiet
<1>16. CASE \/ DrainCall \/ StaleCall \/ KakaoStep \/ RecoverStep \/ Ended
    BY <1>16 DEF DrainCall, flagVars, loopVars, tickVars, staleVars, StaleCall, KakaoStep,
       passVars, snapVars, RecoverStep, engineVars, ghostVars, Ended, vars, kakaoVars,
       RestoreWindow, StartDrain, Quiet
<1>17. CASE \/ LeaveLoop \/ (\E i \in Identity : DrainCheck(i)) \/ StaleDone
    BY <1>17 DEF LeaveLoop, kakaoVars, flagVars, loopVars, tickVars, staleVars, ghostVars,
       DrainCheck, snapVars, StaleDone, RestoreWindow, StartDrain, Quiet
<1>18. QED
    BY <1>1, <1>2, <1>3, <1>4, <1>5, <1>6, <1>7, <1>8, <1>9, <1>10, <1>11, <1>12, <1>13,
       <1>14, <1>15, <1>16, <1>17
    DEF Next, Worker, Drain, Apply, Stale, Tray

\* The final drain picks its windows in order.
LEMMA OrderStep ==
    ASSUME Sound, OrderOK, Next
    PROVE  OrderOK'
<1> USE DEF Sound, TypeOK, PassOK, OrderOK
<1>1. CASE LoopTop
    BY <1>1 DEF LoopTop
<1>2. ASSUME NEW i \in Identity, DrainCheck(i) PROVE OrderOK'
    BY <1>2 DEF DrainCheck, IsNext, FinalOrder, staleVars, StaleTypeOK, SnapTypeOK
<1>3. CASE DrainCall
    BY <1>3 DEF DrainCall
<1>4. CASE LeaveLoop
    BY <1>4 DEF LeaveLoop, StartDrain
<1>5. CASE \/ ToggleEnabled \/ ResetRestoreFailures \/ RequestStop \/ AbandonWorker
         \/ Scan \/ EarlyWake \/ TimeoutWake \/ OffRetry \/ AbsentRetry \/ DrainDone
         \/ Tick \/ BeginApply \/ (\E h \in Window : Capture(h))
         \/ (\E h \in Window : HideCheck(h)) \/ (\E h \in Window : ZeroCheck(h))
         \/ (\E h \in Window : CloseCheck(h)) \/ HideCall \/ ZeroCall \/ CloseCall
         \/ NextPhase \/ BeginStale \/ (\E i \in Identity : StaleCheck(i))
         \/ StaleCall \/ StaleDone \/ KakaoStep \/ RecoverStep \/ Ended
    BY <1>5 DEF ToggleEnabled, kakaoVars, loopVars, tickVars, passVars, snapVars, staleVars,
       ResetRestoreFailures, ghostVars, RequestStop, AbandonWorker, flagVars, Scan,
       EarlyWake, EndWait, TimeoutWake, OffRetry, AbsentRetry, DrainDone, Tick, BeginApply,
       Capture, HideCheck, ZeroCheck, CloseCheck, HideCall, ZeroCall, CloseCall, NextPhase,
       BeginStale, StaleCheck, StaleCall, StaleDone, KakaoStep, RecoverStep, engineVars,
       Ended, vars, StartDrain
<1>6. QED
    BY <1>1, <1>2, <1>3, <1>4, <1>5
    DEF Next, Worker, Drain, Apply, Stale, Tray

\* No step between two drains makes the count too small.
LEMMA GaugeStep ==
    ASSUME Sound, GaugeOK, Next
    PROVE  GaugeOK'
<1> USE DEF Sound, TypeOK, PassOK, GaugeOK
<1>1. CASE LoopTop
    BY <1>1, CountMono, CountEmpty, CountIsNat DEF LoopTop, Stuck, SnapTypeOK, StaleTypeOK,
       ControlTypeOK, ClearRestoreFailures, Zero, staleVars, snapVars
<1>2. CASE OffRetry
    BY <1>2, CountMono, CountEmpty, CountIsNat DEF OffRetry, Stuck, SnapTypeOK, StaleTypeOK,
       ControlTypeOK, NoRetry, StartDrain, staleVars
<1>3. CASE AbsentRetry
    BY <1>3, CountMono, CountEmpty, CountIsNat DEF AbsentRetry, Stuck, SnapTypeOK,
       StaleTypeOK, ControlTypeOK, NoRetry, StartDrain, DropStale, staleVars
<1>4. CASE DrainDone
    BY <1>4, CountMono, CountEmpty, CountIsNat DEF DrainDone, Stuck, SnapTypeOK, StaleTypeOK,
       ControlTypeOK, snapVars
<1>5. CASE Tick
    BY <1>5, CountMono, CountEmpty, CountIsNat DEF Tick, Stuck, SnapTypeOK, StaleTypeOK,
       ControlTypeOK, DropStale, staleVars, snapVars
<1>6. CASE BeginStale
    BY <1>6, CountMono, CountEmpty, CountIsNat DEF BeginStale, Stuck, SnapTypeOK,
       StaleTypeOK, ControlTypeOK, snapVars
<1>7. CASE StaleDone
    BY <1>7, CountMono, CountEmpty, CountIsNat DEF StaleDone, RestoreFailureCount, Stuck,
       SnapTypeOK, StaleTypeOK, ControlTypeOK, snapVars, staleVars
<1>8. CASE AbandonWorker
    BY <1>8 DEF AbandonWorker
<1>9. ASSUME NEW i \in Identity, StaleCheck(i) PROVE GaugeOK'
    BY <1>9 DEF StaleCheck
<1>10. ASSUME NEW i \in Identity, DrainCheck(i) PROVE GaugeOK'
    BY <1>10 DEF DrainCheck
<1>11. CASE LeaveLoop
    BY <1>11 DEF LeaveLoop, StartDrain
<1>12. CASE \/ ToggleEnabled \/ ResetRestoreFailures \/ RequestStop \/ Scan \/ EarlyWake
         \/ TimeoutWake \/ DrainCall \/ BeginApply \/ (\E h \in Window : Capture(h))
         \/ (\E h \in Window : HideCheck(h)) \/ (\E h \in Window : ZeroCheck(h))
         \/ (\E h \in Window : CloseCheck(h)) \/ HideCall \/ ZeroCall \/ CloseCall
         \/ NextPhase \/ StaleCall \/ KakaoStep \/ RecoverStep \/ Ended
    BY <1>12 DEF ToggleEnabled, kakaoVars, loopVars, tickVars, passVars, snapVars, staleVars,
       ResetRestoreFailures, ghostVars, RequestStop, Scan, flagVars, EarlyWake, EndWait,
       TimeoutWake, DrainCall, BeginApply, Capture, HideCheck, ZeroCheck, CloseCheck,
       HideCall, ZeroCall, CloseCall, NextPhase, StaleCall, KakaoStep, RecoverStep,
       engineVars, Ended, vars, Stuck
<1>13. QED
    BY <1>1, <1>2, <1>3, <1>4, <1>5, <1>6, <1>7, <1>8, <1>9, <1>10, <1>11, <1>12
    DEF Next, Worker, Drain, Apply, Stale, Tray

\* No round with the switch off leaves a wrong count.
LEMMA OffStep ==
    ASSUME Sound, OffOK, Next
    PROVE  OffOK'
<1> USE DEF Sound, TypeOK, PassOK, OffOK, OnPhases
<1>1. CASE LoopTop
    BY <1>1 DEF LoopTop, snapVars, ControlTypeOK
<1>2. CASE OffRetry
    BY <1>2, CountEmpty DEF OffRetry, NoRetry, StartDrain, SnapTypeOK, ControlTypeOK,
       loopVars
<1>3. CASE AbsentRetry
    BY <1>3, CountEmpty DEF AbsentRetry, NoRetry, StartDrain, SnapTypeOK, ControlTypeOK
<1>4. CASE LeaveLoop
    BY <1>4 DEF LeaveLoop, StartDrain
<1>5. CASE DrainDone
    BY <1>5 DEF DrainDone, snapVars, ControlTypeOK
<1>6. ASSUME NEW i \in Identity, DrainCheck(i) PROVE OffOK'
    BY <1>6 DEF DrainCheck, loopVars
<1>7. ASSUME NEW i \in Identity, StaleCheck(i) PROVE OffOK'
    BY <1>7 DEF StaleCheck, loopVars
<1>8. CASE Tick
    BY <1>8 DEF Tick, loopVars, snapVars
<1>9. CASE AbandonWorker
    BY <1>9 DEF AbandonWorker
<1>10. CASE NextPhase
    BY <1>10 DEF NextPhase, loopVars
<1>11. CASE BeginStale
    BY <1>11 DEF BeginStale, loopVars
<1>12. CASE StaleDone
    BY <1>12 DEF StaleDone, loopVars
<1>13. CASE \/ ToggleEnabled \/ ResetRestoreFailures \/ RequestStop \/ Scan \/ EarlyWake
         \/ TimeoutWake \/ DrainCall \/ BeginApply \/ (\E h \in Window : Capture(h))
         \/ (\E h \in Window : HideCheck(h)) \/ (\E h \in Window : ZeroCheck(h))
         \/ (\E h \in Window : CloseCheck(h)) \/ HideCall \/ ZeroCall \/ CloseCall
         \/ StaleCall \/ KakaoStep \/ RecoverStep \/ Ended
    BY <1>13 DEF ToggleEnabled, kakaoVars, loopVars, tickVars, passVars, snapVars, staleVars,
       ResetRestoreFailures, ghostVars, RequestStop, Scan, flagVars, EarlyWake, EndWait,
       TimeoutWake, DrainCall, BeginApply, Capture, HideCheck, ZeroCheck, CloseCheck,
       HideCall, ZeroCall, CloseCall, StaleCall, KakaoStep, RecoverStep, engineVars, Ended,
       vars
<1>14. QED
    BY <1>1, <1>2, <1>3, <1>4, <1>5, <1>6, <1>7, <1>8, <1>9, <1>10, <1>11, <1>12, <1>13
    DEF Next, Worker, Drain, Apply, Stale, Tray

\* No step counts an evaluation twice or carries a streak over to another capture.
LEMMA MissStep ==
    ASSUME Sound, MissOK, Next
    PROVE  MissOK'
<1> USE DEF Sound, TypeOK, PassOK, MissOK, ApplyPhases, Recorded, Restoring, Due, Counted,
        Matched
<1>1. CASE AbandonWorker
    BY <1>1 DEF AbandonWorker, DropStale, Zero, EndPass, SnapTypeOK, HistoryTypeOK,
       ghostVars
<1>2. CASE OffRetry
    BY <1>2 DEF OffRetry, StartDrain, staleVars, ghostVars
<1>3. CASE AbsentRetry
    BY <1>3 DEF AbsentRetry, StartDrain, DropStale, staleVars, ghostVars, HistoryTypeOK,
       SnapTypeOK
<1>4. CASE LeaveLoop
    BY <1>4 DEF LeaveLoop, StartDrain, staleVars, ghostVars
<1>5. CASE LoopTop
    BY <1>5 DEF LoopTop, ClearRestoreFailures, staleVars, snapVars, passVars, ghostVars
<1>6. ASSUME NEW i \in Identity, DrainCheck(i) PROVE MissOK'
    BY <1>6 DEF DrainCheck, IsNext, staleVars, ghostVars, snapVars
<1>7. CASE DrainCall
    BY <1>7 DEF DrainCall, PutBack, RestoreWindow, staleVars
<1>8. CASE DrainDone
    BY <1>8 DEF DrainDone, DropStale, EndPass, snapVars, ghostVars, HistoryTypeOK,
       SnapTypeOK
<1>9. CASE Tick
  <2>1. pc = "build" /\ Recorded = snaps /\ snaps' = snaps /\ pend' = pend /\ pend = {}
    BY <1>9 DEF Tick, snapVars, passVars
  <2>2. \A i \in snaps :
          /\ miss[i] \in Nat /\ miss'[i] \in Nat /\ unmatched[i] \in 0 .. RestoreMissThreshold
          /\ miss'[i] <= miss[i] /\ miss[i] <= unmatched[i]
    BY <1>9, <2>1, ThresholdAssumption DEF Tick, DropStale, staleVars, StaleTypeOK, SnapTypeOK,
       HistoryTypeOK
  <2>3. CASE pc' = "wait"
    <3>1. \A i \in snaps : Counted(i)'
      BY <1>9, <2>2, <2>3, ThresholdAssumption DEF Tick
    <3>2. QED
      BY <2>1, <2>3, <3>1
  <2>4. CASE pc' = "apply"
    <3>1. PICK seen \in SUBSET Live :
            /\ plan' = PlanFor(seen \cap ad)
            /\ graph' = [h \in Window |-> IF h \in seen THEN owner[h] ELSE NoPid]
            /\ unmatched' = [i \in Identity |->
                 IF i \in {<<h, owner[h]>> : h \in plan'.hide \cup plan'.zero \cup plan'.close}
                      \/ i \notin snaps
                 THEN 0
                 ELSE IF unmatched[i] < RestoreMissThreshold THEN unmatched[i] + 1
                      ELSE RestoreMissThreshold]
      <4>1. {h \in Live : owner[h] \in cached} \in SUBSET Live
        OBVIOUS
      <4>2. QED
        BY <1>9, <2>4, <4>1 DEF Tick
    <3>2. ASSUME NEW h \in plan'.hide \cup plan'.zero \cup plan'.close
          PROVE  <<h, owner[h]>> \in Matched'
      <4>1. h \in seen
        BY <3>1, <3>2 DEF PlanFor
      <4>2. h \in Window /\ owner[h] # NoPid /\ graph'[h] = owner[h]
        BY <3>1, <4>1 DEF Live
      <4>3. QED
        BY <3>2, <4>2
    <3>3. \A i \in snaps : Due(i)'
      <4>1. SUFFICES ASSUME NEW i \in snaps, i \notin Matched'
                     PROVE  miss'[i] < unmatched'[i] \/ unmatched'[i] = RestoreMissThreshold
        OBVIOUS
      <4>2. i \notin {<<h, owner[h]>> : h \in plan'.hide \cup plan'.zero \cup plan'.close}
        BY <3>2, <4>1
      <4>3. /\ i \in Identity
            /\ unmatched'[i] = IF unmatched[i] < RestoreMissThreshold THEN unmatched[i] + 1
                               ELSE RestoreMissThreshold
        BY <3>1, <4>1, <4>2 DEF SnapTypeOK
      <4>4. QED
        BY <2>2, <4>1, <4>3, ThresholdAssumption
    <3>4. QED
      BY <2>1, <2>4, <3>3
  <2>5. QED
    BY <1>9, <2>3, <2>4 DEF Tick
<1>10. ASSUME NEW h \in Window, Capture(h) PROVE MissOK'
  <2>1. h \in plan.hide \cup plan.zero
    BY <1>10 DEF Capture
  <2>2. CASE Precheck(h)
    <3>1. <<h, graph[h]>> \in Matched
      BY <2>1, <2>2, PidAssumption DEF Precheck, ControlTypeOK, NoPid
    <3>2. snaps' \subseteq snaps \cup {<<h, graph[h]>>}
      BY <1>10 DEF Capture, Remember, snapVars
    <3>3. UNCHANGED <<plan, graph, miss, unmatched, pend>> /\ todo' \subseteq todo
      BY <1>10 DEF Capture, tickVars, staleVars, ghostVars
    <3>4. pc \in ApplyPhases /\ pc' \in {"capture", "zero", "zeroCall"}
      BY <1>10 DEF Capture
    <3>5. QED
      BY <1>10, <3>1, <3>2, <3>3, <3>4 DEF Capture
  <2>3. CASE ~Precheck(h)
    BY <1>10, <2>3 DEF Capture, snapVars, tickVars, staleVars, ghostVars
  <2>4. QED
    BY <2>2, <2>3
<1>11. ASSUME NEW h \in Window, HideCheck(h) PROVE MissOK'
    BY <1>11 DEF HideCheck, snapVars, tickVars, staleVars, ghostVars
<1>12. ASSUME NEW h \in Window, ZeroCheck(h) PROVE MissOK'
  <2>1. h \in plan.hide \cup plan.zero
    BY <1>12 DEF ZeroCheck
  <2>2. CASE Precheck(h)
    <3>1. <<h, graph[h]>> \in Matched
      BY <2>1, <2>2, PidAssumption DEF Precheck, ControlTypeOK, NoPid
    <3>2. snaps' \subseteq snaps \cup {<<h, graph[h]>>}
      BY <1>12 DEF ZeroCheck, Remember, snapVars
    <3>3. UNCHANGED <<plan, graph, miss, unmatched, pend>> /\ todo' \subseteq todo
      BY <1>12 DEF ZeroCheck, tickVars, staleVars, ghostVars
    <3>4. pc \in ApplyPhases /\ pc' \in {"capture", "zero", "zeroCall"}
      BY <1>12 DEF ZeroCheck
    <3>5. QED
      BY <1>12, <3>1, <3>2, <3>3, <3>4 DEF ZeroCheck
  <2>3. CASE ~Precheck(h)
    BY <1>12, <2>3 DEF ZeroCheck, snapVars, tickVars, staleVars, ghostVars
  <2>4. QED
    BY <2>2, <2>3
<1>13. ASSUME NEW h \in Window, CloseCheck(h) PROVE MissOK'
    BY <1>13 DEF CloseCheck, snapVars, tickVars, staleVars, ghostVars
<1>14. CASE HideCall
    BY <1>14 DEF HideCall, Suppress, snapVars, tickVars, staleVars
<1>15. CASE ZeroCall
    BY <1>15 DEF ZeroCall, Suppress, snapVars, tickVars, staleVars
<1>16. CASE CloseCall
    BY <1>16 DEF CloseCall, snapVars, tickVars, staleVars
<1>17. CASE NextPhase
    BY <1>17 DEF NextPhase, DropSnapshots, snapVars, tickVars, staleVars, ghostVars
<1>18. CASE BeginStale
    BY <1>18 DEF BeginStale, snapVars, passVars, tickVars, staleVars, ghostVars,
       HistoryTypeOK, StaleTypeOK, SnapTypeOK, EndTick
<1>19. ASSUME NEW i \in Identity, StaleCheck(i) PROVE MissOK'
    BY <1>19, ThresholdAssumption DEF StaleCheck, IsNext, DropStale, DropSnapshots, Misses,
       snapVars, tickVars, ghostVars, HistoryTypeOK, StaleTypeOK, SnapTypeOK
<1>20. CASE StaleCall
    BY <1>20 DEF StaleCall, PutBack, RestoreWindow, DropStale, tickVars, HistoryTypeOK,
       StaleTypeOK, SnapTypeOK
<1>21. CASE StaleDone
    BY <1>21 DEF StaleDone, EndPass, EndTick, snapVars, staleVars, ghostVars
<1>22. CASE KakaoStep
    BY <1>22 DEF KakaoStep, Quiet, snapVars, staleVars, tickVars, passVars
<1>23. CASE \/ ToggleEnabled \/ ResetRestoreFailures \/ RequestStop \/ Scan \/ EarlyWake
         \/ TimeoutWake \/ BeginApply \/ RecoverStep \/ Ended
    BY <1>23 DEF ToggleEnabled, kakaoVars, loopVars, tickVars, passVars, snapVars, staleVars,
       ResetRestoreFailures, ghostVars, RequestStop, Scan, flagVars, EarlyWake, EndWait,
       TimeoutWake, BeginApply, RecoverStep, engineVars, Ended, vars
<1>24. QED
    BY <1>1, <1>2, <1>3, <1>4, <1>5, <1>6, <1>7, <1>8, <1>9, <1>10, <1>11, <1>12, <1>13,
       <1>14, <1>15, <1>16, <1>17, <1>18, <1>19, <1>20, <1>21, <1>22, <1>23
    DEF Next, Worker, Drain, Apply, Stale, Tray

\* Steps that change nothing keep the invariant.
LEMMA SafeStutter ==
    ASSUME Safe, UNCHANGED vars
    PROVE  Safe'
<1>1. UNCHANGED <<owner, enabled, stopping, gauge, pc, wasEnabled, offArmed, graph, plan, todo,
                  pend, cur, ctx, snaps, miss, attempts, hid, flat, settled, uncaptured, late,
                  unmatched>>
  BY DEF vars, engineVars, kakaoVars, flagVars, loopVars, tickVars, passVars, snapVars,
     staleVars, ghostVars
<1>2. Sound'
  BY TypesStutter DEF Safe, Sound
<1>3. NothingOrphaned' /\ LateOK' /\ OrderOK'
  BY <1>1 DEF Safe, NothingOrphaned, Suppressed, Recorded, Restoring, LateOK, LateSuppression,
     OrderOK
<1>4. GaugeOK' /\ OffOK'
  BY <1>1 DEF Safe, GaugeOK, Stuck, OffOK
<1>5. MissOK'
  BY <1>1 DEF Safe, MissOK, Matched, Due, Counted, Recorded, Restoring
<1>6. QED
  BY <1>2, <1>3, <1>4, <1>5 DEF Safe

----------------------------------------------------------------------------
(* The invariant, and what follows from it.                                 *)

\* It holds at the start ...
LEMMA SafeInit ==
    ASSUME Init
    PROVE  Safe
<1>1. Sound
  BY TypesInit DEF Sound
<1>2. NothingOrphaned /\ LateOK /\ OrderOK /\ MissOK
  BY ThresholdAssumption DEF Init, NothingOrphaned, Suppressed, LateOK, LateSuppression, OrderOK,
     MissOK, ApplyPhases, Recorded, Restoring
<1>3. Cardinality({}) = 0
  BY FS_EmptySet
<1>4. GaugeOK /\ OffOK
  <2>1. Stuck \cap snaps = {} /\ snaps = {} /\ gauge = 0 /\ pc = "top"
    BY DEF Init
  <2>2. QED
    BY <1>3, <2>1 DEF GaugeOK, OffOK, OnPhases
<1>5. QED
  BY <1>1, <1>2, <1>4 DEF Safe

\* ... and through every step ...
LEMMA SafeNext ==
    ASSUME Safe, [Next]_vars
    PROVE  Safe'
<1>1. CASE Next
  <2>1. Sound'
    BY <1>1, TypesStep DEF Safe, Sound
  <2>2. NothingOrphaned' /\ LateOK' /\ OrderOK'
    BY <1>1, OrphanStep, LateStep, OrderStep DEF Safe
  <2>3. GaugeOK' /\ OffOK' /\ MissOK'
    BY <1>1, GaugeStep, OffStep, MissStep DEF Safe
  <2>4. QED
    BY <2>1, <2>2, <2>3 DEF Safe
<1>2. CASE UNCHANGED vars
  BY <1>2, SafeStutter
<1>3. QED
  BY <1>1, <1>2

\* ... so it always holds.
LEMMA Safety == Spec => []Safe
<1>1. Init => Safe
  BY SafeInit
<1>2. Safe /\ [Next]_vars => Safe'
  BY SafeNext
<1>3. QED
  BY <1>1, <1>2, PTL DEF Spec

\* The engine never loses the way to bring a suppressed window back: through every
\* move of a snapshot between the map, a drained list and a restore in progress
\* (restore.rs, apply.rs), whatever KakaoTalk and the tray do meanwhile.
THEOREM NothingOrphanedAlways == Spec => []NothingOrphaned
<1>1. Safe => NothingOrphaned
  BY DEF Safe
<1>2. QED
  BY <1>1, Safety, PTL

\* Switching off and stopping take effect with the call that is under way
\* (precheck in apply.rs reads the flags before every call).
THEOREM SuppressionEnds == Spec => []LateSuppression
<1>1. Safe => LateSuppression
  BY DEF Safe, LateOK
<1>2. QED
  BY <1>1, Safety, PTL

\* The drain at exit gets to windows that failed before only when every other
\* suppressed window has been tried (drain_restore_all_final).
THEOREM HealthyWindowsFirst == Spec => []HealthyFirst
<1>1. Safe => HealthyFirst
  <2>1. SUFFICES ASSUME Safe, pc = "drainCall", ctx = "final", attempts[cur] > 0,
                        NEW h \in Suppressed
                 PROVE  attempts[<<h, owner[h]>>] > 0 \/ <<h, owner[h]>> \in snaps
    BY DEF HealthyFirst
  <2>2. <<h, owner[h]>> \in snaps \cup pend \cup {cur}
    BY <2>1 DEF Safe, NothingOrphaned, Recorded, Restoring
  <2>3. \A j \in pend : attempts[j] > 0
    BY <2>1 DEF Safe, OrderOK
  <2>4. QED
    BY <2>1, <2>2, <2>3
<1>2. QED
  BY <1>1, Safety, PTL

\* Between rounds no window that is held in a failed restore is missing from the
\* failure count (report_restore, restore_failure_count).
THEOREM GaugeNeverHides == Spec => []GaugeCoversStuck
<1>1. Safe => GaugeCoversStuck
  BY DEF Safe, GaugeOK, GaugeCoversStuck
<1>2. QED
  BY <1>1, Safety, PTL

\* After a round with the switch off the count is exact, and zero means that no
\* suppressed window is left (OffRestore.retry).
THEOREM OffCountIsTrue == Spec => []OffReportsTruth
<1>1. Safe => OffReportsTruth
  <2>1. SUFFICES ASSUME Safe, pc = "wait", ~wasEnabled
                 PROVE  gauge = Cardinality(snaps) /\ (gauge = 0 => Suppressed = {})
    BY DEF OffReportsTruth
  <2>2. gauge = Cardinality(snaps)
    BY <2>1 DEF Safe, OffOK
  <2>3. ASSUME gauge = 0
        PROVE  Suppressed = {}
    <3>1. snaps = {}
      <4>1. snaps \in SUBSET Identity
        BY <2>1 DEF Safe, Sound, TypeOK, SnapTypeOK
      <4>2. Cardinality(snaps) = 0
        BY <2>2, <2>3
      <4>3. QED
        BY <4>1, <4>2, CountEmpty
    <3>2. Recorded = {}
      BY <2>1, <3>1 DEF Safe, Sound, PassOK, Recorded, Restoring
    <3>3. QED
      BY <2>1, <3>2 DEF Safe, NothingOrphaned
  <2>4. QED
    BY <2>2, <2>3
<1>2. QED
  BY <1>1, Safety, PTL

\* A window comes back only after RESTORE_MISS_THRESHOLD evaluations in a row without
\* a match (restore_stale_hidden), even when it was dropped and captured again.
THEOREM NoFlickerEver == Spec => []NoFlicker
<1>1. Safe => NoFlicker
  BY ThresholdAssumption DEF Safe, MissOK, NoFlicker
<1>2. QED
  BY <1>1, Safety, PTL

----------------------------------------------------------------------------
(* RestoreEngine implements RestoreLedger.  Only the ends of restores, the *)
(* calls that suppress, the first snapshot of a window and the dropping of *)
(* snapshots mean anything to the ledger; every other step is a stutter or *)
(* a step of the desktop.                                                  *)

\* What a pass has taken out of the map is not in it, and while a window is being
\* restored its handle belongs to it or to nobody.
Apart ==
    /\ hid \cap shown = {} /\ flat \cap sized = {}
    /\ pc \in {"drain", "drainCall"} => snaps \cap pend = {}
    /\ Restoring => cur \notin snaps \cup pend /\ (IdentityMatches(cur) \/ cur[1] \notin Live)

Bound == Safe /\ Apart

\* The variables of the ledger.
Exists == {<<h, owner[h]>> : h \in Live}
Face   == [i \in Identity |->
             (IF IdentityMatches(i) /\ i[1] \in shown THEN {"shown"} ELSE {}) \cup
             (IF IdentityMatches(i) /\ i[1] \in sized THEN {"sized"} ELSE {})]
Record == [i \in Identity |-> (IF i \in wasVisible THEN {"shown"} ELSE {}) \cup
                              (IF i \in hadSize THEN {"sized"} ELSE {})]
Down   == {<<h, owner[h]>> : h \in Suppressed}

Reads ==
    /\ Exists \subseteq Identity
    /\ \A i \in Identity : i \in Exists <=> IdentityMatches(i)
    /\ Down \subseteq Identity
    /\ \A i \in Identity : i \in Down <=> IdentityMatches(i) /\ i[1] \in Suppressed
    /\ Recorded \subseteq Identity

----------------------------------------------------------------------------
(* The steps of the ledger, in these words.                                *)

\* What the ledger's variables say, in terms of windows.
LEMMA Reading == TypeOK /\ PassOK => Reads
<1> SUFFICES ASSUME TypeOK, PassOK PROVE Reads
  OBVIOUS
<1>1. /\ owner \in [Window -> Pid \cup {NoPid}]
      /\ Suppressed \subseteq Live /\ Live \subseteq Window
  BY DEF TypeOK, KakaoTypeOK, HistoryTypeOK, Suppressed, Live
<1>2. \A h \in Live : owner[h] \in Pid
  BY <1>1 DEF Live
<1>3. Exists \subseteq Identity /\ Down \subseteq Identity
  BY <1>1, <1>2 DEF Exists, Down, Identity
<1>4. ASSUME NEW i \in Identity
      PROVE  i = <<i[1], i[2]>> /\ i[1] \in Window /\ i[2] \in Pid
  BY DEF Identity
<1>5. ASSUME NEW i \in Identity
      PROVE  /\ i \in Exists <=> IdentityMatches(i)
             /\ i \in Down <=> IdentityMatches(i) /\ i[1] \in Suppressed
  <2>1. IdentityMatches(i) => i[1] \in Live
    BY <1>4, PidAssumption DEF IdentityMatches, Live
  <2>2. \A h : i = <<h, owner[h]>> <=> i[1] = h /\ IdentityMatches(i)
    BY <1>4 DEF IdentityMatches
  <2> QED
    BY <2>1, <2>2 DEF Exists, Down
<1>6. Recorded \subseteq Identity
  BY DEF TypeOK, SnapTypeOK, PassOK, Recorded, Restoring
<1> QED
  BY <1>3, <1>5, <1>6 DEF Reads

\* A step that changes neither windows nor records is none to the ledger.
LEMMA Stutters ==
    ASSUME UNCHANGED <<owner, shown, sized, hid, flat, settled, uncaptured, wasVisible, hadSize>>,
           Recorded' = Recorded
    PROVE  UNCHANGED Ledger!vars
<1>1. Live' = Live /\ Suppressed' = Suppressed /\ \A i : IdentityMatches(i)' = IdentityMatches(i)
  BY DEF Live, Suppressed, IdentityMatches
<1>2. Exists' = Exists /\ Down' = Down
  BY <1>1 DEF Exists, Down
<1>3. Face' = Face /\ Record' = Record
  BY <1>1 DEF Face, Record
<1> QED
  BY <1>2, <1>3 DEF Ledger!vars, Exists, Face, Record, Down

\* What is on the ledger stays.
Held == Recorded' = Recorded /\ UNCHANGED <<wasVisible, hadSize>>

\* Windows change, the ledger stays.
LEMMA DesktopMaps ==
    ASSUME Reads, Reads', Held,
           \A h \in Suppressed' : h \in Suppressed /\ owner'[h] = owner[h],
           \A h \in Suppressed \ Suppressed' : owner'[h] = owner[h] => h \in shown' \cup sized'
    PROVE  Ledger!World
<1>1. Exists' \subseteq Identity
  BY DEF Reads
<1>2. Face' \in [Identity -> SUBSET {"shown", "sized"}]
  BY DEF Face
<1>3. Down' \subseteq Down
  BY DEF Down
<1>4. \A i \in Down \ Down' : i \in Exists' => Face'[i] # {}
  <2> SUFFICES ASSUME NEW i \in Down, i \notin Down', i \in Exists'
               PROVE  Face'[i] # {}
    OBVIOUS
  <2>1. i \in Identity /\ IdentityMatches(i) /\ IdentityMatches(i)'
    BY DEF Reads
  <2>2. i[1] \in Suppressed \ Suppressed'
    BY <2>1 DEF Reads
  <2>3. i[1] \in shown' \cup sized'
    BY <2>1, <2>2 DEF IdentityMatches
  <2> QED
    BY <2>1, <2>3 DEF Face
<1>5. Down' \subseteq Exists'
  BY DEF Reads
<1>6. Record' = Record /\ Recorded' = Recorded
  BY DEF Held, Record
<1> QED
  BY <1>1, <1>2, <1>3, <1>4, <1>5, <1>6 DEF Ledger!World, Ledger!Face, Exists, Face, Record, Down

\* Every window stays as it is.
Calm == UNCHANGED <<owner, shown, sized, hid, flat, settled, uncaptured>>

\* Such a step changes nothing but the entries.
LEMMA CalmReads ==
    ASSUME Calm
    PROVE  Exists' = Exists /\ Face' = Face /\ Down' = Down
<1>1. Live' = Live /\ Suppressed' = Suppressed /\ \A i : IdentityMatches(i)' = IdentityMatches(i)
  BY DEF Calm, Live, Suppressed, IdentityMatches
<1> QED
  BY <1>1 DEF Calm, Exists, Face, Down

\* A first snapshot is an entry with the present look.
LEMMA EnterMaps ==
    ASSUME TypeOK, Reads, Calm, NEW i \in Identity, IdentityMatches(i), i \notin Recorded,
           Recorded' = Recorded \cup {i},
           wasVisible' = IF i[1] \in shown THEN wasVisible \cup {i} ELSE wasVisible,
           hadSize' = IF i[1] \in sized THEN hadSize \cup {i} ELSE hadSize
    PROVE  Ledger!Enter(i)
<1>1. Exists' = Exists /\ Face' = Face /\ Down' = Down
  BY CalmReads
<1>2. i \in Exists \ Recorded
  BY DEF Reads
<1>3. i \notin wasVisible /\ i \notin hadSize
  BY DEF TypeOK, SnapTypeOK
<1>4. Record' = [Record EXCEPT ![i] = Face[i]]
  BY <1>3 DEF Record, Face
<1> QED
  BY <1>1, <1>2, <1>4 DEF Ledger!Enter, Exists, Face, Record, Down

\* Snapshots of windows that are gone are dropped.
LEMMA ForgetMaps ==
    ASSUME Reads, Calm, NEW S \in SUBSET Recorded, \A i \in S : ~IdentityMatches(i),
           Recorded' = Recorded \ S, wasVisible' = wasVisible \ S, hadSize' = hadSize \ S
    PROVE  Ledger!Forget(S)
<1>1. Exists' = Exists /\ Face' = Face /\ Down' = Down
  BY CalmReads
<1>2. S \subseteq Recorded \ Exists
  BY DEF Reads
<1>3. Record' = [i \in Identity |-> IF i \in S THEN {} ELSE Record[i]]
  BY DEF Record
<1> QED
  BY <1>1, <1>2, <1>3 DEF Ledger!Forget, Exists, Face, Record, Down

\* Another window than i is suppressed if and only if it was.
Others(i) == \A h \in Window \ {i[1]} : h \in Suppressed' <=> h \in Suppressed

\* The look of one window changes.
LEMMA OneFace ==
    ASSUME NEW i \in Identity, \A j \in Identity \ {i} : Face'[j] = Face[j]
    PROVE  Face' = [Face EXCEPT ![i] = Face'[i]]
<1>1. /\ Face \in [Identity -> SUBSET {"shown", "sized"}]
      /\ Face' \in [Identity -> SUBSET {"shown", "sized"}]
  BY DEF Face
<1> QED
  BY <1>1

\* A window on the ledger is suppressed.
LEMMA PutDownMaps ==
    ASSUME Reads, Reads', Held, UNCHANGED owner, NEW i \in Identity, IdentityMatches(i),
           i \in Recorded, Others(i), i[1] \in Suppressed',
           shown' \in {shown, shown \ {i[1]}}, sized' \in {sized, sized \ {i[1]}}
    PROVE  Ledger!PutDown(i)
<1>1. \A j \in Identity : IdentityMatches(j)' <=> IdentityMatches(j)
  BY DEF IdentityMatches
<1>2. i \in Recorded \cap Exists /\ Exists' = Exists
  BY <1>1 DEF Reads
<1>3. \A j \in Identity : IdentityMatches(j) /\ j # i => j[1] # i[1]
  BY DEF IdentityMatches, Identity
<1>4. Down' = Down \cup {i}
  <2>1. \A j \in Identity : j \in Down' <=> j \in Down \/ j = i
    BY <1>1, <1>3 DEF Reads, Others, Identity
  <2> QED
    BY <2>1 DEF Reads
<1>5. Face'[i] \in SUBSET Face[i]
  BY <1>1 DEF Face
<1>6. \A j \in Identity \ {i} : Face'[j] = Face[j]
  BY <1>1, <1>3 DEF Face
<1>7. Face' = [Face EXCEPT ![i] = Face'[i]]
  BY <1>6, OneFace
<1>8. \E f \in SUBSET Face[i] : Face' = [Face EXCEPT ![i] = f]
  BY <1>5, <1>7
<1>9. Record' = Record /\ Recorded' = Recorded
  BY DEF Held, Record
<1> QED
  BY <1>2, <1>4, <1>8, <1>9 DEF Ledger!PutDown, Exists, Face, Record, Down

\* A window looks like its entry again, and the entry is closed.
LEMMA SettleMaps ==
    ASSUME Reads, Reads', UNCHANGED owner, NEW i \in Identity, IdentityMatches(i),
           i \in Recorded, Others(i), i[1] \notin Suppressed',
           shown' \in {shown, shown \cup {i[1]}}, sized' \in {sized, sized \cup {i[1]}},
           i \in wasVisible => i[1] \in shown', i \in hadSize => i[1] \in sized',
           Recorded' = Recorded \ {i}, wasVisible' = wasVisible \ {i}, hadSize' = hadSize \ {i}
    PROVE  Ledger!Settle(i)
<1>1. \A j \in Identity : IdentityMatches(j)' <=> IdentityMatches(j)
  BY DEF IdentityMatches
<1>2. i \in Recorded \cap Exists /\ Exists' = Exists
  BY <1>1 DEF Reads
<1>3. \A j \in Identity : IdentityMatches(j) /\ j # i => j[1] # i[1]
  BY DEF IdentityMatches, Identity
<1>4. Down' = Down \ {i}
  <2>1. \A j \in Identity : j \in Down' <=> j \in Down /\ j # i
    BY <1>1, <1>3 DEF Reads, Others, Identity
  <2> QED
    BY <2>1 DEF Reads
<1>5. Face'[i] \in SUBSET {"shown", "sized"} /\ Record[i] \subseteq Face'[i]
  BY <1>1 DEF Face, Record
<1>6. \A j \in Identity \ {i} : Face'[j] = Face[j]
  BY <1>1, <1>3 DEF Face
<1>7. Face' = [Face EXCEPT ![i] = Face'[i]]
  BY <1>6, OneFace
<1>8. \E f \in SUBSET {"shown", "sized"} : Record[i] \subseteq f /\ Face' = [Face EXCEPT ![i] = f]
  BY <1>5, <1>7
<1>9. Record' = [Record EXCEPT ![i] = {}]
  BY DEF Record
<1> QED
  BY <1>2, <1>4, <1>8, <1>9 DEF Ledger!Settle, Ledger!Face, Exists, Face, Record, Down

----------------------------------------------------------------------------
(* Apart is kept.                                                          *)

\* It holds at the start ...
LEMMA ApartInit == Init => Apart
  BY DEF Init, Apart, Restoring

\* A window whose call is checked is not given to another process before the call.
LEMMA ApartStep ==
    ASSUME Safe, Apart, Next
    PROVE  Apart'
<1> USE DEF Apart, Restoring
<1>1. TypeOK /\ PassOK /\ TypeOK' /\ PassOK'
  BY TypesStep, PassStep DEF Safe, Sound
<1>2. CASE KakaoStep
  <2>1. UNCHANGED <<pc, snaps, pend, cur>>
    BY <1>2 DEF KakaoStep, passVars, snapVars
  <2>2. hid' \cap shown' = {} /\ flat' \cap sized' = {}
    BY <1>2 DEF KakaoStep, Quiet, Observe
  <2>3. ASSUME Restoring PROVE IdentityMatches(cur)' \/ cur'[1] \notin Live'
    <3>1. cur[1] \in Window /\ cur[2] \in Pid
      BY <1>1, <2>3 DEF PassOK, Identity
    <3>2. owner'[cur[1]] \in {owner[cur[1]], NoPid}
      BY <1>1, <1>2, <3>1 DEF KakaoStep, Launch, Quit, Create, Destroy, Vanish, Show, Hide, Resize,
         ChangeContent, Hang, Refuse, TypeOK, KakaoTypeOK
    <3> QED
      BY <2>1, <2>3, <3>1, <3>2 DEF IdentityMatches, Live
  <2> QED
    BY <2>1, <2>2, <2>3
<1>3. CASE HideCall
  BY <1>3 DEF HideCall, Suppress, Observe, snapVars
<1>4. CASE ZeroCall
  BY <1>4 DEF ZeroCall, Suppress, Observe, snapVars
<1>5. CASE CloseCall
  BY <1>5 DEF CloseCall, Observe, snapVars
<1>6. CASE DrainCall
  BY <1>6 DEF DrainCall, RestoreWindow, PutBack, Observe
<1>7. CASE StaleCall
  BY <1>7 DEF StaleCall, RestoreWindow, PutBack, Observe
<1>8. ASSUME NEW i \in Identity, DrainCheck(i) PROVE Apart'
  BY <1>8 DEF DrainCheck, IsNext, kakaoVars, ghostVars, snapVars, IdentityMatches
<1>9. ASSUME NEW i \in Identity, StaleCheck(i) PROVE Apart'
  BY <1>1, <1>9 DEF StaleCheck, IsNext, DropSnapshots, PassOK, kakaoVars, ghostVars, snapVars,
     IdentityMatches
<1>10. CASE OffRetry \/ AbsentRetry \/ LeaveLoop
  BY <1>10 DEF OffRetry, AbsentRetry, LeaveLoop, NoRetry, StartDrain, kakaoVars, ghostVars
<1>11. CASE AbandonWorker \/ DrainDone \/ StaleDone \/ BeginStale \/ NextPhase
  BY <1>11 DEF AbandonWorker, DrainDone, StaleDone, BeginStale, NextPhase, kakaoVars, ghostVars
<1>12. CASE \/ \E h \in Window : Capture(h) \/ HideCheck(h) \/ ZeroCheck(h) \/ CloseCheck(h)
            \/ BeginApply \/ Tick \/ LoopTop \/ Scan \/ EarlyWake \/ TimeoutWake
  BY <1>12 DEF Capture, HideCheck, ZeroCheck, CloseCheck, BeginApply, Tick, LoopTop, Scan,
     EarlyWake, TimeoutWake, EndWait, kakaoVars, ghostVars
<1>13. CASE ToggleEnabled \/ ResetRestoreFailures \/ RequestStop \/ Ended \/ RecoverStep
  BY <1>13 DEF ToggleEnabled, ResetRestoreFailures, RequestStop, Ended, RecoverStep, Recover, vars,
     engineVars, kakaoVars, passVars, snapVars, ghostVars, IdentityMatches, Live
<1> QED
  BY <1>2, <1>3, <1>4, <1>5, <1>6, <1>7, <1>8, <1>9, <1>10, <1>11, <1>12, <1>13
     DEF Next, Worker, Drain, Apply, Stale, Tray

\* The invariant the ledger rests on.
LEMMA BoundAlways == Spec => []Bound
<1>1. Init => Bound
  BY SafeInit, ApartInit DEF Bound
<1>2. Bound /\ [Next]_vars => Bound'
  <2> SUFFICES ASSUME Bound, [Next]_vars PROVE Bound'
    OBVIOUS
  <2>1. CASE Next
    BY <2>1, SafeNext, ApartStep DEF Bound
  <2>2. CASE UNCHANGED vars
    <3>1. Apart'
      BY <2>2 DEF Bound, Apart, Restoring, IdentityMatches, Live, vars, engineVars, kakaoVars,
         passVars, snapVars, ghostVars
    <3> QED
      BY <2>2, <3>1, SafeNext DEF Bound
  <2> QED
    BY <2>1, <2>2
<1> QED
  BY <1>1, <1>2, PTL DEF Spec

----------------------------------------------------------------------------
(* Every step is a step of the ledger or none.                             *)

\* Both ends of a step can be read in these words.
LEMMA BothRead ==
    ASSUME Bound, Next
    PROVE  TypeOK /\ PassOK /\ Reads /\ Reads'
<1>1. TypeOK /\ PassOK /\ TypeOK' /\ PassOK'
  BY TypesStep, PassStep DEF Bound, Safe, Sound
<1>2. TypeOK' /\ PassOK' => Reads'
  BY Reading, PTL
<1> QED
  BY <1>1, <1>2, Reading

\* KakaoTalk's own steps.
LEMMA KakaoMaps ==
    ASSUME Bound, KakaoStep
    PROVE  Ledger!World
<1>1. TypeOK /\ Reads /\ Reads'
  BY BothRead DEF Next
<1>2. Held
  BY DEF KakaoStep, Held, Recorded, Restoring, passVars, snapVars
<1>3. \A h \in Live \cap Live' : owner'[h] = owner[h]
  BY <1>1 DEF KakaoStep, Launch, Quit, Create, Destroy, Vanish, Show, Hide, Resize,
     ChangeContent, Hang, Refuse, TypeOK, KakaoTypeOK, Live
<1>4. Suppressed \subseteq Live
  BY <1>1 DEF TypeOK, HistoryTypeOK, Suppressed
<1>5. Suppressed' \subseteq Suppressed \cap Live'
  BY DEF KakaoStep, Quiet, Observe, Suppressed
<1>6. ASSUME NEW h \in Suppressed \ Suppressed', owner'[h] = owner[h]
      PROVE  h \in shown' \cup sized'
  <2>1. h \in Live'
    BY <1>4, <1>6 DEF Live
  <2> QED
    BY <1>6, <2>1 DEF KakaoStep, Quiet, Observe, Suppressed
<1> QED
  BY <1>1, <1>2, <1>3, <1>4, <1>5, <1>6, DesktopMaps

\* A request to close that may take windows away.
LEMMA CloseMaps ==
    ASSUME Bound, CloseCall
    PROVE  Ledger!World
<1>1. TypeOK /\ Reads /\ Reads'
  BY BothRead DEF Next, Worker, Apply
<1>2. Held
  BY DEF CloseCall, Held, Recorded, Restoring, snapVars
<1>3. \A h \in Live \cap Live' : owner'[h] = owner[h]
  BY DEF CloseCall, Vanish, Live
<1>4. Suppressed \subseteq Live
  BY <1>1 DEF TypeOK, HistoryTypeOK, Suppressed
<1>5. Suppressed' \subseteq Suppressed \cap Live'
  BY DEF CloseCall, Observe, Suppressed
<1>6. ASSUME NEW h \in Suppressed \ Suppressed', owner'[h] = owner[h]
      PROVE  h \in shown' \cup sized'
  <2>1. h \in Live'
    BY <1>4, <1>6 DEF Live
  <2> QED
    BY <1>6, <2>1 DEF CloseCall, Observe, Suppressed
<1> QED
  BY <1>1, <1>2, <1>3, <1>4, <1>5, <1>6, DesktopMaps

\* The calls that suppress: with the snapshot in the map a window is put down, without
\* it nothing that counts as suppressed is added.
LEMMA SuppressMaps ==
    ASSUME Bound, HideCall \/ ZeroCall
    PROVE  (\E i \in Identity : Ledger!PutDown(i)) \/ Ledger!World
<1>1. TypeOK /\ PassOK /\ Reads /\ Reads'
  BY BothRead DEF Next, Worker, Apply
<1>2. cur \in Identity /\ cur[1] \in Window /\ (cur \in snaps => cur \in Recorded)
  BY <1>1 DEF PassOK, HideCall, ZeroCall, Identity, Recorded
<1>3. Held /\ UNCHANGED owner /\ Live' = Live
  BY <1>1 DEF HideCall, ZeroCall, Suppress, Held, Recorded, Restoring, snapVars, Live, PassOK
<1>4. /\ hid \subseteq Live /\ flat \subseteq Live /\ uncaptured \subseteq hid
      /\ settled \subseteq hid \cup flat
      /\ hid \cap shown = {} /\ flat \cap sized = {}
  BY <1>1 DEF TypeOK, HistoryTypeOK, Bound, Apart
<1>5. PICK hides \in SUBSET {cur[1]}, flattens \in SUBSET {cur[1]} :
        /\ hides \subseteq shown /\ flattens \subseteq sized
        /\ hides \cup flattens # {} => IdentityMatches(cur)
        /\ cur \notin snaps => flattens = {}
        /\ shown' = shown \ hides /\ sized' = sized \ flattens
        /\ hid' = ((hid \cup hides) \ shown') \cap Live'
        /\ flat' = ((flat \cup flattens) \ sized') \cap Live'
        /\ settled' = (IF cur \in snaps THEN settled \ (hides \cup flattens) ELSE settled)
                         \cap (hid' \cup flat')
        /\ uncaptured' = (IF cur \in snaps THEN uncaptured ELSE uncaptured \cup hides) \cap hid'
  <2>1. CASE HideCall
    <3> DEFINE hd == IF IdentityMatches(cur) /\ cur[1] \notin refusing
                       THEN {cur[1]} \cap shown ELSE {}
    <3>1. /\ shown' = shown \ hd /\ sized' = sized \ {}
          /\ hid' = ((hid \cup hd) \ shown') \cap Live'
          /\ flat' = ((flat \cup {}) \ sized') \cap Live'
          /\ settled' = (IF cur \in snaps THEN settled \ (hd \cup {}) ELSE settled)
                           \cap (hid' \cup flat')
          /\ uncaptured' = (IF cur \in snaps THEN uncaptured ELSE uncaptured \cup hd) \cap hid'
      BY <2>1 DEF HideCall, Suppress, Observe
    <3>2. /\ hd \in SUBSET {cur[1]} /\ hd \subseteq shown
          /\ hd \cup {} # {} => IdentityMatches(cur)
      OBVIOUS
    <3> HIDE DEF hd
    <3> USE <3>2
    <3> WITNESS hd \in SUBSET {cur[1]}, {} \in SUBSET {cur[1]}
    <3> QED
      BY <3>1
  <2>2. CASE ZeroCall
    <3> DEFINE fl == IF IdentityMatches(cur) /\ cur[1] \notin refusing
                       THEN {cur[1]} \cap sized ELSE {}
    <3>0. cur \in snaps
      BY <1>1, <2>2 DEF PassOK, ZeroCall
    <3>1. /\ shown' = shown \ {} /\ sized' = sized \ fl
          /\ hid' = ((hid \cup {}) \ shown') \cap Live'
          /\ flat' = ((flat \cup fl) \ sized') \cap Live'
          /\ settled' = (IF cur \in snaps THEN settled \ ({} \cup fl) ELSE settled)
                           \cap (hid' \cup flat')
          /\ uncaptured' = (IF cur \in snaps THEN uncaptured ELSE uncaptured \cup {}) \cap hid'
      BY <2>2 DEF ZeroCall, Suppress, Observe
    <3>2. fl \subseteq {cur[1]} /\ fl \subseteq sized /\ (fl # {} => IdentityMatches(cur))
      OBVIOUS
    <3> HIDE DEF fl
    <3> QED
      BY <3>0, <3>1, <3>2
  <2> QED
    BY <2>1, <2>2
<1>6. shown \subseteq Live /\ sized \subseteq Live
  BY <1>1 DEF TypeOK, KakaoTypeOK
<1>7. CASE cur \in snaps /\ hides \cup flattens # {}
  <2>0. PICK i \in Identity : i = cur
    BY <1>2
  <2>1. i[1] \in Suppressed'
    BY <1>3, <1>4, <1>5, <1>6, <1>7, <2>0 DEF Suppressed
  <2>2. Others(i)
    BY <1>3, <1>4, <1>5, <1>6, <1>7, <2>0 DEF Suppressed, Others
  <2>3. shown' \in {shown, shown \ {i[1]}} /\ sized' \in {sized, sized \ {i[1]}}
    BY <1>5, <2>0
  <2>4. IdentityMatches(i) /\ i \in Recorded
    BY <1>2, <1>5, <1>7, <2>0
  <2>5. Ledger!PutDown(i)
    BY <1>1, <1>3, <2>1, <2>2, <2>3, <2>4, PutDownMaps
  <2> QED
    BY <2>5
<1>8. CASE cur \notin snaps \/ hides \cup flattens = {}
  <2>1. Suppressed' = Suppressed
    BY <1>3, <1>4, <1>5, <1>6, <1>8 DEF Suppressed
  <2> QED
    BY <1>1, <1>3, <2>1, DesktopMaps
<1> QED
  BY <1>7, <1>8

\* The end of a restore: done, gone, or back on the list.
LEMMA RestoreMaps ==
    ASSUME Bound, DrainCall \/ StaleCall
    PROVE  \/ \E i \in Identity : Ledger!Settle(i)
           \/ \E S \in SUBSET Recorded : Ledger!Forget(S)
           \/ Ledger!World
<1>1. TypeOK /\ PassOK /\ Reads /\ Reads'
  BY BothRead DEF Next, Worker, Drain, Stale
<1>2. PICK done \in BOOLEAN : RestoreWindow(done) /\ PutBack(done)
  BY DEF DrainCall, StaleCall
<1>3. PICK i \in Identity : i = cur
  BY <1>1 DEF PassOK, DrainCall, StaleCall
<1>4. /\ i \in Recorded /\ i \notin snaps \cup pend
      /\ IdentityMatches(i) \/ i[1] \notin Live
      /\ hid \cap shown = {} /\ flat \cap sized = {}
  BY <1>3 DEF Bound, Apart, Recorded, Restoring, DrainCall, StaleCall
<1>5. /\ hid \subseteq Live /\ flat \subseteq Live /\ uncaptured \subseteq hid
      /\ settled \subseteq hid \cup flat
      /\ shown \subseteq Live /\ sized \subseteq Live /\ Live \subseteq Window
  BY <1>1 DEF TypeOK, HistoryTypeOK, KakaoTypeOK, Live
<1>6. UNCHANGED owner /\ Live' = Live
  BY <1>2 DEF RestoreWindow, Live
<1>7. Recorded = snaps \cup pend \cup {i} /\ Recorded' = IF done THEN snaps \cup pend ELSE Recorded
  BY <1>2, <1>3 DEF Recorded, Restoring, DrainCall, StaleCall, PutBack
<1>8. /\ wasVisible' = IF done THEN wasVisible \ {i} ELSE wasVisible
      /\ hadSize' = IF done THEN hadSize \ {i} ELSE hadSize
  BY <1>2, <1>3 DEF PutBack
<1>9. PICK posOk \in BOOLEAN, showOk \in BOOLEAN :
        /\ ~IdentityMatches(i) => ~posOk /\ ~showOk
        /\ sized' = IF i \in hadSize /\ posOk THEN sized \cup {i[1]} ELSE sized
        /\ shown' = IF i \in wasVisible /\ showOk THEN shown \cup {i[1]} ELSE shown
        /\ done <=> (i \in hadSize => posOk) /\ (i \in wasVisible => i[1] \in shown')
  BY <1>2, <1>3 DEF RestoreWindow
<1>10. /\ hid' = (hid \ shown') \cap Live /\ flat' = (flat \ sized') \cap Live
       /\ settled' = (IF done THEN settled \cup {i[1]} ELSE settled) \cap (hid' \cup flat')
       /\ uncaptured' = uncaptured \cap hid'
  BY <1>2, <1>3, <1>6 DEF RestoreWindow, Observe
<1>11. shown' \in {shown, shown \cup {i[1]}} /\ sized' \in {sized, sized \cup {i[1]}}
  BY <1>9
<1>12. CASE ~done
  <2>1. Held
    BY <1>7, <1>8, <1>12 DEF Held
  <2>2. Suppressed' \subseteq Suppressed
    BY <1>10, <1>12 DEF Suppressed
  <2>3. Suppressed \ Suppressed' \subseteq shown' \cup sized'
    BY <1>5, <1>10, <1>12 DEF Suppressed
  <2> QED
    BY <1>1, <1>6, <2>1, <2>2, <2>3, DesktopMaps
<1>13. CASE done /\ IdentityMatches(i)
  <2>1. i[1] \notin Suppressed'
    BY <1>10, <1>13 DEF Suppressed
  <2>2. Others(i)
    BY <1>4, <1>5, <1>10, <1>11 DEF Suppressed, Others
  <2>3. (i \in wasVisible => i[1] \in shown') /\ (i \in hadSize => i[1] \in sized')
    BY <1>9, <1>13
  <2>4. Recorded' = Recorded \ {i} /\ wasVisible' = wasVisible \ {i} /\ hadSize' = hadSize \ {i}
    BY <1>4, <1>7, <1>8, <1>13
  <2>5. Ledger!Settle(i)
    BY <1>1, <1>4, <1>6, <1>11, <1>13, <2>1, <2>2, <2>3, <2>4, SettleMaps
  <2> QED
    BY <2>5
<1>14. CASE done /\ ~IdentityMatches(i)
  <2>1. UNCHANGED <<shown, sized>>
    BY <1>9, <1>14
  <2>2. UNCHANGED <<hid, flat>>
    BY <1>4, <1>5, <1>10, <2>1
  <2>3. UNCHANGED <<settled, uncaptured>>
    BY <1>4, <1>5, <1>10, <1>14, <2>2
  <2>4. Calm
    BY <1>6, <2>1, <2>2, <2>3 DEF Calm
  <2>5. /\ Recorded' = Recorded \ {i} /\ wasVisible' = wasVisible \ {i} /\ hadSize' = hadSize \ {i}
        /\ {i} \in SUBSET Recorded /\ \A j \in {i} : ~IdentityMatches(j)
    BY <1>4, <1>7, <1>8, <1>14
  <2>6. Ledger!Forget({i})
    BY <1>1, <2>4, <2>5, ForgetMaps
  <2> QED
    BY <2>5, <2>6
<1> QED
  BY <1>12, <1>13, <1>14

\* What a check in front of a call says of the window, and who is recorded then.
LEMMA Checked ==
    ASSUME TypeOK, PassOK, NEW h \in Window, Precheck(h), pc \in {"capture", "zero"}
    PROVE  /\ <<h, graph[h]>> \in Identity /\ IdentityMatches(<<h, graph[h]>>)
           /\ Recorded = snaps
  BY DEF TypeOK, ControlTypeOK, PassOK, Precheck, Identity, Recorded, Restoring

\* The first snapshot of a window.
LEMMA RememberMaps ==
    ASSUME Bound, Next, NEW h \in Window, Precheck(h), Remember(h), pc \in {"capture", "zero"},
           pc' \in {"capture", "zero", "zeroCall"}, UNCHANGED pend, Calm
    PROVE  (\E i \in Identity : Ledger!Enter(i)) \/ UNCHANGED Ledger!vars
<1>1. TypeOK /\ PassOK /\ Reads /\ Reads'
  BY BothRead
<1>2. PICK i \in Identity : i = <<h, graph[h]>>
  BY <1>1, Checked
<1>3. IdentityMatches(i) /\ Recorded = snaps /\ Recorded' = snaps' /\ i[1] = h
  BY <1>1, <1>2, Checked DEF Recorded, Restoring, PassOK
<1>4. CASE i \in snaps
  BY <1>2, <1>3, <1>4, Stutters DEF Remember, snapVars, Calm
<1>5. CASE i \notin snaps
  <2>1. /\ Recorded' = Recorded \cup {i}
        /\ wasVisible' = IF i[1] \in shown THEN wasVisible \cup {i} ELSE wasVisible
        /\ hadSize' = IF i[1] \in sized THEN hadSize \cup {i} ELSE hadSize
    BY <1>2, <1>3, <1>5 DEF Remember
  <2>2. Ledger!Enter(i)
    BY <1>1, <1>3, <1>5, <2>1, EnterMaps
  <2> QED
    BY <2>2
<1> QED
  BY <1>4, <1>5

\* Capture pass and zero-size pass.
LEMMA CaptureMaps ==
    ASSUME Bound, NEW h \in Window, Capture(h) \/ ZeroCheck(h)
    PROVE  (\E i \in Identity : Ledger!Enter(i)) \/ UNCHANGED Ledger!vars
<1>1. Next
  BY DEF Next, Worker, Apply
<1>2. /\ Calm /\ UNCHANGED pend
      /\ pc \in {"capture", "zero"} /\ pc' \in {"capture", "zero", "zeroCall"}
  BY DEF Capture, ZeroCheck, Calm, kakaoVars, ghostVars
<1>3. CASE Precheck(h) /\ Remember(h)
  BY <1>1, <1>2, <1>3, RememberMaps
<1>4. CASE UNCHANGED snapVars
  <2>1. TypeOK /\ PassOK
    BY <1>1, BothRead
  <2>2. Recorded' = Recorded
    BY <1>2, <1>4, <2>1 DEF Recorded, Restoring, snapVars
  <2> QED
    BY <1>2, <1>4, <2>2, Stutters DEF Calm, snapVars
<1> QED
  BY <1>3, <1>4 DEF Capture, ZeroCheck

\* Snapshots whose window is gone are dropped when the restore passes get to them and
\* after the close pass.
LEMMA DropMaps ==
    ASSUME Bound,
           NextPhase \/ \E i \in Identity : DrainCheck(i) \/ StaleCheck(i)
    PROVE  (\E S \in SUBSET Recorded : Ledger!Forget(S)) \/ UNCHANGED Ledger!vars
<1>1. Next
  BY DEF Next, Worker, Apply, Drain, Stale
<1>2. TypeOK /\ PassOK /\ Reads
  BY <1>1, BothRead
<1>3. Calm
  BY DEF NextPhase, DrainCheck, StaleCheck, Calm, kakaoVars, ghostVars
<1>4. ASSUME NextPhase
      PROVE  \/ Recorded' = Recorded /\ UNCHANGED <<wasVisible, hadSize>>
             \/ \E S \in SUBSET Recorded :
                   /\ \A i \in S : ~IdentityMatches(i)
                   /\ Recorded' = Recorded \ S
                   /\ wasVisible' = wasVisible \ S /\ hadSize' = hadSize \ S
  <2>1. Recorded = snaps /\ Recorded' = snaps'
    BY <1>2, <1>4 DEF NextPhase, PassOK, Recorded, Restoring
  <2>2. CASE UNCHANGED snapVars
    BY <2>1, <2>2 DEF snapVars
  <2>3. CASE DropSnapshots({i \in snaps : ~IdentityMatches(i)})
    BY <2>1, <2>3 DEF DropSnapshots
  <2> QED
    BY <1>4, <2>2, <2>3 DEF NextPhase
<1>5. ASSUME NEW i \in Identity, DrainCheck(i)
      PROVE  \/ Recorded' = Recorded /\ UNCHANGED <<wasVisible, hadSize>>
             \/ /\ i \in Recorded /\ ~IdentityMatches(i)
                /\ Recorded' = Recorded \ {i}
                /\ wasVisible' = wasVisible \ {i} /\ hadSize' = hadSize \ {i}
  BY <1>5 DEF Bound, Apart, DrainCheck, IsNext, snapVars, Recorded, Restoring
<1>6. ASSUME NEW i \in Identity, StaleCheck(i)
      PROVE  \/ Recorded' = Recorded /\ UNCHANGED <<wasVisible, hadSize>>
             \/ /\ i \in Recorded /\ ~IdentityMatches(i)
                /\ Recorded' = Recorded \ {i}
                /\ wasVisible' = wasVisible \ {i} /\ hadSize' = hadSize \ {i}
  BY <1>2, <1>6 DEF PassOK, StaleCheck, IsNext, DropSnapshots, snapVars, Recorded, Restoring
<1>7. \/ Recorded' = Recorded /\ UNCHANGED <<wasVisible, hadSize>>
      \/ \E S \in SUBSET Recorded :
            /\ \A i \in S : ~IdentityMatches(i)
            /\ Recorded' = Recorded \ S
            /\ wasVisible' = wasVisible \ S /\ hadSize' = hadSize \ S
  <2> DEFINE Dropped(S) ==
               /\ \A i \in S : ~IdentityMatches(i)
               /\ Recorded' = Recorded \ S
               /\ wasVisible' = wasVisible \ S /\ hadSize' = hadSize \ S
  <2>1. ASSUME NEW i \in Identity, i \in Recorded, ~IdentityMatches(i),
               Recorded' = Recorded \ {i}, wasVisible' = wasVisible \ {i}, hadSize' = hadSize \ {i}
        PROVE  \E S \in SUBSET Recorded : Dropped(S)
    <3>1. {i} \in SUBSET Recorded /\ Dropped({i})
      BY <2>1
    <3> QED
      BY <3>1
  <2> QED
    BY <1>4, <1>5, <1>6, <2>1
<1>8. CASE Recorded' = Recorded /\ UNCHANGED <<wasVisible, hadSize>>
  BY <1>3, <1>8, Stutters DEF Calm
<1>9. ASSUME NEW S \in SUBSET Recorded, \A i \in S : ~IdentityMatches(i),
             Recorded' = Recorded \ S, wasVisible' = wasVisible \ S, hadSize' = hadSize \ S
      PROVE  Ledger!Forget(S)
  BY <1>2, <1>3, <1>9, ForgetMaps
<1> QED
  BY <1>7, <1>8, <1>9

\* All other steps of the worker, the tray and the desktop.
LEMMA OthersStutter ==
    ASSUME Bound, Next,
           \/ ToggleEnabled \/ ResetRestoreFailures \/ RequestStop \/ AbandonWorker
           \/ LoopTop \/ Scan \/ EarlyWake \/ TimeoutWake
           \/ OffRetry \/ AbsentRetry \/ LeaveLoop \/ DrainDone
           \/ Tick \/ BeginApply \/ (\E h \in Window : HideCheck(h) \/ CloseCheck(h))
           \/ BeginStale \/ StaleDone \/ RecoverStep \/ Ended
    PROVE  UNCHANGED Ledger!vars
<1>1. TypeOK /\ PassOK
  BY BothRead
<1>2. CASE ToggleEnabled \/ ResetRestoreFailures \/ RequestStop \/ RecoverStep \/ Ended
  BY <1>2, Stutters DEF ToggleEnabled, ResetRestoreFailures, RequestStop, RecoverStep, Recover,
     Ended, vars, engineVars, kakaoVars, ghostVars, passVars, snapVars, Recorded, Restoring
<1>3. CASE AbandonWorker
  <2>1. Recorded' = Recorded
    BY <1>3 DEF AbandonWorker, EndPass, Recorded, Restoring
  <2> QED
    BY <1>3, <2>1, Stutters DEF AbandonWorker, kakaoVars, ghostVars
<1>4. CASE LoopTop \/ Scan \/ EarlyWake \/ TimeoutWake \/ Tick \/ BeginApply
           \/ \E h \in Window : HideCheck(h) \/ CloseCheck(h)
  <2>1. Recorded' = Recorded
    BY <1>1, <1>4 DEF LoopTop, Scan, EarlyWake, TimeoutWake, EndWait, Tick, BeginApply, HideCheck,
       CloseCheck, PassOK, passVars, snapVars, Recorded, Restoring
  <2> QED
    BY <1>4, <2>1, Stutters DEF LoopTop, Scan, EarlyWake, TimeoutWake, EndWait, Tick, BeginApply,
       HideCheck, CloseCheck, kakaoVars, ghostVars, snapVars
<1>5. CASE OffRetry \/ AbsentRetry \/ LeaveLoop
  <2>1. Recorded' = Recorded
    BY <1>1, <1>5 DEF OffRetry, AbsentRetry, LeaveLoop, NoRetry, StartDrain, PassOK,
       Recorded, Restoring
  <2> QED
    BY <1>5, <2>1, Stutters DEF OffRetry, AbsentRetry, LeaveLoop, kakaoVars, ghostVars
<1>6. CASE DrainDone \/ StaleDone \/ BeginStale
  <2>1. Recorded' = Recorded
    BY <1>1, <1>6 DEF DrainDone, StaleDone, BeginStale, EndPass, PassOK, snapVars,
       Recorded, Restoring
  <2> QED
    BY <1>6, <2>1, Stutters DEF DrainDone, StaleDone, BeginStale, kakaoVars, ghostVars, snapVars
<1> QED
  BY <1>2, <1>3, <1>4, <1>5, <1>6

----------------------------------------------------------------------------
(* The theorem.                                                            *)

\* The worker starts with an empty ledger ...
LEMMA LedgerInit == Init => Ledger!Init
<1> SUFFICES ASSUME Init PROVE Ledger!Init
  OBVIOUS
<1>1. TypeOK /\ PassOK
  BY TypesInit
<1>2. Exists \subseteq Identity
  BY <1>1, Reading DEF Reads
<1>3. Face \in [Identity -> SUBSET {"shown", "sized"}]
  BY DEF Face
<1>4. Recorded = {} /\ Down = {}
  BY DEF Init, Recorded, Restoring, Down, Suppressed
<1>5. Record = [i \in Identity |-> {}]
  BY DEF Init, Record
<1> QED
  BY <1>2, <1>3, <1>4, <1>5 DEF Ledger!Init, Ledger!Face, Exists, Face, Record, Down

\* ... and every step is one of the ledger's or none.
LEMMA LedgerStep == Bound /\ [Next]_vars => [Ledger!Next]_Ledger!vars
<1> SUFFICES ASSUME Bound, [Next]_vars PROVE [Ledger!Next]_Ledger!vars
  OBVIOUS
<1>1. CASE UNCHANGED vars
  <2>1. Recorded' = Recorded
    BY <1>1 DEF vars, engineVars, passVars, snapVars, Recorded, Restoring
  <2> QED
    BY <1>1, <2>1, Stutters DEF vars, engineVars, kakaoVars, ghostVars, snapVars
<1>2. CASE KakaoStep
  BY <1>2, KakaoMaps DEF Ledger!Next
<1>3. CASE CloseCall
  BY <1>3, CloseMaps DEF Ledger!Next
<1>4. CASE HideCall \/ ZeroCall
  BY <1>4, SuppressMaps DEF Ledger!Next
<1>5. CASE DrainCall \/ StaleCall
  BY <1>5, RestoreMaps DEF Ledger!Next
<1>6. CASE \E h \in Window : Capture(h) \/ ZeroCheck(h)
  BY <1>6, CaptureMaps DEF Ledger!Next
<1>7. CASE NextPhase \/ \E i \in Identity : DrainCheck(i) \/ StaleCheck(i)
  BY <1>7, DropMaps DEF Ledger!Next
<1> QED
  BY <1>1, <1>2, <1>3, <1>4, <1>5, <1>6, <1>7, OthersStutter
     DEF Next, Worker, Drain, Apply, Stale, Tray

\* The worker keeps the ledger: a window is entered as it looks before it is suppressed,
\* the entry stays as it is, and it is closed only when the window looks like that again or is
\* gone (remember_snapshot, restore_snapshot, restore_pending, restore_stale_hidden).
THEOREM EngineKeepsLedger == Spec => ImplementsLedger
<1> QED
  BY LedgerInit, LedgerStep, BoundAlways, PTL DEF Spec, ImplementsLedger, Ledger!Spec

----------------------------------------------------------------------------
(* How far the worker is from its end once it was told to stop.            *)

\* What the worker still goes through: the rest of the tick or retry it is in, the end
\* of its wait, the head of the loop, and the drain at the end.
Stage ==
    CASE pc \in {"done", "killed"}                       -> 0
      [] pc \in {"drain", "drainCall"} /\ ctx = "final"  -> 1
      [] pc = "top"                                      -> 2
      [] pc = "wait"                                     -> 3
      [] pc \in {"drain", "drainCall"} /\ ctx # "final"  -> 4
      [] pc \in {"stale", "staleCall"}                   -> 5
      [] pc = "restore"                                  -> 6
      [] pc \in {"close", "closeCall"}                   -> 7
      [] pc \in {"zero", "zeroCall"}                     -> 8
      [] pc \in {"hide", "hideCall"}                     -> 9
      [] pc = "capture"                                  -> 10
      [] pc = "apply"                                    -> 11
      [] pc \in {"build", "off", "absent"}               -> 12
      [] pc = "scan"                                     -> 13

InCall == pc \in {"hideCall", "zeroCall", "closeCall", "staleCall", "drainCall"}

\* A stage is left behind, or a window of its list, or the call for one.
Closer ==
    \/ Stage' < Stage
    \/ /\ Stage' = Stage
       /\ \/ todo' \subseteq todo /\ todo' # todo /\ pend' = pend
          \/ pend' \subseteq pend /\ pend' # pend /\ todo' = todo
          \/ InCall /\ ~InCall' /\ UNCHANGED <<todo, pend>>

LEMMA HeadCloser ==
    ASSUME stopping, LoopTop \/ Scan \/ EarlyWake \/ TimeoutWake \/ OffRetry \/ AbsentRetry \/ LeaveLoop
    PROVE  Closer
<1> USE DEF Closer, Stage
<1>1. CASE LoopTop
  BY <1>1 DEF LoopTop
<1>2. CASE Scan
  BY <1>2 DEF Scan
<1>3. CASE EarlyWake \/ TimeoutWake
  BY <1>3 DEF EarlyWake, TimeoutWake, EndWait
<1>4. CASE OffRetry
  BY <1>4 DEF OffRetry, StartDrain
<1>5. CASE AbsentRetry
  BY <1>5 DEF AbsentRetry, StartDrain
<1>6. CASE LeaveLoop
  BY <1>6 DEF LeaveLoop, StartDrain
<1> QED
  BY <1>1, <1>2, <1>3, <1>4, <1>5, <1>6

LEMMA DrainCloser ==
    ASSUME (\E i \in Identity : DrainCheck(i)) \/ DrainCall \/ DrainDone
    PROVE  Closer
<1> USE DEF Closer, Stage
<1>1. ASSUME NEW i \in Identity, DrainCheck(i)
      PROVE  Closer
  BY <1>1 DEF DrainCheck, IsNext, snapVars
<1>2. CASE DrainCall
  BY <1>2 DEF DrainCall, InCall
<1>3. CASE DrainDone
  BY <1>3 DEF DrainDone
<1> QED
  BY <1>1, <1>2, <1>3

LEMMA TickCloser ==
    ASSUME stopping, Tick \/ Apply
    PROVE  Closer
<1> USE DEF Closer, Stage
<1>1. CASE Tick
  BY <1>1 DEF Tick
<1>2. CASE BeginApply
  BY <1>2 DEF BeginApply
<1>3. ASSUME NEW h \in Window, Capture(h)
      PROVE  Closer
  BY <1>3 DEF Capture
<1>4. ASSUME NEW h \in Window, HideCheck(h)
      PROVE  Closer
  BY <1>4 DEF HideCheck
<1>5. ASSUME NEW h \in Window, ZeroCheck(h)
      PROVE  Closer
  BY <1>5 DEF ZeroCheck
<1>6. ASSUME NEW h \in Window, CloseCheck(h)
      PROVE  Closer
  BY <1>6 DEF CloseCheck
<1>7. CASE HideCall \/ ZeroCall \/ CloseCall
  BY <1>7 DEF HideCall, ZeroCall, CloseCall, InCall
<1>8. CASE NextPhase
  BY <1>8 DEF NextPhase
<1> QED
  BY <1>1, <1>2, <1>3, <1>4, <1>5, <1>6, <1>7, <1>8 DEF Apply

LEMMA StaleCloser ==
    ASSUME Stale
    PROVE  Closer
<1> USE DEF Closer, Stage
<1>1. CASE BeginStale
  BY <1>1 DEF BeginStale
<1>2. ASSUME NEW i \in Identity, StaleCheck(i)
      PROVE  Closer
  <2>1. /\ pc = "stale" /\ pc' \in {"stale", "staleCall"}
        /\ i \in pend /\ pend' = pend \ {i} /\ todo' = todo
    BY <1>2 DEF StaleCheck, IsNext
  <2> QED
    BY <2>1
<1>3. CASE StaleCall
  BY <1>3 DEF StaleCall, InCall
<1>4. CASE StaleDone
  BY <1>4 DEF StaleDone
<1> QED
  BY <1>1, <1>2, <1>3, <1>4 DEF Stale

Loop == Worker \/ EarlyWake \/ TimeoutWake

LEMMA LoopCloser ==
    ASSUME stopping, Loop
    PROVE  Closer
BY HeadCloser, DrainCloser, TickCloser, StaleCloser DEF Loop, Worker, Drain

\* What StopFinishes rests on, for any number of windows and whatever they do meanwhile:
\* a stop request is not taken back, each step of the worker after it brings the end
\* closer, and only the end of the process comes between (LeaveLoop before LoopTop, and
\* no list of a tick or a drain grows while it is worked through; a window that fails in
\* the drain at exit is not tried again).
THEOREM StopIsWorkedOff ==
    Spec => [][ stopping => /\ stopping'
                            /\ Loop => Closer
                            /\ ~Loop => pc' = "killed" \/ UNCHANGED <<pc, ctx, todo, pend>> ]_vars
<1>1. ASSUME stopping, [Next]_vars
      PROVE  stopping'
  <2>1. CASE Loop
    <3>1. UNCHANGED flagVars \/ UNCHANGED stopping
      BY <2>1 DEF Loop, Worker, LoopTop, Scan, EarlyWake, TimeoutWake, EndWait, Drain, OffRetry,
             AbsentRetry, LeaveLoop, DrainCheck, DrainCall, DrainDone, Tick, Apply, BeginApply,
             Capture, HideCheck, ZeroCheck, CloseCheck, HideCall, ZeroCall, CloseCall, NextPhase,
             Stale, BeginStale, StaleCheck, StaleCall, StaleDone
    <3> QED
      BY <1>1, <3>1 DEF flagVars
  <2>2. CASE Tray
    BY <1>1, <2>2 DEF Tray, ToggleEnabled, ResetRestoreFailures, RequestStop, AbandonWorker, flagVars
  <2>3. CASE KakaoStep \/ RecoverStep \/ Ended \/ UNCHANGED vars
    BY <1>1, <2>3 DEF KakaoStep, RecoverStep, Ended, vars, engineVars, flagVars
  <2> QED
    BY <1>1, <2>1, <2>2, <2>3 DEF Next, Loop
<1>2. ASSUME stopping, [Next]_vars, ~Loop
      PROVE  pc' = "killed" \/ UNCHANGED <<pc, ctx, todo, pend>>
  <2>1. CASE Tray
    BY <1>2, <2>1 DEF Tray, ToggleEnabled, ResetRestoreFailures, RequestStop, AbandonWorker,
           tickVars, passVars
  <2>2. CASE KakaoStep \/ RecoverStep \/ Ended \/ UNCHANGED vars
    BY <2>2 DEF KakaoStep, RecoverStep, Ended, vars, engineVars, tickVars, passVars
  <2> QED
    BY <1>2, <2>1, <2>2 DEF Next, Loop
<1> QED
  BY <1>1, <1>2, LoopCloser, PTL DEF Spec

=============================================================================
