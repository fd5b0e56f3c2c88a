----------------------------- MODULE AdEvaluate -----------------------------
(***************************************************************************)
(* evaluate_graph over the rounds of the worker (kakao-core evaluate/):    *)
(* what each branch says of a window, the streaks by which weak evidence   *)
(* is confirmed, the plan of a round and the diagnostic preview of it.     *)
(* Around it KakaoTalk changes its windows, obeys or refuses what the plan *)
(* asks, and the user switches.                                            *)
(*                                                                         *)
(* The branches of a round visit the windows one after the other, but each *)
(* store touches one window only, so the model puts together what the      *)
(* branches offer a window, in their order.                                *)
(***************************************************************************)
EXTENDS WindowTree

CONSTANTS
    CanSay,   \* [Window -> SUBSET Text]: the texts a window may have
    CanLie,   \* [Window -> SUBSET Place]: the rectangles a window may have
    FirstText, FirstPlace, \* what they are at first
    Changes   \* bound: changes of the windows and the switches

ASSUME ChangesAssumption ==
    /\ Changes \in Nat
    /\ CanSay \in [Window -> SUBSET Text] /\ CanLie \in [Window -> SUBSET Place]
    /\ FirstText \in [Window -> Text] /\ FirstPlace \in [Window -> Place]
    /\ \A w \in Window : FirstText[w] \in CanSay[w]

\* KakaoTalk gives the title of a view to its EVA children, not to a web view.  The code
\* resizes whatever has such a title (layout.rs:108), and a web view that was an
\* advertisement only by its place at the bottom would not be one after that.
ASSUME ViewsAssumption == \A w \in Window : "view" \in CanSay[w] => Class[w] # "chrome"

VARIABLES
    aggressive, \* aggressive_mode
    states,     \* [known windows -> match_streak], counted up to Confirm
    plan,       \* the actions of the last round
    preview,    \* the confirmed candidates of the last round's payload
    changes,
    \* history, read by no step of the program
    seen,       \* seen[w]: examinations in a row that matched, up to Confirm
    since       \* what happened last: the "round", its plan was "applied", a "change"

ruleVars == <<states, plan, preview, seen>>
vars == <<treeVars, aggressive, ruleVars, changes, since>>

Confirm == IF ConfirmTicks < 1 THEN 1 ELSE ConfirmTicks
Least(a, b) == IF a < b THEN a ELSE b
Unseen == -1

(***************************************************************************)
(* What each branch offers a window: one decision, or none.                *)
(* track: what a decision without a match needs to be stored: "always", a  *)
(* "signal" or an earlier state, or an earlier state ("known").            *)
(***************************************************************************)
Offer(decision, track) == [decision |-> decision, track |-> track]

CloseOffers(w) == IF MayClose(w) THEN {Offer(CloseDecision(w, aggressive), "signal")} ELSE {}

AggressiveOffers(w, track) ==
    IF Examined(w) /\ aggressive /\ place[w] # "unknown"
    THEN {Offer(AggressiveDecision(w), track)} ELSE {}

LegacyOffers(w, track) == IF Candidate(w) THEN {Offer(LegacyDecision(w), track)} ELSE {}

\* An advertisement window inside a host, which is at the root of its tree.
PopupOffers(w) ==
    {Offer(PopupDecision(h), "always") : h \in {x \in live : Host(x) /\ w \in PopupMatches(x)}}

\* The preview stores the host, too: once for each advertisement inside it, but
\* confirmed by the first.
HostOffers(w) ==
    IF Host(w) /\ HostAllowed(w) /\ PopupMatches(w) # {} THEN {Offer(DismissPopup, "always")} ELSE {}

ApplyOffers(w) ==
    CloseOffers(w) \cup AggressiveOffers(w, "known") \cup LegacyOffers(w, "known") \cup PopupOffers(w)

(***************************************************************************)
(* CandidateState of one window during a round.  said: the actions that    *)
(* were confirmed.                                                         *)
(***************************************************************************)
StoreUpdate(entry, decision) ==
    LET matched == Matched(decision)
        streak  == IF matched THEN Least(Confirm, (IF entry.streak = Unseen THEN 0 ELSE entry.streak) + 1)
                   ELSE 0
        sure    == matched /\ (decision.strength = "strong" \/ streak >= Confirm)
    IN [entry EXCEPT !.streak = streak,
                     !.said = IF sure THEN @ \cup {decision.action} ELSE @]

\* Mutant: a later branch wipes what an earlier one has just recorded.
StoreEach(entry, offer) ==
    LET tracked == \/ offer.track = "signal" /\ offer.decision.signal
                   \/ entry.streak # Unseen
    IN CASE offer.track = "always" -> StoreUpdate(entry, offer.decision)
         [] offer.track # "always" /\ (Matched(offer.decision) \/ tracked) ->
                [StoreUpdate(entry, offer.decision) EXCEPT !.touched = TRUE]
         [] OTHER -> entry

\* store_once, and store_update for the pop-ups.
Store(entry, offer) ==
    LET tracked == ~entry.touched /\ (\/ offer.track = "signal" /\ offer.decision.signal
                                      \/ entry.streak # Unseen)
    IN CASE offer.track = "always" -> StoreUpdate(entry, offer.decision)
         [] offer.track # "always" /\ (Matched(offer.decision) \/ tracked) ->
                [StoreUpdate(entry, offer.decision) EXCEPT !.touched = TRUE]
         [] OTHER -> entry

Entry(w) == [streak  |-> IF w \in DOMAIN states THEN states[w] ELSE Unseen,
             touched |-> FALSE, said |-> {}]

StoreOf(entry, offers) ==
    IF offers = {} THEN entry ELSE Store(entry, CHOOSE offer \in offers : TRUE)

\* The branches of apply_once, one after the other.
Outcome(w) ==
    LET closed == StoreOf(Entry(w), CloseOffers(w))
        hidden == StoreOf(closed, AggressiveOffers(w, "known"))
        legacy == StoreOf(hidden, LegacyOffers(w, "known"))
    IN StoreOf(legacy, PopupOffers(w))

\* Those of inspect_candidates.
PreviewOutcome(w, entry) ==
    LET closed == StoreOf(entry, CloseOffers(w))
        hidden == StoreOf(closed, AggressiveOffers(w, "signal"))
        legacy == StoreOf(hidden, LegacyOffers(w, "signal"))
    IN StoreOf(StoreOf(legacy, PopupOffers(w)), HostOffers(w))

(***************************************************************************)
(* apply_once, inspect_candidates and the clean-up of the tick.            *)
(***************************************************************************)
Dismissed ==
    LET open == {h \in live : Host(h) /\ HostAllowed(h) /\ PopupMatches(h) # {}}
    IN open \cup UNION {PopupMatches(h) : h \in open}

\* Mutant: only a pop-up that is visible is hidden.
PlanOfVisible(outcome) ==
    LET sure(action) == {w \in live : action \in outcome[w].said}
    IN [hide   |-> sure("hide") \cup (Dismissed \cap visible),
        close  |-> sure("close") \cup (Dismissed \cap visible),
        zero   |-> Dismissed,
        resize |-> {w \in live : NeedsResize(w)}]

PlanOf(outcome) ==
    LET sure(action) == {w \in live : action \in outcome[w].said}
    IN [hide   |-> sure("hide") \cup Dismissed,
        close  |-> sure("close") \cup (Dismissed \cap visible),
        zero   |-> Dismissed,
        resize |-> {w \in live : NeedsResize(w)}]

\* Mutant: the preview works on the states that the round leaves.
PreviewedAfter ==
    UNION {{w} \X PreviewOutcome(w, [Entry(w) EXCEPT !.streak = Outcome(w).streak]).said : w \in live}

Previewed == UNION {{w} \X PreviewOutcome(w, Entry(w)).said : w \in live}

\* The states after the round.  Of the windows that are gone it keeps those a snapshot is
\* held of when the clean-up is due, and all of them when it is not.
StatesAfter(outcome, kept) ==
    [w \in kept \cup {v \in live : outcome[v].streak # Unseen} |->
        IF w \in live THEN outcome[w].streak ELSE states[w]]

Round ==
    /\ UNCHANGED <<treeVars, aggressive, changes>>
    /\ \E outcome \in {[w \in live |-> Outcome(w)]} :
          /\ plan' = PlanOf(outcome)
          /\ preview' = Previewed
          /\ \E kept \in SUBSET (DOMAIN states \ live) : states' = StatesAfter(outcome, kept)
          /\ seen' = [w \in Window |->
                 IF w \notin DOMAIN states' THEN 0
                 ELSE IF w \notin live \/ ApplyOffers(w) = {} THEN seen[w]
                 ELSE IF \E o \in ApplyOffers(w) : Matched(o.decision) THEN Least(Confirm, seen[w] + 1)
                 ELSE 0]
    /\ since' = "round"

\* clear_transient: switched off, or KakaoTalk is gone.
Forget ==
    /\ changes < Changes /\ changes' = changes + 1
    /\ states' = <<>>
    /\ seen' = [w \in Window |-> 0]
    /\ since' = "change"
    /\ UNCHANGED <<treeVars, aggressive, plan, preview>>

SwitchAggressive ==
    /\ changes < Changes /\ changes' = changes + 1
    /\ aggressive' = ~aggressive
    /\ since' = "change"
    /\ UNCHANGED <<treeVars, ruleVars>>

(***************************************************************************)
(* KakaoTalk.                                                              *)
(***************************************************************************)
\* A window goes together with the ones inside it and the ones it owns.
Gone(h) ==
    LET near == {w \in live : w = h \/ Win32Parent(w) = h}
        far  == {w \in live : Win32Parent(w) \in near}
    IN near \cup far \cup {w \in live : Win32Parent(w) \in far}

Change == /\ changes < Changes /\ changes' = changes + 1
          /\ since' = "change"
          /\ UNCHANGED <<aggressive, ruleVars>>

Appears(w) ==
    /\ Change
    /\ w \notin live /\ (Win32Parent(w) # Nobody => Win32Parent(w) \in live)
    /\ live' = live \cup {w}
    /\ \E t \in CanSay[w] : text' = [text EXCEPT ![w] = t]
    /\ \E p \in CanLie[w] : place' = [place EXCEPT ![w] = p]
    /\ visible' \in {visible, visible \cup {w}}

Vanishes(w) ==
    /\ Change
    /\ w \in live
    /\ live' = live \ Gone(w) /\ visible' = visible \ Gone(w)
    /\ text' = [v \in Window |-> IF v \in Gone(w) THEN "" ELSE text[v]]
    /\ place' = [v \in Window |-> IF v \in Gone(w) THEN "unknown" ELSE place[v]]

Retitles(w) ==
    /\ Change
    /\ w \in live
    /\ \E t \in CanSay[w] \ {text[w]} : text' = [text EXCEPT ![w] = t]
    /\ UNCHANGED <<live, place, visible>>

Moves(w) ==
    /\ Change
    /\ w \in live
    /\ \E p \in CanLie[w] \ {place[w]} : place' = [place EXCEPT ![w] = p]
    /\ UNCHANGED <<live, text, visible>>

Shows(w) ==
    /\ Change
    /\ w \in live \ visible
    /\ visible' = visible \cup {w}
    /\ UNCHANGED <<live, text, place>>

\* What the plan asks for happens.  A window may refuse to close and is hidden then; one
\* may refuse to be hidden.
Applied ==
    \E staying \in SUBSET (plan.close \cap live) :
    \E stubborn \in {{}} \cup {{w} : w \in staying} :
        LET closed == UNION {Gone(w) : w \in (plan.close \cap live) \ staying}
        IN /\ since # "change"
           /\ live' = live \ closed
           /\ visible' = (visible \ closed) \ (plan.hide \ stubborn)
           /\ text' = [w \in Window |-> IF w \in closed THEN "" ELSE text[w]]
           /\ place' = [w \in Window |-> IF w \in closed THEN "unknown"
                                       ELSE IF w \in plan.resize THEN "fitted" ELSE place[w]]
           /\ since' = IF closed = {} THEN "applied" ELSE "change"
    /\ UNCHANGED <<aggressive, ruleVars, changes>>

NoPlan == [hide |-> {}, close |-> {}, zero |-> {}, resize |-> {}]

\* The windows of a KakaoTalk that was just found: all there, in some place.
Init ==
    /\ live = Window /\ visible = Window
    /\ text = FirstText /\ place = FirstPlace
    /\ aggressive \in BOOLEAN
    /\ states = <<>> /\ plan = NoPlan /\ preview = {}
    /\ changes = 0
    /\ seen = [w \in Window |-> 0] /\ since = "change"

Next ==
    \/ Round \/ Applied \/ Forget \/ SwitchAggressive
    \/ \E w \in Window :
        \/ Appears(w) \/ Vanishes(w) \/ Retitles(w) \/ Moves(w) \/ Shows(w)

Spec == Init /\ [][Next]_vars

(***************************************************************************)
(* Properties.                                                             *)
(***************************************************************************)
Action == [hide : SUBSET Window, close : SUBSET Window,
           zero : SUBSET Window, resize : SUBSET Window]

\* Type correctness.  A window that is made empty is hidden as well, visible or not:
\* the two fallbacks of a refused WM_CLOSE go together (apply.rs).
TypeOK ==
    /\ TreeTypeOK
    /\ aggressive \in BOOLEAN /\ since \in {"round", "applied", "change"}
    /\ DOMAIN states \subseteq Window /\ \A w \in DOMAIN states : states[w] \in 0 .. Confirm
    /\ plan \in Action /\ plan.zero \subseteq plan.hide
    /\ preview \subseteq Window \X {"hide", "close", "dismiss_popup"}
    /\ changes \in 0 .. Changes
    /\ seen \in [Window -> 0 .. Confirm]

\* A step that changes anything and ends right after a round is a round.
Rounds == since' = "round"

Evidence(w, strength) ==
    \E offer \in ApplyOffers(w) :
        Matched(offer.decision) /\ offer.decision.strength = strength

\* A window outside the pop-ups is hidden or closed exactly when its evidence is strong,
\* or weak and confirmed: weak_signal_confirm_ticks examinations in a row that matched,
\* with none between them that did not, whatever the branches of a round stored.
ConfirmedExactly ==
    [][Rounds => \A w \in live :
          w \notin plan'.zero =>
              (w \in plan'.hide \cup plan'.close
               <=> Evidence(w, "strong") \/ (seen'[w] >= Confirm /\ Evidence(w, "weak")))]_vars

\* The diagnostic preview, a second pass over a copy of the states that stores more
\* than the first, reports as confirmed what the round applies and nothing else.
PreviewAgrees ==
    \A w \in Window :
        /\ w \in plan.hide <=> {<<w, "hide">>, <<w, "dismiss_popup">>} \cap preview # {}
        /\ w \in plan.zero <=> <<w, "dismiss_popup">> \in preview
        /\ <<w, "close">> \in preview => w \in plan.close
        /\ w \in plan.close => {<<w, "close">>, <<w, "dismiss_popup">>} \cap preview # {}

\* What the plan does to a window does not take away the evidence against it: as long
\* as KakaoTalk changes nothing, a window that a round hides is hidden by the next one
\* too, so it does not flicker when it refuses to close.
HiddenStaysMatched ==
    [][Rounds /\ since # "change" => plan.hide \cap live \subseteq plan'.hide]_vars

\* A confirmed main window and its view are never hidden, closed or made empty, unless
\* the legacy text stands in the tree of the main window itself.
MainUntouched ==
    [][Rounds => \A m \in live :
          LET own == {m} \cup {c \in ChildrenOf(m) : IsView(c)}
          IN ConfirmedMain(m) /\ LegacyKind(m) = "none" => own \cap (plan'.hide \cup plan'.close \cup plan'.zero) = {}]_vars

=============================================================================
