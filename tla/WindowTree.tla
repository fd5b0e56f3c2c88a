----------------------------- MODULE WindowTree -----------------------------
(***************************************************************************)
(* The window tree that one round reads (kakao-app graph_build.rs,         *)
(* kakao-core graph.rs, model.rs) and what the rules say about each window *)
(* of it (signals.rs, layout.rs): which windows are main windows, which    *)
(* are candidates, and what evidence of an advertisement each one shows.   *)
(*                                                                         *)
(* The shape of the tree and the classes are constants, since a window     *)
(* never changes its class; which windows exist, their texts, places and   *)
(* visibility are variables.  Texts, classes and rectangles are reduced to *)
(* what the rules tell apart.                                              *)
(***************************************************************************)
EXTENDS Integers, FiniteSets, Sequences

CONSTANTS
    Window,            \* windows that can exist
    Class,             \* [Window -> ClassName]
    Parent,            \* [Window -> Window or Nobody]: structural_parent
    Owner,             \* [Window -> Window or Nobody]: the owner of a top-level window
    LookDepth,         \* the depth of the text and class walks (8)
    PopupDepth,        \* popup_search_depth (2)
    ConfirmTicks,      \* weak_signal_confirm_ticks (2)
    TokenlessBanner,   \* hide_bottom_banner_without_token (FALSE)
    CloseNeedsSignal,  \* close_empty_eva_child_requires_ad_signal (TRUE)
    HostNeedsEmptyText \* popup_host_require_empty_text (TRUE)

Nobody == 0

\* main_window_classes (also ad_candidate_classes), eva_child_class, the custom scroll
\* and Chrome widget prefixes, popup_ad_classes.
ClassName == {"main", "eva", "scroll", "chrome", "adfit", "other"}

\* "exact": the legacy title; "like": a text that contains it; "token": an
\* advertisement token; "view": the prefix of the main or the lock view;
\* "unread": the text could not be read.
Text == {"", "title", "view", "exact", "like", "token", "unread"}

\* "unknown": no rectangle; "bottom": like a banner at the bottom of the parent;
\* "fitted": the size planned for a view; "tiny": no room for a view inside.
Place == {"unknown", "bottom", "fitted", "tiny", "other"}

ASSUME TreeAssumption ==
    /\ Window \subseteq Nat \ {Nobody}
    /\ Class \in [Window -> ClassName]
    /\ Parent \in [Window -> Window \cup {Nobody}]
    /\ Owner \in [Window -> Window \cup {Nobody}]
    /\ \A w \in Window : Parent[w] = Nobody \/ Owner[w] = Nobody
ASSUME RulesAssumption ==
    /\ LookDepth \in Nat /\ PopupDepth \in Nat /\ ConfirmTicks \in Int
    /\ {TokenlessBanner, CloseNeedsSignal, HostNeedsEmptyText} \subseteq BOOLEAN

VARIABLES
    live,     \* windows that exist
    text,     \* their texts
    place,    \* their rectangles
    visible   \* those that IsWindowVisible holds of

treeVars == <<live, text, place, visible>>

\* GetParent: the owner of a top-level window, else the window around it.
Win32Parent(w) == IF Owner[w] # Nobody THEN Owner[w] ELSE Parent[w]

\* The k-th structural parent.
Ancestor[k \in Nat] ==
    [w \in Window |-> IF k = 0 THEN w
                      ELSE LET v == Ancestor[k - 1][w]
                           IN IF v = Nobody THEN Nobody ELSE Parent[v]]

\* The windows that can be found under h within a depth, h included.
Under == [h \in Window |-> [depth \in {LookDepth, PopupDepth} |->
             {w \in Window : \E k \in 0 .. depth : Ancestor[k][w] = h}]]

Within(h, depth) == Under[h][depth] \cap live
ChildrenOf(h) == {w \in live : Parent[w] = h}

\* A text that could not be read is handed out as the empty one.
EmptyText(w) == text[w] \in {"", "unread"}

LegacyKind(h) ==
    LET said == {text[w] : w \in Within(h, LookDepth)}
    IN CASE "exact" \in said -> "exact"
         [] "exact" \notin said /\ "like" \in said -> "substring"
         [] OTHER -> "none"

HasToken(h) == \E w \in Within(h, LookDepth) : text[w] = "token"
HasScroll(h) == \E w \in Within(h, LookDepth) : Class[w] = "scroll"

(***************************************************************************)
(* Which windows are looked at.                                            *)
(***************************************************************************)
IsView(w) == Class[w] = "eva" /\ text[w] = "view"

MainCandidate(w) == w \in live /\ Class[w] = "main" /\ Win32Parent(w) = Nobody
ConfirmedMain(w) == MainCandidate(w) /\ \E c \in ChildrenOf(w) : IsView(c)

\* Children of a main window are looked at only when its own rectangle is known.
Examined(w) == /\ w \in live /\ Parent[w] # Nobody
               /\ ConfirmedMain(Parent[w])
               /\ place[Parent[w]] # "unknown"

Candidate(w) ==
    /\ w \in live /\ Class[w] = "main" /\ Parent[w] = Nobody
    /\ IF Owner[w] # Nobody /\ ConfirmedMain(Owner[w]) THEN EmptyText(w)
       ELSE Owner[w] = Nobody /\ LegacyKind(w) # "none"

\* Mutant: a main window may be the host of a pop-up too.
HostOrMain(w) == w \in live /\ Win32Parent(w) = Nobody

Host(w) == w \in live /\ Win32Parent(w) = Nobody /\ ~ConfirmedMain(w)

\* Mutant: a pop-up that was hidden is not found again.
PopupMatchesVisible(h) == {w \in Within(h, PopupDepth) \ {h} : Class[w] = "adfit" /\ w \in visible}

\* Hidden windows match as well, so a refused WM_CLOSE is not taken for a vanished
\* advertisement.
PopupMatches(h) == {w \in Within(h, PopupDepth) \ {h} : Class[w] = "adfit"}

HostAllowed(h) == text[h] # "unread" /\ (text[h] = "" \/ ~HostNeedsEmptyText)

(***************************************************************************)
(* AdDecision: strength, action, and whether any signal was seen at all.   *)
(***************************************************************************)
Nothing(signal) == [strength |-> "none", action |-> "none", signal |-> signal]
Hide(strength)  == [strength |-> strength, action |-> "hide", signal |-> TRUE]
Close           == [strength |-> "weak", action |-> "close", signal |-> TRUE]
DismissPopup    == [strength |-> "strong", action |-> "dismiss_popup", signal |-> TRUE]

Matched(decision) == decision.strength # "none" /\ decision.action # "none"

LegacyDecision(w) ==
    LET kind == LegacyKind(w)
    IN CASE kind = "exact"     -> Hide("strong")
         [] kind = "substring" -> Hide("weak")
         [] OTHER              -> Nothing(FALSE)

AggressiveDecision(w) ==
    LET chrome == Class[w] = "chrome"
        bottom == chrome /\ place[w] = "bottom"
        token  == HasToken(w)
    IN CASE bottom /\ (token \/ TokenlessBanner) -> Hide("strong")
         [] ~bottom /\ chrome /\ token -> Hide("weak")
         [] OTHER -> Nothing(bottom \/ token)

\* Main window m shows an advertisement in one of its children.
AdSignal(m, aggressive) ==
    \E c \in ChildrenOf(m) :
        \/ CloseNeedsSignal /\ LegacyKind(c) # "none"
        \/ aggressive /\ place[c] # "unknown" /\ Matched(AggressiveDecision(c))

\* The question is asked only of an EVA child without text in a window that has one.
MayClose(w) ==
    Examined(w) /\ Class[w] = "eva" /\ EmptyText(w) /\ ~EmptyText(Parent[w])

CloseDecision(w, aggressive) ==
    IF ~HasScroll(w) /\ (CloseNeedsSignal => AdSignal(Parent[w], aggressive)) THEN Close
    ELSE Nothing(~HasScroll(w))

PopupDecision(h) == IF HostAllowed(h) THEN DismissPopup ELSE Nothing(TRUE)

\* planned_view_resize: a view that has not the size it should have, if there is room.
NeedsResize(w) ==
    Examined(w) /\ text[w] = "view" /\ place[Parent[w]] # "tiny" /\ place[w] # "fitted"

TreeTypeOK ==
    /\ live \subseteq Window
    /\ text \in [Window -> Text]
    /\ place \in [Window -> Place]
    /\ visible \subseteq live

=============================================================================
