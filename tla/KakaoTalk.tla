----------------------------- MODULE KakaoTalk -----------------------------
(***************************************************************************)
(* The other side of every Win32 call of the engine: the KakaoTalk process *)
(* and its windows.  Nothing of KakaoTalk is in the repository; the module *)
(* is written from what the engine asks Win32 about (kakao-win32/api.rs)   *)
(* and from what the repository's fake desktop can be told to do           *)
(* (kakao-win32/fake.rs): a window may appear, disappear, be shown, hidden *)
(* or resized, start or stop looking like an advertisement, stop           *)
(* responding, or refuse a call.                                           *)
(*                                                                         *)
(* A window is named by its HWND.  An identity is <<HWND, PID>>: the class *)
(* name, the third field of WindowIdentity, is left out, so a handle that  *)
(* one process reuses keeps its identity here whatever the class is.       *)
(***************************************************************************)
EXTENDS Naturals, FiniteSets

CONSTANTS
    Window,      \* the HWND values that can occur, ordered as numbers
    Pid,         \* the process ids KakaoTalk gets, one per launch
    Parent,      \* [Window -> Window \cup {NoWindow}]: the host of a child window
    AdKind,      \* [Window -> {"banner", "popup", "eva"}]: the rule that would match
    KakaoMoves   \* bound: how many spontaneous steps KakaoTalk may take

NoWindow == 0
NoPid    == 0

ASSUME WindowAssumption == Window \subseteq Nat \ {NoWindow} /\ IsFiniteSet(Window)
ASSUME PidAssumption    == Pid \subseteq Nat \ {NoPid} /\ Pid # {} /\ IsFiniteSet(Pid)
ASSUME ParentAssumption == Parent \in [Window -> Window \cup {NoWindow}]
ASSUME AdKindAssumption == AdKind \in [Window -> {"banner", "popup", "eva"}]
ASSUME MovesAssumption  == KakaoMoves \in Nat

VARIABLES
    proc,      \* the running KakaoTalk process, NoPid when there is none
    owner,     \* owner[h]: the process that owns window h, NoPid when h does not exist
    shown,     \* windows whose own WS_VISIBLE style is set
    sized,     \* windows whose rectangle is not empty
    ad,        \* windows the evaluation currently confirms as advertisements
    hung,      \* windows whose thread does not answer (IsHungAppWindow)
    refusing,  \* windows that answer but refuse ShowWindow and SetWindowPos
    moves      \* spontaneous KakaoTalk steps taken so far

kakaoVars == <<proc, owner, shown, sized, ad, hung, refusing, moves>>

Identity == Window \X Pid
Live == {h \in Window : owner[h] # NoPid}

\* Mutant: any window with that handle will do.
IdentityByHandle(id) == owner[id[1]] # NoPid

\* identity_matches: the handle exists and still belongs to the recorded process.
IdentityMatches(id) == owner[id[1]] = id[2]

\* IsWindowVisible: the own style and that of the host.
IsWindowVisible(h) == h \in shown /\ (Parent[h] # NoWindow => Parent[h] \in shown)

\* A host is destroyed together with its children.
Subtree(h) == {w \in Window : w = h \/ Parent[w] = h}

KakaoTypeOK ==
    /\ proc \in Pid \cup {NoPid}
    /\ owner \in [Window -> Pid \cup {NoPid}]
    /\ shown \subseteq Live
    /\ sized \subseteq Live
    /\ ad \subseteq Live
    /\ hung \subseteq Live
    /\ refusing \subseteq Live
    /\ moves \in 0 .. KakaoMoves

\* The engine may start before KakaoTalk or find it in any state.
KakaoInit ==
    /\ proc \in Pid \cup {NoPid}
    /\ owner \in [Window -> {proc, NoPid}]
    /\ shown \in SUBSET Live
    /\ sized \in SUBSET Live
    /\ ad \in SUBSET Live
    /\ hung = {}
    /\ refusing = {}
    /\ moves = 0

Move == moves < KakaoMoves /\ moves' = moves + 1

\* The windows of `gone` no longer exist.
Vanish(gone) ==
    /\ owner' = [h \in Window |-> IF h \in gone THEN NoPid ELSE owner[h]]
    /\ shown' = shown \ gone
    /\ sized' = sized \ gone
    /\ ad' = ad \ gone
    /\ hung' = hung \ gone
    /\ refusing' = refusing \ gone

Launch(p) ==
    /\ Move /\ proc = NoPid
    /\ proc' = p
    /\ UNCHANGED <<owner, shown, sized, ad, hung, refusing>>

Quit ==
    /\ Move /\ proc # NoPid
    /\ proc' = NoPid
    /\ Vanish(Window)

Create(h) ==
    /\ Move /\ proc # NoPid /\ h \notin Live
    /\ Parent[h] # NoWindow => Parent[h] \in Live
    /\ owner' = [owner EXCEPT ![h] = proc]
    /\ shown' \in {shown, shown \cup {h}}
    /\ sized' \in {sized, sized \cup {h}}
    /\ ad' \in {ad, ad \cup {h}}
    /\ UNCHANGED <<proc, hung, refusing>>

Destroy(h) ==
    /\ Move /\ h \in Live \ hung
    /\ Vanish(Subtree(h))
    /\ UNCHANGED proc

\* KakaoTalk shows, hides or resizes a window, or changes what is in it.
Show(h) ==
    /\ Move /\ h \in Live \ (hung \cup shown)
    /\ shown' = shown \cup {h}
    /\ UNCHANGED <<proc, owner, sized, ad, hung, refusing>>

Hide(h) ==
    /\ Move /\ h \in shown \ hung
    /\ shown' = shown \ {h}
    /\ UNCHANGED <<proc, owner, sized, ad, hung, refusing>>

Resize(h) ==
    /\ Move /\ h \in Live \ hung
    /\ sized' = IF h \in sized THEN sized \ {h} ELSE sized \cup {h}
    /\ UNCHANGED <<proc, owner, shown, ad, hung, refusing>>

ChangeContent(h) ==
    /\ Move /\ h \in Live \ hung
    /\ ad' = IF h \in ad THEN ad \ {h} ELSE ad \cup {h}
    /\ UNCHANGED <<proc, owner, shown, sized, hung, refusing>>

Hang(h) ==
    /\ Move /\ h \in Live \ hung
    /\ hung' = hung \cup {h}
    /\ UNCHANGED <<proc, owner, shown, sized, ad, refusing>>

Refuse(h) ==
    /\ Move /\ h \in Live \ refusing
    /\ refusing' = refusing \cup {h}
    /\ UNCHANGED <<proc, owner, shown, sized, ad, hung>>

\* A window starts to answer and to obey again.  Not counted: it undoes Hang or Refuse.
Recover(h) ==
    /\ h \in hung \cup refusing
    /\ hung' = hung \ {h}
    /\ refusing' = refusing \ {h}
    /\ UNCHANGED <<proc, owner, shown, sized, ad, moves>>

=============================================================================
