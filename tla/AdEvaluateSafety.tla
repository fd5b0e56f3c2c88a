-------------------------- MODULE AdEvaluateSafety --------------------------
(***************************************************************************)
(* What is proved about AdEvaluate, for every tree of windows, every rule  *)
(* and any number of rounds.  The branches of a round are put together     *)
(* once (Branches); from that follow what confirms an action, that the     *)
(* preview agrees, that hiding does not undo itself and that main windows  *)
(* are left alone.                                                         *)
(***************************************************************************)
EXTENDS AdEvaluate, Induction, TLAPS

----------------------------------------------------------------------------
(* Trees.  A window has at most one window at the root above it, however   *)
(* the parents are given.                                                  *)

\* One step up from each window.
Above(f) == [w \in Window |-> IF f[w] = Nobody THEN Nobody ELSE Parent[f[w]]]

\* A table of Ancestor up to n.
Table(g, n) ==
    /\ g \in [0 .. n -> [Window -> Window \cup {Nobody}]]
    /\ g[0] = [w \in Window |-> w]
    /\ \A i \in 1 .. n : g[i] = Above(g[i - 1])

LEMMA AboveType ==
    ASSUME NEW f \in [Window -> Window \cup {Nobody}]
    PROVE  Above(f) \in [Window -> Window \cup {Nobody}]
  BY TreeAssumption DEF Above

LEMMA TablesAgree ==
    ASSUME NEW g, NEW h, NEW m \in Nat, NEW n \in Nat, Table(g, m), Table(h, n)
    PROVE  \A i \in Nat : i <= m /\ i <= n => g[i] = h[i]
<1> DEFINE S == {i \in Nat : i <= m /\ i <= n => g[i] = h[i]}
<1>1. 0 \in S
  BY DEF Table
<1>2. ASSUME NEW i \in Nat, i \in S PROVE i + 1 \in S
  <2> SUFFICES ASSUME i + 1 <= m, i + 1 <= n PROVE g[i + 1] = h[i + 1]
    OBVIOUS
  <2>1. g[i] = h[i] /\ i + 1 \in 1 .. m /\ i + 1 \in 1 .. n /\ (i + 1) - 1 = i
    BY <1>2
  <2>2. g[i + 1] = Above(g[i]) /\ h[i + 1] = Above(h[i])
    BY <2>1 DEF Table
  <2> QED
    BY <2>1, <2>2
<1> HIDE DEF S
<1>3. Nat \subseteq S
  BY <1>1, <1>2, Inductive
<1> QED
  BY <1>3 DEF S

LEMMA TablesExist == \A n \in Nat : \E g : Table(g, n)
<1> DEFINE S == {n \in Nat : \E g : Table(g, n)}
<1>1. 0 \in S
  <2> DEFINE g == [i \in 0 .. 0 |-> [w \in Window |-> w]]
  <2>1. g \in [0 .. 0 -> [Window -> Window \cup {Nobody}]] /\ g[0] = [w \in Window |-> w]
    OBVIOUS
  <2>2. Table(g, 0)
    BY <2>1 DEF Table
  <2> QED
    BY <2>2
<1>2. ASSUME NEW n \in Nat, n \in S PROVE n + 1 \in S
  <2>1. PICK g : Table(g, n)
    BY <1>2
  <2> DEFINE h == [i \in 0 .. n + 1 |-> IF i = n + 1 THEN Above(g[n]) ELSE g[i]]
  <2>2. g[n] \in [Window -> Window \cup {Nobody}]
    BY <2>1 DEF Table
  <2>3. Above(g[n]) \in [Window -> Window \cup {Nobody}]
    BY <2>2, AboveType
  <2>4. h \in [0 .. n + 1 -> [Window -> Window \cup {Nobody}]] /\ h[0] = g[0]
    BY <2>1, <2>3 DEF Table
  <2>5. ASSUME NEW i \in 1 .. n + 1 PROVE h[i] = Above(h[i - 1])
    <3>1. i - 1 \in 0 .. n + 1 /\ i - 1 # n + 1
      OBVIOUS
    <3>2. h[i - 1] = g[i - 1]
      BY <3>1
    <3>3. CASE i = n + 1
      BY <3>2, <3>3
    <3>4. CASE i # n + 1
      <4>1. i \in 1 .. n /\ h[i] = g[i]
        BY <3>4
      <4> QED
        BY <2>1, <3>2, <4>1 DEF Table
    <3> QED
      BY <3>3, <3>4
  <2> HIDE DEF h
  <2>6. Table(h, n + 1)
    BY <2>1, <2>4, <2>5 DEF Table
  <2> QED
    BY <2>6
<1> HIDE DEF S
<1>3. Nat \subseteq S
  BY <1>1, <1>2, Inductive
<1> QED
  BY <1>3 DEF S

LEMMA AncestorIs ==
    /\ \A w \in Window : Ancestor[0][w] = w
    /\ \A n \in Nat, w \in Window :
          Ancestor[n + 1][w] = IF Ancestor[n][w] = Nobody THEN Nobody ELSE Parent[Ancestor[n][w]]
<1> DEFINE Body(f) ==
             [k \in Nat |->
                [w \in Window |-> IF k = 0 THEN w
                                  ELSE LET v == f[k - 1][w]
                                       IN IF v = Nobody THEN Nobody ELSE Parent[v]]]
           table[n \in Nat] == CHOOSE g : Table(g, n)
           F == [n \in Nat |-> table[n][n]]
<1>1. \A n \in Nat : Table(table[n], n)
  BY TablesExist
<1> HIDE DEF table
<1>2. ASSUME NEW n \in Nat \ {0} PROVE table[n][n] = Above(table[n - 1][n - 1])
  <2>1. n - 1 \in Nat /\ n \in 1 .. n /\ n - 1 <= n
    OBVIOUS
  <2>2. Table(table[n], n) /\ Table(table[n - 1], n - 1)
    BY <1>1, <2>1
  <2>3. table[n][n - 1] = table[n - 1][n - 1]
    BY <2>1, <2>2, TablesAgree
  <2> QED
    BY <2>1, <2>2, <2>3 DEF Table
<1>3. F[0] = [w \in Window |-> w]
  BY <1>1 DEF Table
<1>4. \A n \in Nat \ {0} : n - 1 \in Nat /\ F[n] = Above(F[n - 1])
  BY <1>2
<1>5. F = Body(F)
  <2>1. F = [n \in Nat |-> F[n]]
    OBVIOUS
  <2> HIDE DEF F
  <2>2. ASSUME NEW n \in Nat
        PROVE  F[n] = [w \in Window |-> IF n = 0 THEN w
                                        ELSE LET v == F[n - 1][w]
                                             IN IF v = Nobody THEN Nobody ELSE Parent[v]]
    <3>1. CASE n = 0
      BY <1>3, <3>1
    <3>2. CASE n # 0
      BY <1>4, <3>2 DEF Above
    <3> QED
      BY <3>1, <3>2
  <2> QED
    BY <2>1, <2>2
<1> HIDE DEF F
<1>6. Ancestor = CHOOSE f : f = Body(f)
  BY DEF Ancestor
<1>7. Ancestor = Body(Ancestor)
  BY <1>5, <1>6
<1>8. ASSUME NEW n \in Nat, NEW w \in Window
      PROVE  Ancestor[n][w] = IF n = 0 THEN w
                              ELSE LET v == Ancestor[n - 1][w]
                                   IN IF v = Nobody THEN Nobody ELSE Parent[v]
  BY <1>7
<1>9. \A n \in Nat : n + 1 \in Nat /\ n + 1 # 0 /\ (n + 1) - 1 = n
  OBVIOUS
<1>10. ASSUME NEW n \in Nat, NEW w \in Window
       PROVE  Ancestor[n + 1][w] = IF Ancestor[n][w] = Nobody THEN Nobody ELSE Parent[Ancestor[n][w]]
  BY <1>8, <1>9
<1> QED
  BY <1>8, <1>10

\* Nothing is above a root.
LEMMA NothingAboveRoot ==
    ASSUME NEW w \in Window, NEW h \in Window, NEW j \in Nat, Ancestor[j][w] = h, Parent[h] = Nobody
    PROVE  \A n \in Nat : n > j => Ancestor[n][w] = Nobody
<1> DEFINE S == {n \in Nat : n > j => Ancestor[n][w] = Nobody}
<1>1. 0 \in S
  OBVIOUS
<1>2. ASSUME NEW n \in Nat, n \in S PROVE n + 1 \in S
  <2> SUFFICES ASSUME n + 1 > j PROVE Ancestor[n + 1][w] = Nobody
    OBVIOUS
  <2>1. h # Nobody
    BY TreeAssumption
  <2>2. CASE n = j
    BY <2>1, <2>2, AncestorIs
  <2>3. CASE n > j
    BY <1>2, <2>3, AncestorIs
  <2> QED
    BY <2>2, <2>3
<1> HIDE DEF S
<1>3. Nat \subseteq S
  BY <1>1, <1>2, Inductive
<1> QED
  BY <1>3 DEF S

LEMMA OneRoot ==
    ASSUME NEW w \in Window, NEW h \in Window, NEW i \in Window, NEW j \in Nat, NEW k \in Nat,
           Ancestor[j][w] = h, Ancestor[k][w] = i, Parent[h] = Nobody, Parent[i] = Nobody
    PROVE  h = i
<1>1. h # Nobody /\ i # Nobody
  BY TreeAssumption
<1>2. ~(j < k)
  BY <1>1, NothingAboveRoot
<1>3. ~(k < j)
  BY <1>1, NothingAboveRoot
<1> QED
  BY <1>2, <1>3

----------------------------------------------------------------------------
(* Hosts.                                                                  *)

LEMMA TopLevel ==
    ASSUME NEW w \in Window, Win32Parent(w) = Nobody
    PROVE  Parent[w] = Nobody /\ Owner[w] = Nobody
  BY TreeAssumption DEF Win32Parent

LEMMA UnderIs ==
    ASSUME NEW h \in Window, NEW depth \in {LookDepth, PopupDepth}
    PROVE  Under[h][depth] = {v \in Window : \E k \in 0 .. depth : Ancestor[k][v] = h}
  BY DEF Under

LEMMA MatchesUnder ==
    ASSUME NEW h \in Window, NEW w \in PopupMatches(h)
    PROVE  /\ w \in Window /\ w \in live /\ Class[w] = "adfit"
           /\ \E k \in Nat : Ancestor[k][w] = h
<1>1. w \in Within(h, PopupDepth) /\ Class[w] = "adfit"
  BY DEF PopupMatches
<1>2. w \in Under[h][PopupDepth] /\ w \in live
  BY <1>1 DEF Within
<1>3. Under[h][PopupDepth] = {v \in Window : \E k \in 0 .. PopupDepth : Ancestor[k][v] = h}
  BY UnderIs
<1>4. w \in Window /\ \E k \in 0 .. PopupDepth : Ancestor[k][w] = h
  BY <1>2, <1>3
<1>5. 0 .. PopupDepth \subseteq Nat
  BY RulesAssumption
<1> QED
  BY <1>1, <1>2, <1>4, <1>5

LEMMA OneHost ==
    ASSUME live \subseteq Window, NEW h \in live, NEW i \in live, Host(h), Host(i),
           NEW w \in PopupMatches(h), w \in PopupMatches(i)
    PROVE  h = i
<1>1. PICK j \in Nat : Ancestor[j][w] = h
  BY MatchesUnder
<1>2. PICK k \in Nat : Ancestor[k][w] = i
  BY MatchesUnder
<1>3. w \in Window /\ Parent[h] = Nobody /\ Parent[i] = Nobody
  BY MatchesUnder, TopLevel DEF Host
<1> QED
  BY <1>1, <1>2, <1>3, OneRoot

\* An examined window has a main window above it, which is no host.
LEMMA MatchesNotExamined ==
    ASSUME live \subseteq Window, NEW h \in live, Host(h), NEW w \in PopupMatches(h)
    PROVE  ~Examined(w) /\ ~Candidate(w)
<1>1. PICK j \in Nat : Ancestor[j][w] = h
  BY MatchesUnder
<1>2. w \in Window /\ Class[w] = "adfit" /\ Parent[h] = Nobody
  BY MatchesUnder, TopLevel DEF Host
<1>3. ASSUME Examined(w) PROVE FALSE
  <2> DEFINE m == Parent[w]
  <2>1. m \in Window /\ ConfirmedMain(m)
    BY <1>2, <1>3, TreeAssumption DEF Examined
  <2>2. Parent[m] = Nobody
    BY <2>1, TopLevel DEF ConfirmedMain, MainCandidate
  <2>3. w # Nobody
    BY <1>2, TreeAssumption
  <2>4. Ancestor[0 + 1][w] = m
    BY <1>2, <2>3, AncestorIs
  <2> HIDE DEF m
  <2>5. h = m
    BY <1>1, <1>2, <2>1, <2>2, <2>4, OneRoot
  <2> QED
    BY <2>1, <2>5 DEF Host
<1> QED
  BY <1>2, <1>3 DEF Candidate

----------------------------------------------------------------------------
(* Stores.                                                                 *)

Actions == {"hide", "close", "dismiss_popup"}
Decision == [strength : {"none", "weak", "strong"}, action : Actions \cup {"none"}, signal : BOOLEAN]
Entries == [streak : Int, touched : BOOLEAN, said : SUBSET Actions]

\* The streak after a match, and whether that confirms it.
Longer(streak) == Least(Confirm, (IF streak = Unseen THEN 0 ELSE streak) + 1)
Confirms(decision, streak) == decision.strength = "strong" \/ streak >= Confirm

LEMMA ConfirmType == Confirm \in Nat \ {0}
  BY RulesAssumption DEF Confirm

LEMMA LongerType ==
    ASSUME NEW streak \in 0 .. Confirm \cup {Unseen}
    PROVE  Longer(streak) \in 1 .. Confirm
  BY ConfirmType DEF Longer, Least, Unseen

\* What a decision makes of an entry in which nothing is confirmed yet.
LEMMA UpdateMatch ==
    ASSUME NEW entry \in Entries, entry.said = {}, NEW decision, Matched(decision)
    PROVE  StoreUpdate(entry, decision) =
               [streak  |-> Longer(entry.streak), touched |-> entry.touched,
                said    |-> IF Confirms(decision, Longer(entry.streak)) THEN {decision.action} ELSE {}]
<1> DEFINE longer == Longer(entry.streak)
           sure   == Matched(decision) /\ (decision.strength = "strong" \/ longer >= Confirm)
<1>1. entry = [streak |-> entry.streak, touched |-> entry.touched, said |-> {}]
  BY DEF Entries
<1>2. StoreUpdate(entry, decision) =
          [entry EXCEPT !.streak = longer, !.said = IF sure THEN @ \cup {decision.action} ELSE @]
  BY DEF StoreUpdate, Longer
<1>3. sure <=> Confirms(decision, longer)
  BY DEF Confirms
<1> HIDE DEF longer, sure
<1>4. StoreUpdate(entry, decision) =
          [streak |-> longer, touched |-> entry.touched,
           said |-> IF sure THEN {} \cup {decision.action} ELSE {}]
  BY <1>1, <1>2
<1> QED
  BY <1>3, <1>4 DEF longer

LEMMA UpdateMiss ==
    ASSUME NEW entry \in Entries, NEW decision, ~Matched(decision)
    PROVE  StoreUpdate(entry, decision) =
               [streak |-> 0, touched |-> entry.touched, said |-> entry.said]
<1>1. StoreUpdate(entry, decision) = [entry EXCEPT !.streak = 0, !.said = @]
  BY DEF StoreUpdate
<1> QED
  BY <1>1 DEF Entries

LEMMA Touched ==
    ASSUME NEW u \in Entries, NEW v, v = [u EXCEPT !.touched = TRUE]
    PROVE  v \in Entries /\ v.streak = u.streak /\ v.said = u.said /\ v.touched = TRUE
  BY DEF Entries

LEMMA StoreMatch ==
    ASSUME NEW entry \in Entries, entry.said = {}, entry.streak \in 0 .. Confirm \cup {Unseen},
           NEW offer, Matched(offer.decision), offer.decision.action \in Actions
    PROVE  /\ Store(entry, offer) \in Entries
           /\ Store(entry, offer).streak = Longer(entry.streak)
           /\ Store(entry, offer).streak \in 1 .. Confirm
           /\ Store(entry, offer).said = IF Confirms(offer.decision, Longer(entry.streak))
                                        THEN {offer.decision.action} ELSE {}
           /\ offer.track # "always" => Store(entry, offer).touched = TRUE
<1> DEFINE longer == Longer(entry.streak)
           said   == IF Confirms(offer.decision, longer) THEN {offer.decision.action} ELSE {}
           u      == StoreUpdate(entry, offer.decision)
<1>1. u = [streak |-> longer, touched |-> entry.touched, said |-> said]
  BY UpdateMatch
<1>2. longer \in 1 .. Confirm /\ longer \in Int
  <2>1. longer \in 1 .. Confirm
    BY LongerType
  <2> HIDE DEF longer
  <2> QED
    BY <2>1, ConfirmType
<1>3. said \in SUBSET Actions
  OBVIOUS
<1>4. entry.touched \in BOOLEAN
  BY DEF Entries
<1>5. Store(entry, offer) = IF offer.track = "always" THEN u ELSE [u EXCEPT !.touched = TRUE]
  BY DEF Store
<1> HIDE DEF longer, said, u
<1>6. \/ Store(entry, offer) = u /\ offer.track = "always"
      \/ Store(entry, offer) = [streak |-> longer, touched |-> TRUE, said |-> said]
  BY <1>1, <1>5
<1>7. Store(entry, offer) \in Entries
  <2>1. \A b \in BOOLEAN : [streak |-> longer, touched |-> b, said |-> said] \in Entries
    BY <1>2, <1>3 DEF Entries
  <2> QED
    BY <1>1, <1>4, <1>6, <2>1
<1>8. Store(entry, offer).streak = longer /\ Store(entry, offer).said = said
  BY <1>1, <1>6
<1>9. offer.track # "always" => Store(entry, offer).touched = TRUE
  BY <1>6
<1> QED
  BY <1>2, <1>7, <1>8, <1>9 DEF longer, said

LEMMA StoreMiss ==
    ASSUME NEW entry \in Entries, NEW offer, ~Matched(offer.decision)
    PROVE  /\ Store(entry, offer) \in Entries
           /\ Store(entry, offer).said = entry.said
           /\ Store(entry, offer).streak \in {entry.streak, 0}
           /\ offer.track = "always" => Store(entry, offer).streak = 0
           /\ offer.track # "always" /\ entry.touched /\ entry.streak # Unseen
                => Store(entry, offer).streak \in {entry.streak, 0}
           /\ offer.track # "always" /\ entry.touched => Store(entry, offer) = entry
           /\ ~entry.touched /\ entry.streak # Unseen => Store(entry, offer).streak = 0
           /\ entry.streak = Unseen /\ offer.track = "known" => Store(entry, offer) = entry
           /\ Store(entry, offer).streak # entry.streak \/ offer.track = "always"
                \/ Store(entry, offer) = entry \/ Store(entry, offer).touched
<1> DEFINE u == StoreUpdate(entry, offer.decision)
           z == [u EXCEPT !.touched = TRUE]
<1>1. u = [streak |-> 0, touched |-> entry.touched, said |-> entry.said]
  BY UpdateMiss
<1>2. entry.touched \in BOOLEAN /\ entry.said \in SUBSET Actions /\ entry.streak \in Int
  BY DEF Entries
<1>3. u \in Entries /\ u.streak = 0 /\ u.said = entry.said
  <2> HIDE DEF u
  <2> QED
    BY <1>1, <1>2 DEF Entries
<1>4. z \in Entries /\ z.streak = 0 /\ z.said = entry.said /\ z.touched
  <2> HIDE DEF u
  <2> QED
    BY <1>3, Touched
<1>5. CASE offer.track = "always"
  <2>1. Store(entry, offer) = u
    BY <1>5 DEF Store
  <2> HIDE DEF u
  <2> QED
    BY <1>3, <1>5, <2>1
<1>6. CASE offer.track # "always" /\ entry.touched
  <2>1. Store(entry, offer) = entry
    BY <1>6 DEF Store
  <2> QED
    BY <1>6, <2>1
<1>7. CASE offer.track # "always" /\ ~entry.touched
  <2>1. \/ Store(entry, offer) = z /\ ~(entry.streak = Unseen /\ offer.track = "known")
        \/ Store(entry, offer) = entry /\ entry.streak = Unseen
    BY <1>7 DEF Store
  <2> HIDE DEF z
  <2> QED
    BY <1>7, <1>4, <2>1
<1> QED
  BY <1>5, <1>6, <1>7

LEMMA StoreOfOne ==
    ASSUME NEW entry, NEW offer
    PROVE  StoreOf(entry, {offer}) = Store(entry, offer)
  BY DEF StoreOf

LEMMA StoreOfNone == ASSUME NEW entry PROVE StoreOf(entry, {}) = entry
  BY DEF StoreOf

\* A pop-up's host is confirmed whatever was stored of it before.
LEMMA StoreHost ==
    ASSUME NEW entry \in Entries, entry.streak \in 0 .. Confirm \cup {Unseen}
    PROVE  Store(entry, Offer(DismissPopup, "always")).said = entry.said \cup {"dismiss_popup"}
<1> DEFINE offer == Offer(DismissPopup, "always")
<1>1. Matched(offer.decision) /\ offer.decision.strength = "strong"
         /\ offer.decision.action = "dismiss_popup" /\ offer.track = "always"
  BY DEF Offer, DismissPopup, Matched
<1> HIDE DEF offer
<1>2. Store(entry, offer) = StoreUpdate(entry, offer.decision)
  BY <1>1 DEF Store
<1>3. StoreUpdate(entry, offer.decision) =
          [entry EXCEPT !.streak = Longer(entry.streak), !.said = @ \cup {"dismiss_popup"}]
  BY <1>1 DEF StoreUpdate, Longer
<1> QED
  BY <1>2, <1>3 DEF offer, Entries

----------------------------------------------------------------------------
(* Decisions.                                                              *)

LEMMA DecisionFields ==
    /\ \A signal : Nothing(signal).strength = "none" /\ Nothing(signal).action = "none"
                     /\ Nothing(signal).signal = signal
    /\ \A strength : Hide(strength).strength = strength /\ Hide(strength).action = "hide"
    /\ Close.strength = "weak" /\ Close.action = "close"
    /\ DismissPopup.strength = "strong" /\ DismissPopup.action = "dismiss_popup"
  BY DEF Nothing, Hide, Close, DismissPopup

LEMMA MatchedIs ==
    /\ \A signal : ~Matched(Nothing(signal))
    /\ Matched(Hide("strong")) /\ Matched(Hide("weak")) /\ Matched(Close) /\ Matched(DismissPopup)
  BY DecisionFields DEF Matched

LEMMA CloseIs ==
    ASSUME NEW w, NEW aggr
    PROVE  CloseDecision(w, aggr) = Close \/ \E signal : CloseDecision(w, aggr) = Nothing(signal)
  BY DEF CloseDecision

LEMMA LegacyIs ==
    ASSUME NEW w
    PROVE  /\ LegacyKind(w) \in {"exact", "substring", "none"}
           /\ LegacyKind(w) = "exact" => LegacyDecision(w) = Hide("strong")
           /\ LegacyKind(w) = "substring" => LegacyDecision(w) = Hide("weak")
           /\ LegacyKind(w) = "none" => LegacyDecision(w) = Nothing(FALSE)
<1>1. LegacyKind(w) \in {"exact", "substring", "none"}
  BY DEF LegacyKind
<1> QED
  BY <1>1 DEF LegacyDecision

\* Only a web view is hidden aggressively.
AtBottom(w) == Class[w] = "chrome" /\ place[w] = "bottom"

LEMMA AggressiveIs ==
    ASSUME NEW w
    PROVE  /\ Matched(AggressiveDecision(w)) => Class[w] = "chrome"
           /\ AtBottom(w) /\ (HasToken(w) \/ TokenlessBanner) <=> AggressiveDecision(w) = Hide("strong")
           /\ ~AtBottom(w) /\ Class[w] = "chrome" /\ HasToken(w) <=> AggressiveDecision(w) = Hide("weak")
           /\ Matched(AggressiveDecision(w)) => AggressiveDecision(w) \in {Hide("strong"), Hide("weak")}
<1>1. \/ AtBottom(w) /\ (HasToken(w) \/ TokenlessBanner) /\ AggressiveDecision(w) = Hide("strong")
      \/ ~AtBottom(w) /\ Class[w] = "chrome" /\ HasToken(w) /\ AggressiveDecision(w) = Hide("weak")
      \/ /\ ~(AtBottom(w) /\ (HasToken(w) \/ TokenlessBanner))
         /\ ~(~AtBottom(w) /\ Class[w] = "chrome" /\ HasToken(w))
         /\ \E signal : AggressiveDecision(w) = Nothing(signal)
  BY DEF AggressiveDecision, AtBottom
<1>2. Hide("strong") # Hide("weak") /\ \A signal : Nothing(signal) \notin {Hide("strong"), Hide("weak")}
  BY DecisionFields
<1>3. AtBottom(w) => Class[w] = "chrome"
  BY DEF AtBottom
<1> QED
  BY <1>1, <1>2, <1>3, MatchedIs

LEMMA PopupIs ==
    ASSUME NEW h
    PROVE  /\ HostAllowed(h) => PopupDecision(h) = DismissPopup
           /\ ~HostAllowed(h) => PopupDecision(h) = Nothing(TRUE)
  BY DEF PopupDecision

----------------------------------------------------------------------------
(* The branches of a round.                                                *)

Offers(w, track) ==
    CloseOffers(w) \cup AggressiveOffers(w, track) \cup LegacyOffers(w, track) \cup PopupOffers(w)

Branches(entry, w, track) ==
    LET closed == StoreOf(entry, CloseOffers(w))
        hidden == StoreOf(closed, AggressiveOffers(w, track))
        legacy == StoreOf(hidden, LegacyOffers(w, track))
    IN StoreOf(legacy, PopupOffers(w))

LEMMA BranchesOf ==
    ASSUME NEW w, NEW entry
    PROVE  /\ ApplyOffers(w) = Offers(w, "known")
           /\ Outcome(w) = Branches(Entry(w), w, "known")
           /\ PreviewOutcome(w, entry) = StoreOf(Branches(entry, w, "signal"), HostOffers(w))
  BY DEF ApplyOffers, Offers, Outcome, PreviewOutcome, Branches

\* The hosts that a window is an advertisement of: one at most.
HostsOf(w) == {h \in live : Host(h) /\ w \in PopupMatches(h)}

LEMMA OffersOf ==
    ASSUME NEW w, NEW track
    PROVE  /\ CloseOffers(w) =
                  IF MayClose(w) THEN {Offer(CloseDecision(w, aggressive), "signal")} ELSE {}
           /\ AggressiveOffers(w, track) =
                  IF Examined(w) /\ aggressive /\ place[w] # "unknown"
                  THEN {Offer(AggressiveDecision(w), track)} ELSE {}
           /\ LegacyOffers(w, track) =
                  IF Candidate(w) THEN {Offer(LegacyDecision(w), track)} ELSE {}
           /\ PopupOffers(w) = {Offer(PopupDecision(h), "always") : h \in HostsOf(w)}
  BY DEF CloseOffers, AggressiveOffers, LegacyOffers, PopupOffers, HostsOf

\* In a tree one branch has something to say of a window, except that an EVA child is
\* asked about twice; only the first question can say yes.
LEMMA OneBranch ==
    ASSUME live \subseteq Window, NEW w \in live, NEW track
    PROVE  \/ \E h \in HostsOf(w) :
                  /\ PopupOffers(w) = {Offer(PopupDecision(h), "always")}
                  /\ HostsOf(w) = {h}
                  /\ ~Examined(w) /\ ~Candidate(w) /\ ~MayClose(w)
           \/ HostsOf(w) = {} /\ PopupOffers(w) = {} /\ ~Candidate(w) /\ ~MayClose(w)
           \/ HostsOf(w) = {} /\ PopupOffers(w) = {} /\ ~Candidate(w) /\ Class[w] = "eva"
           \/ HostsOf(w) = {} /\ PopupOffers(w) = {} /\ ~Examined(w) /\ ~MayClose(w)
<1>1. MayClose(w) => Examined(w) /\ Class[w] = "eva"
  BY DEF MayClose
<1>2. Examined(w) => ~Candidate(w)
  BY DEF Examined, Candidate
<1>3. PopupOffers(w) = {Offer(PopupDecision(h), "always") : h \in HostsOf(w)}
  BY OffersOf
<1>4. CASE HostsOf(w) # {}
  <2>1. PICK h \in HostsOf(w) : TRUE
    BY <1>4
  <2>2. h \in live /\ Host(h) /\ w \in PopupMatches(h)
    BY <2>1 DEF HostsOf
  <2>3. \A i \in HostsOf(w) : i = h
    BY <2>2, OneHost DEF HostsOf
  <2>4. HostsOf(w) = {h}
    BY <2>1, <2>3
  <2>5. PopupOffers(w) = {Offer(PopupDecision(h), "always")}
    BY <1>3, <2>4
  <2>6. ~Examined(w) /\ ~Candidate(w)
    BY <2>2, MatchesNotExamined
  <2> QED
    BY <1>1, <2>1, <2>4, <2>5, <2>6
<1>5. CASE HostsOf(w) = {}
  <2>1. PopupOffers(w) = {}
    BY <1>3, <1>5
  <2> QED
    BY <1>1, <1>2, <1>5, <2>1
<1> QED
  BY <1>4, <1>5

LEMMA OfferFields ==
    ASSUME NEW decision, NEW track
    PROVE  Offer(decision, track).decision = decision /\ Offer(decision, track).track = track
  BY DEF Offer

\* What a round makes of a window: nothing, one store, or two of which the second does not
\* match.
LEMMA BranchesAre ==
    ASSUME live \subseteq Window, NEW w \in live, NEW track, NEW entry
    PROVE  \/ Offers(w, track) = {} /\ Branches(entry, w, track) = entry
           \/ \E o : Offers(w, track) = {o} /\ Branches(entry, w, track) = Store(entry, o)
           \/ \E c, a : /\ Offers(w, track) = {c, a}
                        /\ ~Matched(a.decision) /\ a.track = track /\ c.track = "signal"
                        /\ Branches(entry, w, track) = Store(Store(entry, c), a)
<1> DEFINE closes == CloseOffers(w)
           hides  == AggressiveOffers(w, track)
           olds   == LegacyOffers(w, track)
           pops   == PopupOffers(w)
           c == Offer(CloseDecision(w, aggressive), "signal")
           a == Offer(AggressiveDecision(w), track)
           o == Offer(LegacyDecision(w), track)
<1>1. /\ closes = {} \/ (closes = {c} /\ MayClose(w))
      /\ hides = {} \/ (hides = {a} /\ Examined(w))
      /\ olds = {} \/ (olds = {o} /\ Candidate(w))
  BY OffersOf
<1>2. /\ Offers(w, track) = closes \cup hides \cup olds \cup pops
      /\ Branches(entry, w, track) = StoreOf(StoreOf(StoreOf(StoreOf(entry, closes), hides), olds), pops)
  BY DEF Offers, Branches
<1>3. Class[w] = "eva" => ~Matched(a.decision)
  BY AggressiveIs, OfferFields
<1>4. a.track = track /\ c.track = "signal"
  BY OfferFields
<1>5. MayClose(w) => Examined(w)
  BY DEF MayClose
<1> HIDE DEF closes, hides, olds, pops, c, a, o
<1>6. \/ \E p : pops = {p} /\ closes = {} /\ hides = {} /\ olds = {}
      \/ pops = {} /\ closes = {} /\ olds = {}
      \/ pops = {} /\ olds = {} /\ Class[w] = "eva"
      \/ pops = {} /\ closes = {} /\ hides = {}
  <2>1. \/ \E h \in HostsOf(w) :
                  /\ pops = {Offer(PopupDecision(h), "always")}
                  /\ ~Examined(w) /\ ~Candidate(w) /\ ~MayClose(w)
        \/ pops = {} /\ ~Candidate(w) /\ ~MayClose(w)
        \/ pops = {} /\ ~Candidate(w) /\ Class[w] = "eva"
        \/ pops = {} /\ ~Examined(w) /\ ~MayClose(w)
    BY OneBranch DEF pops
  <2> QED
    BY <1>1, <2>1
<1>7. CASE \E p : pops = {p} /\ closes = {} /\ hides = {} /\ olds = {}
  <2>1. PICK p : pops = {p} /\ closes = {} /\ hides = {} /\ olds = {}
    BY <1>7
  <2>2. Offers(w, track) = {p} /\ Branches(entry, w, track) = Store(entry, p)
    BY <1>2, <2>1, StoreOfOne, StoreOfNone
  <2> QED
    BY <2>2
<1>8. CASE pops = {} /\ closes = {} /\ olds = {}
  <2>1. CASE hides = {}
    BY <1>2, <1>8, <2>1, StoreOfNone
  <2>2. CASE hides = {a}
    <3>1. Offers(w, track) = {a} /\ Branches(entry, w, track) = Store(entry, a)
      BY <1>2, <1>8, <2>2, StoreOfOne, StoreOfNone
    <3> QED
      BY <3>1
  <2> QED
    BY <1>1, <2>1, <2>2
<1>9. CASE pops = {} /\ olds = {} /\ Class[w] = "eva"
  <2>1. CASE closes = {}
    BY <1>8, <1>9, <2>1
  <2>2. CASE closes = {c} /\ hides = {}
    <3>1. Offers(w, track) = {c} /\ Branches(entry, w, track) = Store(entry, c)
      BY <1>2, <1>9, <2>2, StoreOfOne, StoreOfNone
    <3> QED
      BY <3>1
  <2>3. CASE closes = {c} /\ hides = {a}
    <3>1. Offers(w, track) = {c, a} /\ Branches(entry, w, track) = Store(Store(entry, c), a)
      BY <1>2, <1>9, <2>3, StoreOfOne, StoreOfNone
    <3> QED
      BY <1>3, <1>4, <1>9, <3>1
  <2> QED
    BY <1>1, <2>1, <2>2, <2>3
<1>10. CASE pops = {} /\ closes = {} /\ hides = {}
  <2>1. CASE olds = {}
    BY <1>2, <1>10, <2>1, StoreOfNone
  <2>2. CASE olds = {o}
    <3>1. Offers(w, track) = {o} /\ Branches(entry, w, track) = Store(entry, o)
      BY <1>2, <1>10, <2>2, StoreOfOne, StoreOfNone
    <3> QED
      BY <3>1
  <2> QED
    BY <1>1, <2>1, <2>2
<1> QED
  BY <1>6, <1>7, <1>8, <1>9, <1>10

\* What matches is one of three decisions, and the same ones are offered in both passes.
LEMMA OffersMatch ==
    ASSUME NEW w, NEW track, NEW o \in Offers(w, track), Matched(o.decision)
    PROVE  o.decision \in {Hide("strong"), Hide("weak"), Close, DismissPopup}
<1>1. CASE o \in CloseOffers(w)
  <2>1. o = Offer(CloseDecision(w, aggressive), "signal")
    BY <1>1, OffersOf
  <2> QED
    BY <2>1, OfferFields, CloseIs, MatchedIs
<1>2. CASE o \in AggressiveOffers(w, track)
  <2>1. o = Offer(AggressiveDecision(w), track)
    BY <1>2, OffersOf
  <2> QED
    BY <2>1, OfferFields, AggressiveIs
<1>3. CASE o \in LegacyOffers(w, track)
  <2>1. o = Offer(LegacyDecision(w), track)
    BY <1>3, OffersOf
  <2>2. o.decision = LegacyDecision(w)
    BY <2>1, OfferFields
  <2>3. LegacyDecision(w) \in {Hide("strong"), Hide("weak"), Nothing(FALSE)}
    BY LegacyIs
  <2> QED
    BY <2>2, <2>3, MatchedIs
<1>4. CASE o \in PopupOffers(w)
  <2>1. PopupOffers(w) = {Offer(PopupDecision(h), "always") : h \in HostsOf(w)}
    BY OffersOf
  <2>2. PICK h \in HostsOf(w) : o = Offer(PopupDecision(h), "always")
    BY <1>4, <2>1
  <2>3. o.decision = PopupDecision(h)
    BY <2>2, OfferFields
  <2>4. PopupDecision(h) \in {DismissPopup, Nothing(TRUE)}
    BY PopupIs
  <2> QED
    BY <2>3, <2>4, MatchedIs
<1> QED
  BY <1>1, <1>2, <1>3, <1>4 DEF Offers

LEMMA SameDecisions ==
    ASSUME NEW w, NEW s, NEW t, NEW o \in Offers(w, s)
    PROVE  \E p \in Offers(w, t) : p.decision = o.decision
<1>1. CASE o \in CloseOffers(w) \cup PopupOffers(w)
  BY <1>1 DEF Offers
<1>2. CASE o \in AggressiveOffers(w, s)
  <2>1. /\ o = Offer(AggressiveDecision(w), s)
        /\ Offer(AggressiveDecision(w), t) \in AggressiveOffers(w, t)
    BY <1>2, OffersOf
  <2> QED
    BY <2>1, OfferFields DEF Offers
<1>3. CASE o \in LegacyOffers(w, s)
  <2>1. /\ o = Offer(LegacyDecision(w), s)
        /\ Offer(LegacyDecision(w), t) \in LegacyOffers(w, t)
    BY <1>3, OffersOf
  <2> QED
    BY <2>1, OfferFields DEF Offers
<1> QED
  BY <1>1, <1>2, <1>3 DEF Offers

\* An entry as a round finds it.
Fresh(entry) == /\ entry \in Entries /\ entry.said = {} /\ entry.touched = FALSE
                /\ entry.streak \in 0 .. Confirm \cup {Unseen}

LEMMA BranchesMatch ==
    ASSUME live \subseteq Window, NEW w \in live, NEW track, track # "always",
           NEW entry, Fresh(entry), NEW o \in Offers(w, track), Matched(o.decision)
    PROVE  LET e == Branches(entry, w, track)
           IN /\ e \in Entries
              /\ e.streak = Longer(entry.streak) /\ e.streak \in 1 .. Confirm
              /\ e.said = IF Confirms(o.decision, Longer(entry.streak)) THEN {o.decision.action} ELSE {}
<1>1. o.decision.action \in Actions
  BY OffersMatch, DecisionFields DEF Actions
<1>2. /\ Store(entry, o) \in Entries
      /\ Store(entry, o).streak = Longer(entry.streak) /\ Store(entry, o).streak \in 1 .. Confirm
      /\ Store(entry, o).said = IF Confirms(o.decision, Longer(entry.streak))
                               THEN {o.decision.action} ELSE {}
      /\ o.track # "always" => Store(entry, o).touched = TRUE
  BY <1>1, StoreMatch DEF Fresh
<1>3. CASE \E p : Offers(w, track) = {p} /\ Branches(entry, w, track) = Store(entry, p)
  BY <1>2, <1>3
<1>4. CASE \E c, a : /\ Offers(w, track) = {c, a}
                     /\ ~Matched(a.decision) /\ a.track = track /\ c.track = "signal"
                     /\ Branches(entry, w, track) = Store(Store(entry, c), a)
  <2>1. PICK a : /\ ~Matched(a.decision) /\ a.track = track /\ o.track = "signal"
                 /\ Branches(entry, w, track) = Store(Store(entry, o), a)
    BY <1>4
  <2>2. Store(Store(entry, o), a) = Store(entry, o)
    BY <1>2, <2>1, StoreMiss
  <2> QED
    BY <1>2, <2>1, <2>2
<1> QED
  BY <1>3, <1>4, BranchesAre

\* A second question that is not answered yes changes nothing that the first one stored.
LEMMA BranchesMiss ==
    ASSUME live \subseteq Window, NEW w \in live, NEW track, track # "always",
           NEW entry, Fresh(entry), \A o \in Offers(w, track) : ~Matched(o.decision)
    PROVE  LET e == Branches(entry, w, track)
           IN /\ e \in Entries /\ e.said = {} /\ e.streak \in {entry.streak, 0}
              /\ Offers(w, track) = {} => e.streak = entry.streak
              /\ Offers(w, track) # {} /\ e.streak # Unseen => e.streak = 0
<1> DEFINE e == Branches(entry, w, track)
<1>1. entry \in Entries /\ entry.said = {} /\ entry.touched = FALSE
  BY DEF Fresh
<1>2. CASE Offers(w, track) = {} /\ e = entry
  BY <1>1, <1>2
<1>3. CASE \E p : Offers(w, track) = {p} /\ e = Store(entry, p)
  <2>1. PICK p : Offers(w, track) = {p} /\ e = Store(entry, p)
    BY <1>3
  <2>2. ~Matched(p.decision)
    BY <2>1
  <2>3. /\ Store(entry, p) \in Entries /\ Store(entry, p).said = entry.said
        /\ Store(entry, p).streak \in {entry.streak, 0}
        /\ ~entry.touched /\ entry.streak # Unseen => Store(entry, p).streak = 0
    BY <1>1, <2>2, StoreMiss
  <2> QED
    BY <1>1, <2>1, <2>3
<1>4. CASE \E c, a : /\ Offers(w, track) = {c, a}
                     /\ ~Matched(a.decision) /\ a.track = track /\ c.track = "signal"
                     /\ e = Store(Store(entry, c), a)
  <2>1. PICK c, a : /\ Offers(w, track) = {c, a}
                    /\ ~Matched(a.decision) /\ a.track = track /\ c.track = "signal"
                    /\ e = Store(Store(entry, c), a)
    BY <1>4
  <2>2. ~Matched(c.decision)
    BY <2>1
  <2> DEFINE f == Store(entry, c)
  <2>3. /\ f \in Entries /\ f.said = entry.said
        /\ f.streak \in {entry.streak, 0}
        /\ ~entry.touched /\ entry.streak # Unseen => f.streak = 0
    BY <1>1, <2>2, StoreMiss
  <2>4. /\ Store(f, a) \in Entries /\ Store(f, a).said = f.said
        /\ Store(f, a).streak \in {f.streak, 0}
    BY <2>1, <2>3, StoreMiss
  <2> HIDE DEF f
  <2>5. e = Store(f, a)
    BY <2>1 DEF f
  <2> QED
    BY <1>1, <2>1, <2>3, <2>4, <2>5
<1> QED
  BY <1>2, <1>3, <1>4, BranchesAre

\* Both passes of a round confirm the same.
LEMMA PassesAgree ==
    ASSUME live \subseteq Window, NEW w \in live, NEW entry, Fresh(entry)
    PROVE  Branches(entry, w, "known").said = Branches(entry, w, "signal").said
<1>1. CASE \E o \in Offers(w, "known") : Matched(o.decision)
  <2>1. PICK o \in Offers(w, "known") : Matched(o.decision)
    BY <1>1
  <2>2. PICK p \in Offers(w, "signal") : p.decision = o.decision
    BY SameDecisions
  <2>3. "known" # "always" /\ "signal" # "always" /\ Matched(p.decision)
    BY <2>1, <2>2
  <2>4. Branches(entry, w, "known").said =
            IF Confirms(o.decision, Longer(entry.streak)) THEN {o.decision.action} ELSE {}
    BY <2>1, <2>3, BranchesMatch
  <2>5. Branches(entry, w, "signal").said =
            IF Confirms(p.decision, Longer(entry.streak)) THEN {p.decision.action} ELSE {}
    BY <2>3, BranchesMatch
  <2> QED
    BY <2>2, <2>4, <2>5
<1>2. CASE \A o \in Offers(w, "known") : ~Matched(o.decision)
  <2>1. \A p \in Offers(w, "signal") : ~Matched(p.decision)
    <3> SUFFICES ASSUME NEW p \in Offers(w, "signal") PROVE ~Matched(p.decision)
      OBVIOUS
    <3>1. PICK o \in Offers(w, "known") : o.decision = p.decision
      BY SameDecisions
    <3> QED
      BY <1>2, <3>1
  <2>2. "known" # "always" /\ "signal" # "always"
    OBVIOUS
  <2>3. Branches(entry, w, "known").said = {} /\ Branches(entry, w, "signal").said = {}
    BY <1>2, <2>1, <2>2, BranchesMiss
  <2> QED
    BY <2>3
<1> QED
  BY <1>1, <1>2

----------------------------------------------------------------------------
(* Rounds.                                                                 *)

LEMMA EntryFresh == ASSUME TypeOK, NEW w PROVE Fresh(Entry(w))
<1>1. Entry(w) = [streak |-> IF w \in DOMAIN states THEN states[w] ELSE Unseen,
                  touched |-> FALSE, said |-> {}]
  BY DEF Entry
<1> DEFINE streak == IF w \in DOMAIN states THEN states[w] ELSE Unseen
<1>2. streak \in 0 .. Confirm \cup {Unseen} /\ streak \in Int
  BY ConfirmType DEF TypeOK, Unseen
<1> HIDE DEF streak
<1>3. Entry(w) = [streak |-> streak, touched |-> FALSE, said |-> {}]
  BY <1>1 DEF streak
<1> QED
  BY <1>2, <1>3 DEF Fresh, Entries

LEMMA EntryIs ==
    ASSUME NEW w
    PROVE  Entry(w).streak = IF w \in DOMAIN states THEN states[w] ELSE Unseen
  BY DEF Entry

\* What a round says of a window.
LEMMA OutcomeMatch ==
    ASSUME TypeOK, NEW w \in live, NEW o \in ApplyOffers(w), Matched(o.decision)
    PROVE  /\ Outcome(w).streak = Longer(Entry(w).streak) /\ Outcome(w).streak \in 1 .. Confirm
           /\ Outcome(w).said = IF Confirms(o.decision, Longer(Entry(w).streak))
                               THEN {o.decision.action} ELSE {}
<1>1. live \subseteq Window /\ Fresh(Entry(w)) /\ "known" # "always"
  BY EntryFresh DEF TypeOK, TreeTypeOK
<1>2. o \in Offers(w, "known") /\ Outcome(w) = Branches(Entry(w), w, "known")
  BY BranchesOf
<1> QED
  BY <1>1, <1>2, BranchesMatch

LEMMA OutcomeMiss ==
    ASSUME TypeOK, NEW w \in live, \A o \in ApplyOffers(w) : ~Matched(o.decision)
    PROVE  /\ Outcome(w).said = {} /\ Outcome(w).streak \in {Entry(w).streak, 0}
           /\ ApplyOffers(w) = {} => Outcome(w).streak = Entry(w).streak
           /\ ApplyOffers(w) # {} /\ Outcome(w).streak # Unseen => Outcome(w).streak = 0
<1>1. live \subseteq Window /\ Fresh(Entry(w)) /\ "known" # "always"
  BY EntryFresh DEF TypeOK, TreeTypeOK
<1>2. ApplyOffers(w) = Offers(w, "known") /\ Outcome(w) = Branches(Entry(w), w, "known")
  BY BranchesOf
<1> QED
  BY <1>1, <1>2, BranchesMiss

LEMMA OutcomeType ==
    ASSUME TypeOK, NEW w \in live
    PROVE  /\ Outcome(w).streak \in 0 .. Confirm \cup {Unseen}
           /\ Outcome(w).said \subseteq Actions
<1>1. Fresh(Entry(w))
  BY EntryFresh
<1>2. CASE \E o \in ApplyOffers(w) : Matched(o.decision)
  <2>1. PICK o \in ApplyOffers(w) : Matched(o.decision)
    BY <1>2
  <2>2. o.decision.action \in Actions
    BY <2>1, BranchesOf, OffersMatch, DecisionFields DEF Actions
  <2>3. Outcome(w).streak \in 1 .. Confirm
    BY <2>1, OutcomeMatch
  <2>4. Outcome(w).said = {} \/ Outcome(w).said = {o.decision.action}
    BY <2>1, OutcomeMatch
  <2> QED
    BY <2>2, <2>3, <2>4, ConfirmType
<1>3. CASE \A o \in ApplyOffers(w) : ~Matched(o.decision)
  BY <1>1, <1>3, OutcomeMiss, ConfirmType DEF Fresh
<1> QED
  BY <1>2, <1>3

\* What matches is dismissed with its host or not a pop-up.
LEMMA DismissedIs ==
    ASSUME live \subseteq Window
    PROVE  /\ Dismissed \subseteq live
           /\ \A w \in live : w \in Dismissed <=>
                 \/ HostOffers(w) # {}
                 \/ \E h \in HostsOf(w) : HostAllowed(h)
<1> DEFINE open == {h \in live : Host(h) /\ HostAllowed(h) /\ PopupMatches(h) # {}}
<1>1. Dismissed = open \cup UNION {PopupMatches(h) : h \in open}
  BY DEF Dismissed
<1>2. \A h \in live : PopupMatches(h) \subseteq live
  BY DEF PopupMatches, Within
<1>3. \A w \in live : w \in open <=> HostOffers(w) # {}
  BY DEF HostOffers
<1>4. \A w \in live : w \in UNION {PopupMatches(h) : h \in open} <=> \E h \in HostsOf(w) : HostAllowed(h)
  BY DEF HostsOf
<1>5. open \subseteq live
  OBVIOUS
<1> HIDE DEF open
<1> QED
  BY <1>1, <1>2, <1>3, <1>4, <1>5

LEMMA MatchIs ==
    ASSUME live \subseteq Window, NEW w \in live, NEW track,
           NEW o \in Offers(w, track), Matched(o.decision)
    PROVE  \/ /\ o.decision \in {Hide("strong"), Hide("weak"), Close}
              /\ o \in CloseOffers(w) \cup AggressiveOffers(w, track) \cup LegacyOffers(w, track)
              /\ HostsOf(w) = {}
           \/ /\ o.decision = DismissPopup
              /\ \E h \in HostsOf(w) : HostAllowed(h)
<1>1. PopupOffers(w) = {Offer(PopupDecision(h), "always") : h \in HostsOf(w)}
  BY OffersOf
<1>2. CASE o \in PopupOffers(w)
  <2>1. PICK h \in HostsOf(w) : o = Offer(PopupDecision(h), "always")
    BY <1>1, <1>2
  <2>2. o.decision = PopupDecision(h)
    BY <2>1, OfferFields
  <2>3. HostAllowed(h)
    BY <2>2, PopupIs, MatchedIs
  <2> QED
    BY <2>1, <2>2, <2>3, PopupIs
<1>3. CASE o \in CloseOffers(w) \cup AggressiveOffers(w, track) \cup LegacyOffers(w, track)
  <2>1. HostsOf(w) = {}
    <3>1. MayClose(w) \/ Examined(w) \/ Candidate(w)
      BY <1>3, OffersOf
    <3>2. MayClose(w) => Examined(w)
      BY DEF MayClose
    <3> QED
      BY <3>1, <3>2, OneBranch
  <2>2. o.decision # DismissPopup
    <3>1. CASE o \in CloseOffers(w)
      <4>1. o = Offer(CloseDecision(w, aggressive), "signal")
        BY <3>1 DEF CloseOffers
      <4>2. o.decision = CloseDecision(w, aggressive)
        BY <4>1, OfferFields
      <4>3. o.decision = Close \/ \E signal : o.decision = Nothing(signal)
        BY <4>2, CloseIs
      <4> QED
        BY <4>3, DecisionFields
    <3>2. CASE o \in AggressiveOffers(w, track)
      <4>1. o.decision = AggressiveDecision(w)
        BY <3>2, OffersOf, OfferFields
      <4>2. o.decision \in {Hide("strong"), Hide("weak")}
        BY <4>1, AggressiveIs
      <4> QED
        BY <4>2, DecisionFields
    <3>3. CASE o \in LegacyOffers(w, track)
      <4>1. o.decision = LegacyDecision(w)
        BY <3>3, OffersOf, OfferFields
      <4>2. o.decision \in {Hide("strong"), Hide("weak"), Nothing(FALSE)}
        BY <4>1, LegacyIs
      <4> QED
        BY <4>2, DecisionFields
    <3> QED
      BY <1>3, <3>1, <3>2, <3>3
  <2> QED
    BY <1>3, <2>1, <2>2, OffersMatch
<1> QED
  BY <1>2, <1>3 DEF Offers

\* No window gets two matches in one round.
LEMMA OneMatch ==
    ASSUME live \subseteq Window, NEW w \in live, NEW track,
           NEW o \in Offers(w, track), NEW p \in Offers(w, track),
           Matched(o.decision), Matched(p.decision)
    PROVE  o = p
<1> DEFINE entry == Entry(w)
<1> HIDE DEF entry
<1>1. \/ Offers(w, track) = {} /\ Branches(entry, w, track) = entry
      \/ \E q : Offers(w, track) = {q} /\ Branches(entry, w, track) = Store(entry, q)
      \/ \E c, a : /\ Offers(w, track) = {c, a}
                   /\ ~Matched(a.decision) /\ a.track = track /\ c.track = "signal"
                   /\ Branches(entry, w, track) = Store(Store(entry, c), a)
  BY BranchesAre
<1> QED
  BY <1>1

LEMMA RoundIs ==
    ASSUME TypeOK, Round
    PROVE  /\ plan'.hide = {w \in live : "hide" \in Outcome(w).said} \cup Dismissed
           /\ plan'.close = {w \in live : "close" \in Outcome(w).said} \cup (Dismissed \cap visible)
           /\ plan'.zero = Dismissed /\ plan'.resize = {w \in live : NeedsResize(w)}
           /\ plan' = [hide |-> plan'.hide, close |-> plan'.close,
                       zero |-> plan'.zero, resize |-> plan'.resize]
           /\ preview' = Previewed
           /\ \A w \in live : /\ w \in DOMAIN states' <=> Outcome(w).streak # Unseen
                              /\ w \in DOMAIN states' => states'[w] = Outcome(w).streak
           /\ \A w \in DOMAIN states' \ live : w \in DOMAIN states /\ states'[w] = states[w]
           /\ seen' = [w \in Window |->
                 IF w \notin DOMAIN states' THEN 0
                 ELSE IF w \notin live \/ ApplyOffers(w) = {} THEN seen[w]
                 ELSE IF \E o \in ApplyOffers(w) : Matched(o.decision) THEN Least(Confirm, seen[w] + 1)
                 ELSE 0]
<1> DEFINE outcome == [w \in live |-> Outcome(w)]
<1>1. /\ plan' = PlanOf(outcome) /\ preview' = Previewed
      /\ \E kept \in SUBSET (DOMAIN states \ live) : states' = StatesAfter(outcome, kept)
      /\ seen' = [w \in Window |->
                 IF w \notin DOMAIN states' THEN 0
                 ELSE IF w \notin live \/ ApplyOffers(w) = {} THEN seen[w]
                 ELSE IF \E o \in ApplyOffers(w) : Matched(o.decision) THEN Least(Confirm, seen[w] + 1)
                 ELSE 0]
  BY DEF Round
<1>2. PICK kept \in SUBSET (DOMAIN states \ live) : states' = StatesAfter(outcome, kept)
  BY <1>1
<1>3. states' = [w \in kept \cup {v \in live : outcome[v].streak # Unseen} |->
                    IF w \in live THEN outcome[w].streak ELSE states[w]]
  BY <1>2 DEF StatesAfter
<1>4. \A w \in live : outcome[w] = Outcome(w)
  OBVIOUS
<1>5. plan' = [hide   |-> {w \in live : "hide" \in outcome[w].said} \cup Dismissed,
               close  |-> {w \in live : "close" \in outcome[w].said} \cup (Dismissed \cap visible),
               zero   |-> Dismissed,
               resize |-> {w \in live : NeedsResize(w)}]
  BY <1>1 DEF PlanOf
<1> HIDE DEF outcome
<1>6. /\ plan'.hide = {w \in live : "hide" \in Outcome(w).said} \cup Dismissed
      /\ plan'.close = {w \in live : "close" \in Outcome(w).said} \cup (Dismissed \cap visible)
      /\ plan'.zero = Dismissed /\ plan'.resize = {w \in live : NeedsResize(w)}
      /\ plan' = [hide |-> plan'.hide, close |-> plan'.close,
                  zero |-> plan'.zero, resize |-> plan'.resize]
  BY <1>4, <1>5
<1>7. \A w \in live : /\ w \in DOMAIN states' <=> Outcome(w).streak # Unseen
                      /\ w \in DOMAIN states' => states'[w] = Outcome(w).streak
  BY <1>2, <1>3, <1>4
<1>8. \A w \in DOMAIN states' \ live : w \in DOMAIN states /\ states'[w] = states[w]
  BY <1>2, <1>3
<1> QED
  BY <1>1, <1>6, <1>7, <1>8

----------------------------------------------------------------------------
(* Types.                                                                  *)

LEMMA InitTypes == Init => TypeOK
<1> SUFFICES ASSUME Init PROVE TypeOK
  OBVIOUS
<1>1. TreeTypeOK
  BY ChangesAssumption DEF Init, TreeTypeOK
<1>2. DOMAIN states = {}
  BY DEF Init
<1>3. plan \in Action /\ plan.zero \subseteq plan.hide
  BY DEF Init, NoPlan, Action
<1>4. seen \in [Window -> 0 .. Confirm]
  BY ConfirmType DEF Init
<1> QED
  BY <1>1, <1>2, <1>3, <1>4, ChangesAssumption DEF Init, TypeOK

LEMMA RoundTypes == TypeOK /\ Round => TypeOK'
<1> SUFFICES ASSUME TypeOK, Round PROVE TypeOK'
  OBVIOUS
<1>1. UNCHANGED <<treeVars, aggressive, changes>> /\ since' = "round"
  BY DEF Round
<1>2. live \subseteq Window /\ visible \subseteq live /\ Dismissed \subseteq live
  BY DismissedIs DEF TypeOK, TreeTypeOK
<1>3. TreeTypeOK'
  BY <1>1 DEF TypeOK, TreeTypeOK, treeVars
<1>4. plan' \in Action /\ (plan.zero \subseteq plan.hide)'
  <2>1. plan'.hide \subseteq Window /\ plan'.close \subseteq Window
    BY <1>2, RoundIs
  <2>2. plan'.zero \subseteq Window /\ plan'.resize \subseteq Window
    BY <1>2, RoundIs
  <2>3. plan' = [hide |-> plan'.hide, close |-> plan'.close,
                 zero |-> plan'.zero, resize |-> plan'.resize]
    BY RoundIs
  <2>4. plan' \in Action
    BY <2>1, <2>2, <2>3 DEF Action
  <2>5. plan'.zero \subseteq plan'.hide
    BY RoundIs
  <2> QED
    BY <2>4, <2>5
<1>5. \A w \in DOMAIN states' : w \in Window /\ states'[w] \in 0 .. Confirm
  <2> SUFFICES ASSUME NEW w \in DOMAIN states' PROVE w \in Window /\ states'[w] \in 0 .. Confirm
    OBVIOUS
  <2>1. CASE w \in live
    <3>1. Outcome(w).streak # Unseen /\ states'[w] = Outcome(w).streak
      BY <2>1, RoundIs
    <3> QED
      BY <1>2, <2>1, <3>1, OutcomeType
  <2>2. CASE w \notin live
    <3>1. w \in DOMAIN states /\ states'[w] = states[w]
      BY <2>2, RoundIs
    <3> QED
      BY <3>1 DEF TypeOK
  <2> QED
    BY <2>1, <2>2
<1>6. preview' \subseteq Window \X {"hide", "close", "dismiss_popup"}
  <2> SUFFICES ASSUME NEW w \in live PROVE PreviewOutcome(w, Entry(w)).said \subseteq Actions
    BY <1>2, RoundIs DEF Previewed, Actions
  <2> DEFINE e == Branches(Entry(w), w, "signal")
  <2>1. PreviewOutcome(w, Entry(w)) = StoreOf(e, HostOffers(w))
    BY BranchesOf
  <2>2. e \in Entries /\ e.streak \in 0 .. Confirm \cup {Unseen}
    <3>1. Fresh(Entry(w)) /\ "signal" # "always"
      BY EntryFresh
    <3>2. CASE \E o \in Offers(w, "signal") : Matched(o.decision)
      <4>1. e \in Entries /\ e.streak \in 1 .. Confirm
        BY <1>2, <3>1, <3>2, BranchesMatch
      <4> HIDE DEF e
      <4> QED
        BY <4>1, ConfirmType
    <3>3. CASE \A o \in Offers(w, "signal") : ~Matched(o.decision)
      <4>1. e \in Entries /\ e.streak \in {Entry(w).streak, 0}
        BY <1>2, <3>1, <3>3, BranchesMiss
      <4> HIDE DEF e
      <4> QED
        BY <3>1, <4>1, ConfirmType DEF Fresh
    <3> QED
      BY <3>2, <3>3
  <2> HIDE DEF e
  <2>3. e.said \subseteq Actions
    BY <2>2 DEF Entries
  <2>4. HostOffers(w) = {} \/ HostOffers(w) = {Offer(DismissPopup, "always")}
    BY DEF HostOffers
  <2>5. CASE HostOffers(w) = {}
    BY <2>1, <2>3, <2>5, StoreOfNone
  <2>6. CASE HostOffers(w) = {Offer(DismissPopup, "always")}
    BY <2>1, <2>2, <2>3, <2>6, StoreOfOne, StoreHost DEF Actions
  <2> QED
    BY <2>4, <2>5, <2>6
<1>7. seen' \in [Window -> 0 .. Confirm]
  <2>1. \A n \in 0 .. Confirm : Least(Confirm, n + 1) \in 0 .. Confirm
    BY ConfirmType DEF Least
  <2>2. 0 \in 0 .. Confirm
    BY ConfirmType
  <2>3. seen' = [w \in Window |->
                 IF w \notin DOMAIN states' THEN 0
                 ELSE IF w \notin live \/ ApplyOffers(w) = {} THEN seen[w]
                 ELSE IF \E o \in ApplyOffers(w) : Matched(o.decision) THEN Least(Confirm, seen[w] + 1)
                 ELSE 0]
    BY RoundIs
  <2>4. \A w \in Window : seen[w] \in 0 .. Confirm
    BY DEF TypeOK
  <2>5. \A w \in Window : seen'[w] \in {0, seen[w], Least(Confirm, seen[w] + 1)}
    BY <2>3
  <2> QED
    BY <2>1, <2>2, <2>3, <2>4, <2>5
<1> QED
  BY <1>1, <1>3, <1>4, <1>5, <1>6, <1>7 DEF TypeOK

LEMMA SwitchTypes == TypeOK /\ (Forget \/ SwitchAggressive) => TypeOK'
<1>1. ASSUME TypeOK, Forget PROVE TypeOK'
  <2>1. TreeTypeOK'
    BY <1>1 DEF Forget, TypeOK, TreeTypeOK, treeVars
  <2>2. DOMAIN states' = {}
    BY <1>1 DEF Forget
  <2>3. seen' \in [Window -> 0 .. Confirm]
    BY <1>1, ConfirmType DEF Forget
  <2>4. changes' \in 0 .. Changes
    BY <1>1, ChangesAssumption DEF Forget, TypeOK
  <2> QED
    BY <1>1, <2>1, <2>2, <2>3, <2>4 DEF Forget, TypeOK
<1>2. ASSUME TypeOK, SwitchAggressive PROVE TypeOK'
  <2>1. TreeTypeOK'
    BY <1>2 DEF SwitchAggressive, TypeOK, TreeTypeOK, treeVars
  <2>2. changes' \in 0 .. Changes
    BY <1>2, ChangesAssumption DEF SwitchAggressive, TypeOK
  <2> QED
    BY <1>2, <2>1, <2>2 DEF SwitchAggressive, TypeOK, ruleVars
<1> QED
  BY <1>1, <1>2

\* KakaoTalk's own changes.
LEMMA ChangeTypes ==
    ASSUME TypeOK, Change, TreeTypeOK'
    PROVE  TypeOK'
<1>1. changes' \in 0 .. Changes
  BY ChangesAssumption DEF Change, TypeOK
<1> QED
  BY <1>1 DEF Change, TypeOK, ruleVars

LEMMA WindowTypes ==
    ASSUME TypeOK, NEW w \in Window,
           Appears(w) \/ Vanishes(w) \/ Retitles(w) \/ Moves(w) \/ Shows(w)
    PROVE  TypeOK' /\ Change
<1> USE ChangesAssumption DEF TypeOK, TreeTypeOK
<1>1. CASE Appears(w)
  <2>1. PICK t \in CanSay[w] : text' = [text EXCEPT ![w] = t]
    BY <1>1 DEF Appears
  <2>2. PICK p \in CanLie[w] : place' = [place EXCEPT ![w] = p]
    BY <1>1 DEF Appears
  <2>3. live' \subseteq Window /\ visible' \subseteq live'
    BY <1>1 DEF Appears
  <2>4. text' \in [Window -> Text] /\ place' \in [Window -> Place]
    BY <2>1, <2>2
  <2>5. TreeTypeOK' /\ Change
    BY <1>1, <2>3, <2>4 DEF Appears
  <2> QED
    BY <2>5, ChangeTypes
<1>2. CASE Vanishes(w)
  <2>1. live' \subseteq Window /\ visible' \subseteq live'
    BY <1>2 DEF Vanishes
  <2>2. text' \in [Window -> Text] /\ place' \in [Window -> Place]
    BY <1>2 DEF Vanishes, Text, Place
  <2>3. TreeTypeOK' /\ Change
    BY <1>2, <2>1, <2>2 DEF Vanishes
  <2> QED
    BY <2>3, ChangeTypes
<1>3. CASE Retitles(w)
  <2>1. TreeTypeOK' /\ Change
    BY <1>3 DEF Retitles
  <2> QED
    BY <2>1, ChangeTypes
<1>4. CASE Moves(w)
  <2>1. TreeTypeOK' /\ Change
    BY <1>4 DEF Moves
  <2> QED
    BY <2>1, ChangeTypes
<1>5. CASE Shows(w)
  <2>1. TreeTypeOK' /\ Change
    BY <1>5 DEF Shows
  <2> QED
    BY <2>1, ChangeTypes
<1> QED
  BY <1>1, <1>2, <1>3, <1>4, <1>5

\* The windows that close take with them what they have.
LEMMA AppliedIs ==
    ASSUME Applied
    PROVE  \E closed, stubborn :
              /\ live' = live \ closed
              /\ visible' = (visible \ closed) \ (plan.hide \ stubborn)
              /\ text' = [w \in Window |-> IF w \in closed THEN "" ELSE text[w]]
              /\ place' = [w \in Window |-> IF w \in closed THEN "unknown"
                                          ELSE IF w \in plan.resize THEN "fitted" ELSE place[w]]
              /\ since' = IF closed = {} THEN "applied" ELSE "change"
              /\ since # "change"
              /\ UNCHANGED <<aggressive, ruleVars, changes>>
<1>1. PICK staying, stubborn :
         LET closed == UNION {Gone(w) : w \in (plan.close \cap live) \ staying}
         IN /\ since # "change"
            /\ live' = live \ closed
            /\ visible' = (visible \ closed) \ (plan.hide \ stubborn)
            /\ text' = [w \in Window |-> IF w \in closed THEN "" ELSE text[w]]
            /\ place' = [w \in Window |-> IF w \in closed THEN "unknown"
                                        ELSE IF w \in plan.resize THEN "fitted" ELSE place[w]]
            /\ since' = IF closed = {} THEN "applied" ELSE "change"
  BY DEF Applied
<1>2. UNCHANGED <<aggressive, ruleVars, changes>>
  BY DEF Applied
<1> DEFINE closed == UNION {Gone(w) : w \in (plan.close \cap live) \ staying}
<1>3. /\ since # "change"
      /\ live' = live \ closed
      /\ visible' = (visible \ closed) \ (plan.hide \ stubborn)
      /\ text' = [w \in Window |-> IF w \in closed THEN "" ELSE text[w]]
      /\ place' = [w \in Window |-> IF w \in closed THEN "unknown"
                                  ELSE IF w \in plan.resize THEN "fitted" ELSE place[w]]
      /\ since' = IF closed = {} THEN "applied" ELSE "change"
  BY <1>1
<1> HIDE DEF closed
<1> QED
  BY <1>2, <1>3

LEMMA AppliedTypes == TypeOK /\ Applied => TypeOK'
<1> SUFFICES ASSUME TypeOK, Applied PROVE TypeOK'
  OBVIOUS
<1>1. PICK closed, stubborn :
              /\ live' = live \ closed
              /\ visible' = (visible \ closed) \ (plan.hide \ stubborn)
              /\ text' = [w \in Window |-> IF w \in closed THEN "" ELSE text[w]]
              /\ place' = [w \in Window |-> IF w \in closed THEN "unknown"
                                          ELSE IF w \in plan.resize THEN "fitted" ELSE place[w]]
              /\ since' = IF closed = {} THEN "applied" ELSE "change"
              /\ since # "change"
              /\ UNCHANGED <<aggressive, ruleVars, changes>>
  BY AppliedIs
<1>2. live' \subseteq Window /\ visible' \subseteq live'
  BY <1>1 DEF TypeOK, TreeTypeOK
<1>3. text' \in [Window -> Text] /\ place' \in [Window -> Place]
  BY <1>1 DEF TypeOK, TreeTypeOK, Text, Place
<1>4. TreeTypeOK'
  BY <1>2, <1>3 DEF TreeTypeOK
<1> QED
  BY <1>1, <1>4 DEF TypeOK, ruleVars

LEMMA NextTypes == TypeOK /\ [Next]_vars => TypeOK'
<1> SUFFICES ASSUME TypeOK, [Next]_vars PROVE TypeOK'
  OBVIOUS
<1>1. CASE UNCHANGED vars
  BY <1>1 DEF vars, treeVars, ruleVars, TypeOK, TreeTypeOK
<1> QED
  BY <1>1, RoundTypes, AppliedTypes, SwitchTypes, WindowTypes DEF Next

\* The variables of the evaluation have their types, and what is made empty is hidden,
\* in every tree of windows.
THEOREM EvaluateTypes == Spec => []TypeOK
<1> QED
  BY InitTypes, NextTypes, PTL DEF Spec

----------------------------------------------------------------------------
(* What confirms an action.  The streak that is stored of a window is what *)
(* was counted of its examinations: no branch of a round wipes it and none *)
(* counts it twice.                                                        *)

Counted == \A w \in Window : seen[w] = IF w \in DOMAIN states THEN states[w] ELSE 0

LEMMA CountedMatch ==
    ASSUME TypeOK, Counted, NEW w \in Window
    PROVE  Longer(Entry(w).streak) = Least(Confirm, seen[w] + 1)
<1>1. CASE w \in DOMAIN states
  <2>1. states[w] \in 0 .. Confirm /\ seen[w] = states[w] /\ Entry(w).streak = states[w]
    BY <1>1, EntryIs DEF TypeOK, Counted
  <2>2. states[w] # Unseen
    BY <2>1, ConfirmType DEF Unseen
  <2> QED
    BY <2>1, <2>2 DEF Longer
<1>2. CASE w \notin DOMAIN states
  <2>1. seen[w] = 0 /\ Entry(w).streak = Unseen
    BY <1>2, EntryIs DEF Counted
  <2> QED
    BY <2>1 DEF Longer
<1> QED
  BY <1>1, <1>2

LEMMA InitCounted == Init => Counted
  BY DEF Init, Counted

LEMMA RoundCounted == TypeOK /\ Counted /\ Round => Counted'
<1> SUFFICES ASSUME TypeOK, Counted, Round, NEW w \in Window
             PROVE  seen'[w] = IF w \in DOMAIN states' THEN states'[w] ELSE 0
  BY DEF Counted
<1>1. seen'[w] = IF w \notin DOMAIN states' THEN 0
                 ELSE IF w \notin live \/ ApplyOffers(w) = {} THEN seen[w]
                 ELSE IF \E o \in ApplyOffers(w) : Matched(o.decision) THEN Least(Confirm, seen[w] + 1)
                 ELSE 0
  BY RoundIs
<1>2. CASE w \notin DOMAIN states'
  BY <1>1, <1>2
<1>3. CASE w \in DOMAIN states' /\ w \notin live
  <2>1. w \in DOMAIN states /\ states'[w] = states[w]
    BY <1>3, RoundIs
  <2> QED
    BY <1>1, <1>3, <2>1 DEF Counted
<1>4. CASE w \in DOMAIN states' /\ w \in live /\ \E o \in ApplyOffers(w) : Matched(o.decision)
  <2>1. PICK o \in ApplyOffers(w) : Matched(o.decision)
    BY <1>4
  <2>2. states'[w] = Outcome(w).streak /\ Outcome(w).streak = Longer(Entry(w).streak)
    BY <1>4, <2>1, RoundIs, OutcomeMatch
  <2>3. ApplyOffers(w) # {}
    BY <2>1
  <2> QED
    BY <1>1, <1>4, <2>2, <2>3, CountedMatch
<1>5. CASE w \in DOMAIN states' /\ w \in live /\ \A o \in ApplyOffers(w) : ~Matched(o.decision)
  <2>1. states'[w] = Outcome(w).streak /\ Outcome(w).streak # Unseen
    BY <1>5, RoundIs
  <2>2. CASE ApplyOffers(w) = {}
    <3>1. Outcome(w).streak = Entry(w).streak
      BY <1>5, <2>2, OutcomeMiss
    <3>2. w \in DOMAIN states /\ Entry(w).streak = states[w]
      BY <2>1, <3>1, EntryIs
    <3> QED
      BY <1>1, <1>5, <2>1, <2>2, <3>1, <3>2 DEF Counted
  <2>3. CASE ApplyOffers(w) # {}
    <3>1. Outcome(w).streak = 0
      BY <1>5, <2>1, <2>3, OutcomeMiss
    <3> QED
      BY <1>1, <1>5, <2>1, <2>3, <3>1
  <2> QED
    BY <2>2, <2>3
<1> QED
  BY <1>2, <1>3, <1>4, <1>5

LEMMA NextCounted == TypeOK /\ Counted /\ [Next]_vars => Counted'
<1> SUFFICES ASSUME TypeOK, Counted, [Next]_vars PROVE Counted'
  OBVIOUS
<1>1. CASE UNCHANGED <<states, seen>>
  BY <1>1 DEF Counted
<1>2. CASE Round
  BY <1>2, RoundCounted
<1>3. CASE Forget
  BY <1>3 DEF Forget, Counted
<1>4. CASE Applied
  <2>1. UNCHANGED ruleVars
    BY <1>4 DEF Applied
  <2> QED
    BY <1>1, <2>1 DEF ruleVars
<1>5. CASE SwitchAggressive
  BY <1>1, <1>5 DEF SwitchAggressive, ruleVars
<1>6. ASSUME NEW w \in Window,
             Appears(w) \/ Vanishes(w) \/ Retitles(w) \/ Moves(w) \/ Shows(w)
      PROVE  Counted'
  <2>1. Change
    BY <1>6, WindowTypes
  <2> QED
    BY <1>1, <2>1 DEF Change, ruleVars
<1>7. CASE UNCHANGED vars
  BY <1>1, <1>7 DEF vars, ruleVars
<1> QED
  BY <1>2, <1>3, <1>4, <1>5, <1>6, <1>7 DEF Next

\* Only a round ends with "round".
LEMMA RoundsAre ==
    ASSUME TypeOK, [Next]_vars, Rounds
    PROVE  Round \/ UNCHANGED vars
<1>1. ASSUME NEW w \in Window,
             Appears(w) \/ Vanishes(w) \/ Retitles(w) \/ Moves(w) \/ Shows(w)
      PROVE  FALSE
  BY <1>1, WindowTypes DEF Change, Rounds
<1>2. ~Applied
  BY DEF Applied, Rounds
<1>3. ~Forget /\ ~SwitchAggressive
  BY DEF Forget, SwitchAggressive, Rounds
<1> QED
  BY <1>1, <1>2, <1>3 DEF Next

\* Outside the pop-ups a round says of a window what its evidence says.
LEMMA SaidIs ==
    ASSUME TypeOK, NEW w \in live, NEW o \in ApplyOffers(w), Matched(o.decision)
    PROVE  /\ Evidence(w, "strong") <=> o.decision.strength = "strong"
           /\ Evidence(w, "weak") <=> o.decision.strength = "weak"
           /\ o.decision.strength \in {"strong", "weak"}
           /\ w \notin Dismissed => o.decision.action \in {"hide", "close"}
<1>1. live \subseteq Window /\ ApplyOffers(w) = Offers(w, "known")
  BY BranchesOf DEF TypeOK, TreeTypeOK
<1>2. \A p \in ApplyOffers(w) : Matched(p.decision) => p = o
  BY <1>1, OneMatch
<1>3. o.decision \in {Hide("strong"), Hide("weak"), Close, DismissPopup}
  BY <1>1, OffersMatch
<1>4. w \notin Dismissed => o.decision # DismissPopup
  BY <1>1, MatchIs, DismissedIs, DecisionFields
<1> QED
  BY <1>2, <1>3, <1>4, DecisionFields DEF Evidence

LEMMA StepConfirmed ==
    ASSUME TypeOK, Counted, Round, NEW w \in live, w \notin plan'.zero
    PROVE  w \in plan'.hide \cup plan'.close
               <=> Evidence(w, "strong") \/ (seen'[w] >= Confirm /\ Evidence(w, "weak"))
<1>1. w \notin Dismissed
  BY RoundIs
<1>2. w \in plan'.hide \cup plan'.close <=> Outcome(w).said \cap {"hide", "close"} # {}
  BY <1>1, RoundIs
<1>3. w \in Window
  BY DEF TypeOK, TreeTypeOK
<1>4. CASE \E o \in ApplyOffers(w) : Matched(o.decision)
  <2>1. PICK o \in ApplyOffers(w) : Matched(o.decision)
    BY <1>4
  <2>2. Outcome(w).streak \in 1 .. Confirm
    BY <2>1, OutcomeMatch
  <2>3. w \in DOMAIN states'
    BY <2>2, RoundIs, ConfirmType DEF Unseen
  <2>4. seen'[w] = Least(Confirm, seen[w] + 1)
    BY <1>3, <2>1, <2>3, RoundIs
  <2>5. seen'[w] = Longer(Entry(w).streak)
    BY <1>3, <2>4, CountedMatch
  <2>6. Outcome(w).said = IF Confirms(o.decision, seen'[w]) THEN {o.decision.action} ELSE {}
    BY <2>1, <2>5, OutcomeMatch
  <2>7. o.decision.action \in {"hide", "close"}
    BY <1>1, <2>1, SaidIs
  <2>8. w \in plan'.hide \cup plan'.close <=> Confirms(o.decision, seen'[w])
    BY <1>2, <2>6, <2>7
  <2> QED
    BY <2>1, <2>8, SaidIs DEF Confirms
<1>5. CASE \A o \in ApplyOffers(w) : ~Matched(o.decision)
  <2>1. Outcome(w).said = {}
    BY <1>5, OutcomeMiss
  <2> QED
    BY <1>2, <1>5, <2>1 DEF Evidence
<1> QED
  BY <1>4, <1>5

\* A window outside the pop-ups is hidden or closed exactly when its evidence is strong, or
\* weak and confirmed by as many examinations in a row as the rules ask for.
THEOREM StreaksAreExact == Spec => ConfirmedExactly
<1> DEFINE P == Rounds => \A w \in live :
                   w \notin plan'.zero =>
                      (w \in plan'.hide \cup plan'.close
                       <=> Evidence(w, "strong") \/ (seen'[w] >= Confirm /\ Evidence(w, "weak")))
<1>1. TypeOK /\ Counted /\ [Next]_vars => [P]_vars
  <2> SUFFICES ASSUME TypeOK, Counted, [Next]_vars, ~UNCHANGED vars PROVE P
    OBVIOUS
  <2> QED
    BY RoundsAre, StepConfirmed
<1> HIDE DEF P
<1>2. Spec => []TypeOK
  BY EvaluateTypes
<1>3. Spec => []Counted
  BY <1>2, InitCounted, NextCounted, PTL DEF Spec
<1>4. Spec => [][P]_vars
  BY <1>1, <1>2, <1>3, PTL DEF Spec
<1> QED
  BY <1>4 DEF ConfirmedExactly, P

----------------------------------------------------------------------------
(* The preview.                                                            *)

\* What the second pass says of a window: what the first says, and of a host that it is
\* dismissed.
LEMMA PreviewIs ==
    ASSUME TypeOK, NEW w \in live
    PROVE  PreviewOutcome(w, Entry(w)).said =
               Outcome(w).said \cup IF HostOffers(w) # {} THEN {"dismiss_popup"} ELSE {}
<1> DEFINE e == Branches(Entry(w), w, "signal")
<1>1. live \subseteq Window /\ Fresh(Entry(w)) /\ "signal" # "always"
  BY EntryFresh DEF TypeOK, TreeTypeOK
<1>2. e.said = Outcome(w).said
  BY <1>1, PassesAgree, BranchesOf
<1>3. PreviewOutcome(w, Entry(w)) = StoreOf(e, HostOffers(w))
  BY BranchesOf
<1>4. e \in Entries /\ e.streak \in 0 .. Confirm \cup {Unseen}
  <2>1. CASE \E o \in Offers(w, "signal") : Matched(o.decision)
    <3>1. e \in Entries /\ e.streak \in 1 .. Confirm
      BY <1>1, <2>1, BranchesMatch
    <3> HIDE DEF e
    <3> QED
      BY <3>1, ConfirmType
  <2>2. CASE \A o \in Offers(w, "signal") : ~Matched(o.decision)
    <3>1. e \in Entries /\ e.streak \in {Entry(w).streak, 0}
      BY <1>1, <2>2, BranchesMiss
    <3> HIDE DEF e
    <3> QED
      BY <1>1, <3>1, ConfirmType DEF Fresh
  <2> QED
    BY <2>1, <2>2
<1> HIDE DEF e
<1>5. HostOffers(w) = {} \/ HostOffers(w) = {Offer(DismissPopup, "always")}
  BY DEF HostOffers
<1>6. CASE HostOffers(w) = {}
  BY <1>2, <1>3, <1>6, StoreOfNone
<1>7. CASE HostOffers(w) = {Offer(DismissPopup, "always")}
  BY <1>2, <1>3, <1>4, <1>7, StoreOfOne, StoreHost
<1> QED
  BY <1>5, <1>6, <1>7

\* A pop-up is dismissed on strong evidence, so its first round says so.
LEMMA SaysDismiss ==
    ASSUME TypeOK, NEW w \in live
    PROVE  "dismiss_popup" \in Outcome(w).said <=> \E h \in HostsOf(w) : HostAllowed(h)
<1>1. live \subseteq Window /\ ApplyOffers(w) = Offers(w, "known")
  BY BranchesOf DEF TypeOK, TreeTypeOK
<1>2. ASSUME "dismiss_popup" \in Outcome(w).said PROVE \E h \in HostsOf(w) : HostAllowed(h)
  <2>1. PICK o \in ApplyOffers(w) : Matched(o.decision)
    BY <1>2, OutcomeMiss
  <2>2. o.decision.action = "dismiss_popup"
    BY <1>2, <2>1, OutcomeMatch
  <2> QED
    BY <1>1, <2>1, <2>2, MatchIs, DecisionFields
<1>3. ASSUME NEW h \in HostsOf(w), HostAllowed(h) PROVE "dismiss_popup" \in Outcome(w).said
  <2> DEFINE o == Offer(PopupDecision(h), "always")
  <2>1. PopupOffers(w) = {Offer(PopupDecision(i), "always") : i \in HostsOf(w)}
    BY OffersOf
  <2>2. o \in ApplyOffers(w)
    BY <2>1 DEF ApplyOffers
  <2>3. o.decision = DismissPopup
    <3>1. o.decision = PopupDecision(h)
      BY OfferFields
    <3> QED
      BY <1>3, <3>1, PopupIs
  <2> HIDE DEF o
  <2>4. Confirms(o.decision, Longer(Entry(w).streak))
    BY <2>3, DecisionFields DEF Confirms
  <2>5. Matched(o.decision)
    BY <2>3, MatchedIs
  <2>6. Outcome(w).said = {o.decision.action}
    BY <2>2, <2>4, <2>5, OutcomeMatch
  <2> QED
    BY <2>3, <2>6, DecisionFields
<1> QED
  BY <1>2, <1>3

LEMMA RoundAgrees == TypeOK /\ Round => PreviewAgrees'
<1> SUFFICES ASSUME TypeOK, Round, NEW w \in Window
             PROVE  /\ w \in plan'.hide <=> {<<w, "hide">>, <<w, "dismiss_popup">>} \cap preview' # {}
                    /\ w \in plan'.zero <=> <<w, "dismiss_popup">> \in preview'
                    /\ <<w, "close">> \in preview' => w \in plan'.close
                    /\ w \in plan'.close => {<<w, "close">>, <<w, "dismiss_popup">>} \cap preview' # {}
  BY DEF PreviewAgrees
<1>1. preview' = UNION {{v} \X PreviewOutcome(v, Entry(v)).said : v \in live}
  BY RoundIs DEF Previewed
<1>2. \A a : <<w, a>> \in preview' <=> w \in live /\ a \in PreviewOutcome(w, Entry(w)).said
  BY <1>1
<1>3. live \subseteq Window
  BY DEF TypeOK, TreeTypeOK
<1>4. CASE w \notin live
  <2>1. w \notin plan'.hide /\ w \notin plan'.zero /\ w \notin plan'.close
    BY <1>3, <1>4, RoundIs, DismissedIs
  <2> QED
    BY <1>2, <1>4, <2>1
<1>5. CASE w \in live
  <2> DEFINE said == PreviewOutcome(w, Entry(w)).said
  <2>1. said = Outcome(w).said \cup IF HostOffers(w) # {} THEN {"dismiss_popup"} ELSE {}
    BY <1>5, PreviewIs
  <2>2. "dismiss_popup" \in said <=> w \in Dismissed
    BY <1>3, <1>5, <2>1, SaysDismiss, DismissedIs
  <2>3. ("hide" \in said <=> "hide" \in Outcome(w).said) /\ ("close" \in said <=> "close" \in Outcome(w).said)
    BY <2>1
  <2>4. /\ w \in plan'.hide <=> "hide" \in Outcome(w).said \/ w \in Dismissed
        /\ w \in plan'.zero <=> w \in Dismissed
        /\ w \in plan'.close => "close" \in Outcome(w).said \/ w \in Dismissed
        /\ "close" \in Outcome(w).said => w \in plan'.close
    BY <1>5, RoundIs
  <2> HIDE DEF said
  <2>5. \A a : <<w, a>> \in preview' <=> a \in said
    BY <1>2, <1>5 DEF said
  <2> QED
    BY <2>2, <2>3, <2>4, <2>5
<1> QED
  BY <1>4, <1>5

LEMMA NextAgrees == TypeOK /\ PreviewAgrees /\ [Next]_vars => PreviewAgrees'
<1> SUFFICES ASSUME TypeOK, PreviewAgrees, [Next]_vars PROVE PreviewAgrees'
  OBVIOUS
<1>1. CASE UNCHANGED <<plan, preview>>
  BY <1>1 DEF PreviewAgrees
<1>2. CASE Round
  BY <1>2, RoundAgrees
<1>3. CASE Applied
  <2>1. UNCHANGED ruleVars
    BY <1>3 DEF Applied
  <2> QED
    BY <1>1, <2>1 DEF ruleVars
<1>4. CASE Forget \/ SwitchAggressive
  BY <1>1, <1>4 DEF Forget, SwitchAggressive, ruleVars
<1>5. ASSUME NEW w \in Window,
             Appears(w) \/ Vanishes(w) \/ Retitles(w) \/ Moves(w) \/ Shows(w)
      PROVE  PreviewAgrees'
  <2>1. Change
    BY <1>5, WindowTypes
  <2> QED
    BY <1>1, <2>1 DEF Change, ruleVars
<1>6. CASE UNCHANGED vars
  BY <1>1, <1>6 DEF vars, ruleVars
<1> QED
  BY <1>2, <1>3, <1>4, <1>5, <1>6 DEF Next

\* The diagnostic preview, a second pass over a copy of the states that stores more than the
\* first, reports as confirmed what the round applies and nothing else.
THEOREM PreviewIsTrue == Spec => []PreviewAgrees
<1>1. Init => PreviewAgrees
  BY DEF Init, NoPlan, PreviewAgrees
<1>2. Spec => []TypeOK
  BY EvaluateTypes
<1> QED
  BY <1>1, <1>2, NextAgrees, PTL DEF Spec

----------------------------------------------------------------------------
(* Main windows.                                                           *)

LEMMA MainSpared ==
    ASSUME TypeOK, Round, NEW m \in live, ConfirmedMain(m), LegacyKind(m) = "none",
           NEW w, w = m \/ (w \in ChildrenOf(m) /\ IsView(w))
    PROVE  w \notin plan'.hide \cup plan'.close \cup plan'.zero
<1>1. live \subseteq Window /\ w \in live /\ m \in Window /\ m # Nobody
  BY TreeAssumption DEF TypeOK, TreeTypeOK, ChildrenOf
<1>2. Class[m] = "main" /\ Win32Parent(m) = Nobody /\ Parent[m] = Nobody
  BY <1>1, TopLevel DEF ConfirmedMain, MainCandidate
<1>3. w # m => Class[w] = "eva" /\ text[w] = "view" /\ Parent[w] = m
  BY DEF ChildrenOf, IsView
<1>4. Class[w] # "adfit" /\ Class[w] # "chrome"
  BY <1>2, <1>3
<1>5. HostsOf(w) = {}
  BY <1>4 DEF HostsOf, PopupMatches
<1>6. ~Host(w)
  <2>1. CASE w = m
    BY <2>1 DEF Host
  <2>2. CASE w # m
    <3>1. Win32Parent(w) # Nobody
      BY <1>1, <1>3, <2>2 DEF Win32Parent
    <3> QED
      BY <3>1 DEF Host
  <2> QED
    BY <2>1, <2>2
<1>7. w \notin Dismissed
  <2>1. HostOffers(w) = {}
    BY <1>6 DEF HostOffers
  <2> QED
    BY <1>1, <1>5, <2>1, DismissedIs
<1>8. ~MayClose(w)
  <2>1. CASE w = m
    BY <1>2, <2>1 DEF MayClose
  <2>2. CASE w # m
    BY <1>3, <2>2 DEF MayClose, EmptyText
  <2> QED
    BY <2>1, <2>2
<1>9. ~Candidate(w)
  <2>1. CASE w = m
    <3>1. Owner[m] = Nobody
      BY <1>1, <1>2, TopLevel
    <3> QED
      BY <2>1, <3>1 DEF Candidate
  <2>2. CASE w # m
    BY <1>3, <2>2 DEF Candidate
  <2> QED
    BY <2>1, <2>2
<1>10. \A o \in ApplyOffers(w) : ~Matched(o.decision)
  <2>1. CloseOffers(w) = {} /\ LegacyOffers(w, "known") = {} /\ PopupOffers(w) = {}
    BY <1>5, <1>8, <1>9, OffersOf
  <2>2. \A o \in AggressiveOffers(w, "known") : o.decision = AggressiveDecision(w)
    BY OffersOf, OfferFields
  <2> QED
    BY <1>4, <2>1, <2>2, AggressiveIs DEF ApplyOffers
<1>11. Outcome(w).said = {}
  BY <1>1, <1>10, OutcomeMiss
<1> QED
  BY <1>1, <1>7, <1>11, RoundIs

\* A confirmed main window and its view are never hidden, closed or made empty, unless the
\* legacy text stands in the tree of the main window itself.
THEOREM MainIsSpared == Spec => MainUntouched
<1> DEFINE P == Rounds => \A m \in live :
                  LET own == {m} \cup {c \in ChildrenOf(m) : IsView(c)}
                  IN ConfirmedMain(m) /\ LegacyKind(m) = "none"
                        => own \cap (plan'.hide \cup plan'.close \cup plan'.zero) = {}
<1>1. TypeOK /\ [Next]_vars => [P]_vars
  <2> SUFFICES ASSUME TypeOK, [Next]_vars, ~UNCHANGED vars, Rounds,
                      NEW m \in live, ConfirmedMain(m), LegacyKind(m) = "none",
                      NEW w \in {m} \cup {c \in ChildrenOf(m) : IsView(c)}
               PROVE  w \notin plan'.hide \cup plan'.close \cup plan'.zero
    OBVIOUS
  <2>1. Round
    BY RoundsAre
  <2> QED
    BY <2>1, MainSpared
<1> HIDE DEF P
<1>2. Spec => []TypeOK
  BY EvaluateTypes
<1>3. Spec => [][P]_vars
  BY <1>1, <1>2, PTL DEF Spec
<1> QED
  BY <1>3 DEF MainUntouched, P

----------------------------------------------------------------------------
(* Hiding does not undo itself.  Held is what a round leaves of the        *)
(* windows it hides, and what applying the plan keeps: every one of them   *)
(* is dismissed with its host, or shows strong evidence, or weak evidence  *)
(* with a full streak.                                                     *)

\* The views are the only windows that get a new size, and none of them is a web view,
\* whose place is evidence.
OnlyViewsResized == \A w \in plan.resize : Class[w] # "chrome"
TextsKnown == \A w \in live : text[w] \in CanSay[w]

Lasting(w) ==
    \E o \in AggressiveOffers(w, "known") \cup LegacyOffers(w, "known") :
        /\ o.decision.action = "hide" /\ Matched(o.decision)
        /\ \/ o.decision.strength = "strong"
           \/ w \in DOMAIN states /\ states[w] = Confirm

Held == since # "change" => \A w \in plan.hide \cap live : w \in Dismissed \/ Lasting(w)

\* What the rules say of a tree depends on its windows and their texts, and on places only
\* by the web views and by what is not known.
LEMMA SameTexts ==
    ASSUME live' = live, text' = text
    PROVE  /\ \A w : /\ Within(w, LookDepth)' = Within(w, LookDepth)
                     /\ LegacyKind(w)' = LegacyKind(w) /\ (HasToken(w)' <=> HasToken(w))
                     /\ (ConfirmedMain(w)' <=> ConfirmedMain(w))
                     /\ (Candidate(w)' <=> Candidate(w))
                     /\ LegacyOffers(w, "known")' = LegacyOffers(w, "known")
           /\ Dismissed' = Dismissed
<1>1. \A w : Within(w, LookDepth)' = Within(w, LookDepth) /\ Within(w, PopupDepth)' = Within(w, PopupDepth)
  BY DEF Within
<1>2. \A w : LegacyKind(w)' = LegacyKind(w)
  BY <1>1 DEF LegacyKind
<1>3. \A w : HasToken(w)' <=> HasToken(w)
  BY <1>1 DEF HasToken
<1>4. \A w : ConfirmedMain(w)' <=> ConfirmedMain(w)
  BY DEF ConfirmedMain, MainCandidate, ChildrenOf, IsView
<1>5. \A w : Candidate(w)' <=> Candidate(w)
  BY <1>2, <1>4 DEF Candidate, EmptyText
<1>6. \A w : LegacyDecision(w)' = LegacyDecision(w)
  BY <1>2 DEF LegacyDecision
<1>7. \A w : LegacyOffers(w, "known")' = LegacyOffers(w, "known")
  BY <1>5, <1>6 DEF LegacyOffers
<1>8. \A w : PopupMatches(w)' = PopupMatches(w) /\ (HostAllowed(w)' <=> HostAllowed(w))
  BY <1>1 DEF PopupMatches, HostAllowed
<1>9. \A w : Host(w)' <=> Host(w)
  BY <1>4 DEF Host
<1>10. Dismissed' = Dismissed
  <2> DEFINE open == {h \in live : Host(h) /\ HostAllowed(h) /\ PopupMatches(h) # {}}
  <2>1. open' = open
    BY <1>8, <1>9
  <2>2. Dismissed = open \cup UNION {PopupMatches(h) : h \in open}
    BY DEF Dismissed
  <2>3. Dismissed' = open' \cup UNION {PopupMatches(h)' : h \in open'}
    BY DEF Dismissed
  <2> HIDE DEF open
  <2>4. UNION {PopupMatches(h)' : h \in open'} = UNION {PopupMatches(h) : h \in open}
    BY <1>8, <2>1
  <2> QED
    BY <2>1, <2>2, <2>3, <2>4
<1> QED
  BY <1>1, <1>2, <1>3, <1>4, <1>5, <1>7, <1>10

\* A round leaves evidence of what it hides.
LEMMA RoundHolds ==
    ASSUME TypeOK, Round
    PROVE  Held' /\ (TextsKnown => OnlyViewsResized')
<1>1. live \subseteq Window
  BY DEF TypeOK, TreeTypeOK
<1>2. /\ live' = live /\ text' = text /\ place' = place /\ aggressive' = aggressive
  BY DEF Round, treeVars
<1>3. \A w : AggressiveOffers(w, "known")' = AggressiveOffers(w, "known")
  BY <1>2 DEF AggressiveOffers, AggressiveDecision, Examined, ConfirmedMain, MainCandidate,
             ChildrenOf, IsView, HasToken, Within
<1>4. ASSUME NEW w \in live, w \in plan'.hide, w \notin Dismissed PROVE Lasting(w)'
  <2>1. "hide" \in Outcome(w).said
    BY <1>4, RoundIs
  <2>2. PICK o \in ApplyOffers(w) : Matched(o.decision)
    BY <1>4, <2>1, OutcomeMiss
  <2>3. Outcome(w).said = IF Confirms(o.decision, Longer(Entry(w).streak)) THEN {o.decision.action} ELSE {}
    BY <1>4, <2>2, OutcomeMatch
  <2>4. o.decision.action = "hide" /\ Confirms(o.decision, Longer(Entry(w).streak))
    BY <2>1, <2>3
  <2>5. o \in AggressiveOffers(w, "known") \cup LegacyOffers(w, "known")
    <3>1. o \in Offers(w, "known")
      BY <2>2, BranchesOf
    <3>2. o \in CloseOffers(w) \cup AggressiveOffers(w, "known") \cup LegacyOffers(w, "known")
      BY <1>1, <1>4, <2>2, <2>4, <3>1, MatchIs, DecisionFields
    <3>3. o \notin CloseOffers(w)
      <4> SUFFICES ASSUME o \in CloseOffers(w) PROVE FALSE
        OBVIOUS
      <4>1. o = Offer(CloseDecision(w, aggressive), "signal")
        BY DEF CloseOffers
      <4>2. o.decision = CloseDecision(w, aggressive)
        BY <4>1, OfferFields
      <4> QED
        BY <2>4, <4>2, CloseIs, DecisionFields
    <3> QED
      BY <3>2, <3>3
  <2>6. Outcome(w).streak = Longer(Entry(w).streak) /\ Outcome(w).streak \in 1 .. Confirm
    BY <1>4, <2>2, OutcomeMatch
  <2>7. w \in DOMAIN states' /\ states'[w] = Outcome(w).streak
    BY <1>4, <2>6, RoundIs, ConfirmType DEF Unseen
  <2>8. o.decision.strength = "strong" \/ states'[w] = Confirm
    BY <2>4, <2>6, <2>7, ConfirmType DEF Confirms
  <2>9. o \in AggressiveOffers(w, "known")' \cup LegacyOffers(w, "known")'
    BY <1>2, <1>3, <2>5, SameTexts
  <2> QED
    BY <2>2, <2>4, <2>7, <2>8, <2>9 DEF Lasting, Matched
<1>5. Held'
  BY <1>2, <1>4, SameTexts DEF Held
<1>6. ASSUME TextsKnown, NEW w \in plan'.resize PROVE Class[w] # "chrome"
  <2>1. w \in live /\ text[w] = "view"
    BY RoundIs DEF NeedsResize
  <2> QED
    BY <1>1, <1>6, <2>1, ViewsAssumption DEF TextsKnown
<1> QED
  BY <1>5, <1>6 DEF OnlyViewsResized

\* Applying a plan takes no evidence away.
LEMMA AppliedHolds ==
    ASSUME TypeOK, Held, OnlyViewsResized, Applied
    PROVE  Held'
<1>1. PICK closed, stubborn :
              /\ live' = live \ closed
              /\ visible' = (visible \ closed) \ (plan.hide \ stubborn)
              /\ text' = [w \in Window |-> IF w \in closed THEN "" ELSE text[w]]
              /\ place' = [w \in Window |-> IF w \in closed THEN "unknown"
                                          ELSE IF w \in plan.resize THEN "fitted" ELSE place[w]]
              /\ since' = IF closed = {} THEN "applied" ELSE "change"
              /\ since # "change"
              /\ UNCHANGED <<aggressive, ruleVars, changes>>
  BY AppliedIs
<1>2. CASE closed # {}
  BY <1>1, <1>2 DEF Held
<1>3. CASE closed = {}
  <2>1. live' = live /\ text' = text /\ live \subseteq Window
    BY <1>1, <1>3 DEF TypeOK, TreeTypeOK
  <2>2. \A w \in Window : place'[w] = IF w \in plan.resize THEN "fitted" ELSE place[w]
    BY <1>1, <1>3
  <2>3. plan' = plan /\ states' = states /\ aggressive' = aggressive
    BY <1>1 DEF ruleVars
  <2>4. ASSUME NEW w \in live, Lasting(w) PROVE Lasting(w)'
    <3>1. PICK o \in AggressiveOffers(w, "known") \cup LegacyOffers(w, "known") :
             /\ o.decision.action = "hide" /\ Matched(o.decision)
             /\ \/ o.decision.strength = "strong"
                \/ w \in DOMAIN states /\ states[w] = Confirm
      BY <2>4 DEF Lasting
    <3>2. o \in AggressiveOffers(w, "known")' \cup LegacyOffers(w, "known")'
      <4>1. CASE o \in LegacyOffers(w, "known")
        BY <2>1, <4>1, SameTexts
      <4>2. CASE o \in AggressiveOffers(w, "known")
        <5>1. /\ Examined(w) /\ aggressive /\ place[w] # "unknown"
              /\ o = Offer(AggressiveDecision(w), "known")
          BY <4>2 DEF AggressiveOffers
        <5>2. Class[w] = "chrome" /\ w \in Window
          BY <2>1, <3>1, <5>1, OfferFields, AggressiveIs
        <5>3. place'[w] = place[w]
          BY <2>2, <5>2 DEF OnlyViewsResized
        <5>4. Parent[w] \in Window /\ place'[Parent[w]] # "unknown"
          <6>1. Parent[w] \in Window /\ place[Parent[w]] # "unknown"
            BY <5>1, <5>2, TreeAssumption DEF Examined
          <6> QED
            BY <2>2, <6>1
        <5>5. Examined(w)'
          BY <2>1, <5>1, <5>4, SameTexts DEF Examined
        <5>6. AggressiveDecision(w)' = AggressiveDecision(w)
          <6>1. HasToken(w)' <=> HasToken(w)
            BY <2>1, SameTexts
          <6> QED
            BY <5>3, <6>1 DEF AggressiveDecision
        <5>7. AggressiveOffers(w, "known")' = {Offer(AggressiveDecision(w)', "known")}
          BY <2>3, <5>1, <5>3, <5>5 DEF AggressiveOffers, Offer
        <5> QED
          BY <5>1, <5>6, <5>7
      <4> QED
        BY <4>1, <4>2
    <3> QED
      BY <2>3, <3>1, <3>2 DEF Lasting, Matched
  <2>5. Dismissed' = Dismissed
    BY <2>1, SameTexts
  <2> QED
    BY <1>1, <2>1, <2>3, <2>4, <2>5 DEF Held
<1> QED
  BY <1>2, <1>3

Holding == Held /\ OnlyViewsResized /\ TextsKnown

LEMMA InitHolds == Init => Holding
  BY ChangesAssumption DEF Init, NoPlan, Holding, Held, OnlyViewsResized, TextsKnown

LEMMA TextsStayKnown == TypeOK /\ TextsKnown /\ [Next]_vars => TextsKnown'
<1> SUFFICES ASSUME TypeOK, TextsKnown, [Next]_vars PROVE TextsKnown'
  OBVIOUS
<1>1. live \subseteq Window /\ text \in [Window -> Text]
  BY DEF TypeOK, TreeTypeOK
<1>2. CASE UNCHANGED <<live, text>>
  BY <1>2 DEF TextsKnown
<1>3. CASE Round \/ Forget \/ SwitchAggressive \/ UNCHANGED vars
  BY <1>2, <1>3 DEF Round, Forget, SwitchAggressive, vars, treeVars
<1>4. CASE Applied
  <2>1. PICK closed, stubborn :
              /\ live' = live \ closed
              /\ visible' = (visible \ closed) \ (plan.hide \ stubborn)
              /\ text' = [w \in Window |-> IF w \in closed THEN "" ELSE text[w]]
              /\ place' = [w \in Window |-> IF w \in closed THEN "unknown"
                                          ELSE IF w \in plan.resize THEN "fitted" ELSE place[w]]
              /\ since' = IF closed = {} THEN "applied" ELSE "change"
              /\ since # "change"
              /\ UNCHANGED <<aggressive, ruleVars, changes>>
    BY <1>4, AppliedIs
  <2> QED
    BY <1>1, <2>1 DEF TextsKnown
<1>5. ASSUME NEW w \in Window,
             Appears(w) \/ Vanishes(w) \/ Retitles(w) \/ Moves(w) \/ Shows(w)
      PROVE  TextsKnown'
  <2>1. CASE Appears(w)
    <3>1. PICK t \in CanSay[w] : text' = [text EXCEPT ![w] = t]
      BY <2>1 DEF Appears
    <3> QED
      BY <1>1, <2>1, <3>1 DEF Appears, TextsKnown
  <2>2. CASE Vanishes(w)
    BY <1>1, <2>2 DEF Vanishes, TextsKnown
  <2>3. CASE Retitles(w)
    <3>1. PICK t \in CanSay[w] : text' = [text EXCEPT ![w] = t]
      BY <2>3 DEF Retitles
    <3> QED
      BY <1>1, <2>3, <3>1 DEF Retitles, TextsKnown
  <2>4. CASE Moves(w) \/ Shows(w)
    BY <1>2, <2>4 DEF Moves, Shows
  <2> QED
    BY <1>5, <2>1, <2>2, <2>3, <2>4
<1> QED
  BY <1>3, <1>4, <1>5 DEF Next

LEMMA NextHolds == TypeOK /\ Holding /\ [Next]_vars => Holding'
<1> SUFFICES ASSUME TypeOK, Held, OnlyViewsResized, TextsKnown, [Next]_vars
             PROVE  Held' /\ OnlyViewsResized'
  BY TextsStayKnown DEF Holding
<1>1. CASE UNCHANGED plan /\ since' = "change"
  BY <1>1 DEF Held, OnlyViewsResized
<1>2. CASE Round
  BY <1>2, RoundHolds
<1>3. CASE Applied
  <2>1. plan' = plan
    BY <1>3 DEF Applied, ruleVars
  <2> QED
    BY <1>3, <2>1, AppliedHolds DEF OnlyViewsResized
<1>4. CASE Forget \/ SwitchAggressive
  BY <1>1, <1>4 DEF Forget, SwitchAggressive, ruleVars
<1>5. ASSUME NEW w \in Window,
             Appears(w) \/ Vanishes(w) \/ Retitles(w) \/ Moves(w) \/ Shows(w)
      PROVE  Held' /\ OnlyViewsResized'
  <2>1. Change
    BY <1>5, WindowTypes
  <2> QED
    BY <1>1, <2>1 DEF Change, ruleVars
<1>6. CASE UNCHANGED vars
  <2>1. /\ live' = live /\ text' = text /\ place' = place /\ aggressive' = aggressive
        /\ plan' = plan /\ states' = states /\ since' = since
    BY <1>6 DEF vars, treeVars, ruleVars
  <2>2. \A w : AggressiveOffers(w, "known")' = AggressiveOffers(w, "known")
    BY <2>1 DEF AggressiveOffers, AggressiveDecision, Examined, ConfirmedMain, MainCandidate,
               ChildrenOf, IsView, HasToken, Within
  <2>3. \A w : LegacyOffers(w, "known")' = LegacyOffers(w, "known")
    BY <2>1, SameTexts
  <2>4. Dismissed' = Dismissed
    BY <2>1, SameTexts
  <2>5. \A w : Lasting(w) => Lasting(w)'
    BY <2>1, <2>2, <2>3 DEF Lasting, Matched
  <2> QED
    BY <2>1, <2>4, <2>5 DEF Held, OnlyViewsResized
<1> QED
  BY <1>2, <1>3, <1>4, <1>5, <1>6 DEF Next

\* A round that finds lasting evidence hides again.
LEMMA HidesAgain ==
    ASSUME TypeOK, Held, Round, since # "change", NEW w \in plan.hide \cap live
    PROVE  w \in plan'.hide
<1>1. CASE w \in Dismissed
  BY <1>1, RoundIs
<1>2. CASE Lasting(w)
  <2>1. PICK o \in AggressiveOffers(w, "known") \cup LegacyOffers(w, "known") :
           /\ o.decision.action = "hide" /\ Matched(o.decision)
           /\ \/ o.decision.strength = "strong"
              \/ w \in DOMAIN states /\ states[w] = Confirm
    BY <1>2 DEF Lasting
  <2>2. o \in ApplyOffers(w)
    BY <2>1 DEF ApplyOffers
  <2>3. Confirms(o.decision, Longer(Entry(w).streak))
    <3>1. CASE o.decision.strength = "strong"
      BY <3>1 DEF Confirms
    <3>2. CASE w \in DOMAIN states /\ states[w] = Confirm
      <4>1. Entry(w).streak = Confirm
        BY <3>2, EntryIs
      <4>2. Longer(Confirm) >= Confirm
        BY ConfirmType DEF Longer, Least, Unseen
      <4> QED
        BY <4>1, <4>2 DEF Confirms
    <3> QED
      BY <2>1, <3>1, <3>2
  <2>4. Outcome(w).said = {"hide"}
    BY <2>1, <2>2, <2>3, OutcomeMatch
  <2> QED
    BY <2>4, RoundIs
<1> QED
  BY <1>1, <1>2 DEF Held

\* As long as KakaoTalk changes nothing, a window that a round hides is hidden by the next
\* one too: nothing that the plan does to a window takes the evidence away.
THEOREM HidingIsStable == Spec => HiddenStaysMatched
<1> DEFINE P == Rounds /\ since # "change" => plan.hide \cap live \subseteq plan'.hide
<1>1. TypeOK /\ Holding /\ [Next]_vars => [P]_vars
  <2> SUFFICES ASSUME TypeOK, Held, [Next]_vars, ~UNCHANGED vars, Rounds, since # "change",
                      NEW w \in plan.hide \cap live
               PROVE  w \in plan'.hide
    BY DEF Holding
  <2>1. Round
    BY RoundsAre
  <2> QED
    BY <2>1, HidesAgain
<1> HIDE DEF P
<1>2. Spec => []TypeOK
  BY EvaluateTypes
<1>3. Spec => []Holding
  BY <1>2, InitHolds, NextHolds, PTL DEF Spec
<1>4. Spec => [][P]_vars
  BY <1>1, <1>2, <1>3, PTL DEF Spec
<1> QED
  BY <1>4 DEF HiddenStaysMatched, P

=============================================================================
