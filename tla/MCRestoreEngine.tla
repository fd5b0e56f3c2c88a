-------------------------- MODULE MCRestoreEngine --------------------------
(* Instances of RestoreEngine for TLC.                                     *)
EXTENDS RestoreEngine, TLC

\* An advertisement popup and the banner inside it.
MCParent == (1 :> NoWindow) @@ (2 :> 1)
MCAdKind == (1 :> "popup") @@ (2 :> "banner")

\* One popup whose handle and process come back under other owners.
OneParent == 1 :> NoWindow
OneAdKind == 1 :> "popup"
BannerOnly == 1 :> "banner"

\* A child that is closed and a banner beside it.
PairParent == (1 :> NoWindow) @@ (2 :> NoWindow)
PairAdKind == (1 :> "eva") @@ (2 :> "banner")

\* KakaoTalk is up with everything on screen, or not started yet.
MCInit ==
    /\ Init
    /\ \/ proc = 0
       \/ proc = 1 /\ shown = Window /\ sized = Window /\ ad = Window
MCSpec == MCInit /\ [][Next]_vars
MCFairSpec == MCSpec /\ Fairness

=============================================================================
