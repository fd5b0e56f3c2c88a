---------------------------- MODULE MCAdEvaluate ----------------------------
(***************************************************************************)
(* One of each kind: a main window (1) with its view (2), an EVA child (3) *)
(* with a list inside (4), a banner (5) and an advertisement window (10);  *)
(* an owned banner window (6) with the web view inside (7); a pop-up (8)   *)
(* with the advertisement (9).                                             *)
(***************************************************************************)
EXTENDS AdEvaluate

MCClass  == <<"main", "eva", "eva", "scroll", "chrome", "main", "other", "main", "adfit", "adfit">>
MCParent == <<0, 1, 1, 3, 1, 0, 6, 0, 8, 1>>
MCOwner  == <<0, 0, 0, 0, 0, 1, 0, 0, 0, 0>>

MCCanSay == <<{"", "title"}, {"view", "unread"}, {"", "title", "unread"}, {""},
              {"", "exact", "token"}, {"", "title"}, {"", "exact", "like"},
              {"", "unread"}, {"", "like"}, {""}>>
MCCanLie == <<{"other", "unknown"}, {"other", "fitted"}, {"other"}, {"other"},
              {"bottom", "other", "unknown"}, {"other"}, {"other"}, {"other"}, {"other"}, {"other"}>>

MCFirstText  == <<"title", "view", "", "", "token", "", "like", "", "", "">>
MCFirstPlace == <<"other", "other", "other", "other", "bottom", "other", "other", "other", "other", "other">>

=============================================================================
