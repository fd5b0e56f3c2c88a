-------------------------- MODULE MCUpdateHelper ---------------------------
(* Instances of UpdateHelper for TLC. *)
EXTENDS UpdateHelper

\* The second version starts but never gets ready.
MCBroken == {2}

=============================================================================
