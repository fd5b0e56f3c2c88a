-------------------------- MODULE MCTraySettings --------------------------
(* Instance of TraySettings for TLC. *)
EXTENDS TraySettings

Values(e, s, o) == [enabled |-> e, startup |-> s, other |-> o]

\* A whole object, and one with absent or ill-typed fields.
MCSaves == {Values("off", "on", "off"), Values("bad", "off", "bad")}
=============================================================================
