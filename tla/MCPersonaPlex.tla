--------------------------- MODULE MCPersonaPlex ---------------------------
(***************************************************************************)
(* Instances of PersonaPlexClient for TLC: turns of one server.            *)
(***************************************************************************)
EXTENDS PersonaPlexClient

CONSTANTS t1, t2

Turns == {t1, t2}
============================================================================
