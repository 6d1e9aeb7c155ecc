-------------------------- MODULE MCSpsConnection --------------------------
(***************************************************************************)
(* Instances of SpsConnection for TLC: two endpoints, so that a change of  *)
(* the setting can lead to a server that is there and one that is not.     *)
(***************************************************************************)
EXTENDS SpsConnection

CONSTANTS e1, e2

Plcs == {e1, e2}

\* All but a change between applySettings and the reading of bootRev.
Outside == {"preview", "shutdown", "toggle", "hang"}
Window  == {"window"}
=============================================================================
