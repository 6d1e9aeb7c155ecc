-------------------------- MODULE MCSettingsStore --------------------------
(***************************************************************************)
(* Instances of SettingsStore for TLC: two threads, a live key and two     *)
(* that need a new connection, so that a request can change some of either *)
(* kind and be torn between two rows.                                      *)
(***************************************************************************)
EXTENDS SettingsStore

CONSTANTS t1, t2, colour, address, folder, v1, v2

Threads == {t1, t2}
Settings == {colour, address, folder}
Colours == {colour}
Contents == {v1, v2}
=============================================================================
