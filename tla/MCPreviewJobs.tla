--------------------------- MODULE MCPreviewJobs ---------------------------
(***************************************************************************)
(* Instances of PreviewJobs for TLC: one or two pages, two or three jobs,  *)
(* a program of three commands, so that a run has a first, a last and a next *)
(* step and a newer job can replace a queued and a running one.            *)
(***************************************************************************)
EXTENDS PreviewJobs

CONSTANTS c1, c2

OnePage  == {c1}
TwoPages == {c1, c2}

Vanishing == {"missing"}
Anything  == {"list", "missing", "sps", "shutdown"}
=============================================================================
