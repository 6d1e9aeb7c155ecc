---------------------------- MODULE MCPlcSession ----------------------------
(* PLC session on a small instance: two projects, one of them too long for an *)
(* int16 of eight values.                                                     *)
EXTENDS PlcSession

MCRecords == [p \in Projects |-> IF p = "p1" THEN 3 ELSE 5]

\* Room for more than the list, for just the list, for less than the list.
MCLayouts == {[dims |-> <<2, 2>>, limit |-> 1], [dims |-> <<2, 2>>, limit |-> 2],
              [dims |-> <<1>>, limit |-> 2]}
=============================================================================
