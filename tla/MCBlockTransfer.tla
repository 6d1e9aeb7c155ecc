-------------------------- MODULE MCBlockTransfer --------------------------
(***************************************************************************)
(* Instances of BlockTransfer for TLC: one or two projects, blocks of two  *)
(* records, up to three blocks, so that a file can be empty, end inside a  *)
(* block or fill its last block.                                           *)
(***************************************************************************)
EXTENDS BlockTransfer

CONSTANTS p1, p2

OneProject  == {p1}
TwoProjects == {p1, p2}

Calm        == {}
Steady      == {"abort", "link", "crash"}   \* names and files stay as they are
Working     == {"abort", "lateAbort", "rename", "edit"}   \* the operator keeps working
=============================================================================
