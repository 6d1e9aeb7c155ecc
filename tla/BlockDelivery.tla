---------------------------- MODULE BlockDelivery ----------------------------
(***************************************************************************)
(* What a block transfer promises the PLC, without the handshake: blocks   *)
(* numbered from 1 are put on offer one at a time, each is taken at most   *)
(* once, and none is offered before its predecessor was taken.  A transfer *)
(* may end at any time; a block on offer is then withdrawn unless the PLC  *)
(* is just picking it up.                                                  *)
(*                                                                         *)
(* A transfer that starts while the PLC is still at a block of an earlier  *)
(* one is late: nothing is promised of what the PLC takes in it, and the   *)
(* next transfer is like any other.                                        *)
(***************************************************************************)
EXTENDS Integers, Sequences

VARIABLES
  running,   \* a transfer is under way
  total,     \* blocks it has announced
  offered,   \* number of the block on offer, 0 when there is none
  taken,     \* numbers of the blocks the PLC took, in order
  late       \* the latest transfer has started too early

vars == <<running, total, offered, taken, late>>

Init == running = FALSE /\ total = 0 /\ offered = 0 /\ taken = <<>> /\ late = FALSE

Start ==
  /\ ~running /\ offered = 0
  /\ running' = TRUE /\ late' = FALSE
  /\ total' \in Nat \ {0}
  /\ taken' = <<>>
  /\ UNCHANGED offered

StartLate ==
  /\ ~running
  /\ running' = TRUE /\ late' = TRUE
  /\ total' \in Nat \ {0}
  /\ taken' = <<>>
  /\ offered' \in Nat

\* What is offered and taken in a late transfer, and after it until the next one.
Muddle ==
  /\ late
  /\ offered' \in Nat /\ taken' \in Seq(Nat)
  /\ UNCHANGED <<running, total, late>>

Offer ==
  /\ running /\ offered = 0 /\ Len(taken) < total
  /\ offered' = Len(taken) + 1
  /\ UNCHANGED <<running, total, taken, late>>

Take ==
  /\ offered # 0
  /\ taken' = Append(taken, offered)
  /\ offered' = 0
  /\ UNCHANGED <<running, total, late>>

Withdraw ==
  /\ offered # 0
  /\ offered' = 0
  /\ UNCHANGED <<running, total, taken, late>>

End ==
  /\ running
  /\ running' = FALSE
  /\ UNCHANGED <<total, offered, taken, late>>

Next == Start \/ StartLate \/ Muddle \/ Offer \/ Take \/ Withdraw \/ End

Spec == Init /\ [][Next]_vars
=============================================================================
