--------------------------- MODULE MCProjectFiles ---------------------------
(***************************************************************************)
(* Instances of ProjectFiles for TLC: arcs below, at and above the limit,  *)
(* a comment that looks like an arc, a G word that is no motion, a number  *)
(* that cannot be read.                                                    *)
(***************************************************************************)
EXTENDS ProjectFiles

Words(g, r) == [blank |-> FALSE, comment |-> FALSE, bad |-> FALSE, g |-> g, radius |-> r]

Blank   == [Words(<<>>, 0) EXCEPT !.blank = TRUE]
Remark  == [Words(<<"2">>, 1) EXCEPT !.comment = TRUE]
Unread  == [Words(<<"3">>, 0) EXCEPT !.bad = TRUE]

Texts == {Blank, Remark, Unread, Words(<<"90", "0">>, 0),
          Words(<<"2">>, 1), Words(<<"17", "3">>, 2)}
=============================================================================
