-------------------------- MODULE MCPurchaseCrawl --------------------------
(***************************************************************************)
(* Four purchases, of which the registry lists the last three at first.     *)
(* The fourth may be put before them, which pushes the second on to the next *)
(* page; any of them may be withdrawn, which pulls those behind it forward,   *)
(* and published again; one may be corrected.                                *)
(***************************************************************************)
EXTENDS PurchaseCrawl

Stated(c, p) == [control |-> c, payload |-> p]
Rows == {Stated(c, "as published") : c \in {"p", "q", "r", "s"}} \cup {Stated("r", "corrected")}
Published(c) == Stated(c, "as published")
ThreeRows == {<<Published("q"), Published("r"), Published("s")>>}
InOrder == {<<"p", "q">>, <<"p", "r">>, <<"p", "s">>, <<"q", "r">>, <<"q", "s">>, <<"r", "s">>}
=============================================================================
