--------------------------- MODULE MCLinkedDatabase ---------------------------
(* A pool in which the tree gets three levels: single addresses are given out, *)
(* and two sets are claimed or heard that lie across several blocks.           *)
EXTENDS LinkedDatabase

MCSets == {<<2, 2>>, <<1, 4>>}
=============================================================================
