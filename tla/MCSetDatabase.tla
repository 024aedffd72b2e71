---------------------------- MODULE MCSetDatabase ----------------------------
(* SetDatabase as a server uses it, on a pool of four addresses.  A size above *)
(* WireMax = 2 takes the aligned path of getFreeSet and findSet.               *)
EXTENDS SetDatabase
MCCounts == {1, 3}
MCLifetimes == {1}
=============================================================================
