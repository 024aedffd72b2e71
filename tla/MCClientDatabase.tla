--------------------------- MODULE MCClientDatabase ---------------------------
(* ClientDatabase on a pool of four addresses, lifetimes of one to three       *)
(* seconds: enough for a timer that is kept, set again, and opened early.      *)
EXTENDS ClientDatabase
MCCounts == {1}
MCLifetimes == {1, 2, 3}
=============================================================================
