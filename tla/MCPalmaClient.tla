---------------------------- MODULE MCPalmaClient ---------------------------
(* Clients that claim the addresses 1 to 4.  Servers offer a set with and      *)
(* without an address, and one that is too small; they acknowledge what was    *)
(* asked for, an alternate set, one that is too small, or refuse.              *)
EXTENDS PalmaClient, TLC

MCSelfRange == 1 .. 4
Nobody == {}
Alike == Permutations(Clients)
MCRoaming == [c \in Clients |-> 0]
MCOneRoaming == [c \in Clients |-> IF c = CHOOSE d \in Clients : TRUE THEN 30 ELSE 0]

MCOffers == {[set |-> 11 .. 13, addr |-> 0, life |-> 1], [set |-> 11 .. 12, addr |-> 21, life |-> 2],
             [set |-> 11 .. 11, addr |-> 0, life |-> 1]}
MCAcks == {[ok |-> TRUE, set |-> 11 .. 12], [ok |-> TRUE, set |-> 15 .. 17],
           [ok |-> TRUE, set |-> 15 .. 15], [ok |-> FALSE, set |-> {}]}
=============================================================================
