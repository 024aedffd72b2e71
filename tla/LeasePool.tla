------------------------------ MODULE LeasePool ------------------------------
(* What an address pool promises: an address has one holder or none, a step    *)
(* concerns one holder, who takes free addresses or gives back its own, and so *)
(* no address ever goes from one holder to another without being free between. *)
EXTENDS Integers

CONSTANTS First, Last, Ids, NoId
VARIABLE holder

Pool == First .. Last

Init == holder = [a \in Pool |-> NoId]

Takes(id, a)     == holder[a] = NoId /\ holder'[a] = id
GivesBack(id, a) == holder[a] = id /\ holder'[a] = NoId

Move(id) == /\ holder' \in [Pool -> Ids \cup {NoId}]
            /\ \A a \in Pool : holder'[a] = holder[a] \/ Takes(id, a) \/ GivesBack(id, a)

Next == \E id \in Ids : Move(id)
Spec == Init /\ [][Next]_holder
=============================================================================
