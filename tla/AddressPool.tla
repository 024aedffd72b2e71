---------------------------- MODULE AddressPool ----------------------------
(* The pool of one database, server's or client's (m_total_set), and those     *)
(* whose blocks it may hold.                                                   *)
EXTENDS AddressBlocks

CONSTANTS First, Last,  \* m_total_set
          Ids           \* security ids; a client's database has none

ASSUME PoolAssumption == First \in Int /\ Last \in Int /\ First <= Last
ASSUME IdsAssumption  == NoId \notin Ids

(* init: all of the pool is one free block.                                    *)
WholePool == {FreeBlock(First, Last)}
=============================================================================
