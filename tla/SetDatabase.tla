----------------------------- MODULE SetDatabase -----------------------------
(* class SetDatabase (src/common/database.cpp): one pool of addresses, its     *)
(* blocks and their timers, under the calls a server makes: reserve, assign    *)
(* and release, for any caller.  ClientDatabase has the client's call.         *)
EXTENDS AddressPool

CONSTANTS Counts,    \* sizes that packets ask for
          Lifetimes  \* lifetimes, in seconds

ASSUME AskAssumption  == Counts \subseteq Nat \ {0} /\ Lifetimes \subseteq Nat \ {0}

VARIABLE blocks

Init == blocks = WholePool

DbReserve(count, id, life) == blocks' \in Reserve(blocks, count, id, life)

DbAssignCount(count, id, life) == blocks' \in AssignCount(blocks, count, id, life)

(* The server assigns inside a block that is free or already the caller's.     *)
DbAssignIn(c, lo, hi, id, life) ==
    /\ c \in Container(blocks, lo, hi) /\ lo <= hi
    /\ IsFree(c) \/ c.id = id
    /\ blocks' = AssignIn(blocks, c, lo, hi, id, life)

DbRelease(b) == b \in Held(blocks) /\ blocks' = Timeout(blocks, b)

(* Timers that are due fire before another second passes.                      *)
Expire  == \E b \in Due(blocks) : blocks' = Timeout(blocks, b)
Tick    == Due(blocks) = {} /\ blocks' = Elapse(blocks)

ServerCall ==
    \/ \E count \in Counts, id \in Ids, life \in Lifetimes :
          DbReserve(count, id, life) \/ DbAssignCount(count, id, life)
    \/ \E c \in blocks, lo, hi \in First .. Last, id \in Ids, life \in Lifetimes :
          DbAssignIn(c, lo, hi, id, life)
    \/ \E b \in blocks : DbRelease(b)

Next == ServerCall \/ Expire \/ Tick

(* The event loop fires timers whatever the callers do.                        *)
Timers == WF_blocks(Tick) /\ WF_blocks(Expire)
Spec   == Init /\ [][Next]_blocks /\ Timers

----------------------------------------------------------------------------
(* The fields of a block fit its use: a free block has no id and no timer.     *)
TypeInvariant ==
    /\ blocks \subseteq BlockOf(Ids)
    /\ \A b \in blocks : IsFree(b) => b.id = NoId /\ b.left = 0

(* No call, in any order, makes an address of the pool unfindable or gives it  *)
(* to two blocks: the blocks tile m_total_set (extract, splitAndInsert,        *)
(* joinAndDelete and timeout each move the borders between blocks).            *)
PoolTiled == Tiles(blocks, First, Last)

BlockWith(a) == CHOOSE b \in blocks : a \in Addrs(b)

(* The detailed database keeps the promise of a LeasePool: findSet hands out   *)
(* free addresses only, and timeout and assign free nobody else's.             *)
Leases == INSTANCE LeasePool WITH holder <- [a \in First .. Last |-> BlockWith(a).id]
LeasesKept == Leases!Spec

(* A reservation never outlives its timer: whatever else is called, a reserved *)
(* address is assigned or back in the pool in the end.                         *)
ReservationEnds ==
    \A a \in First .. Last, id \in Ids :
        (BlockWith(a).use = "reserved" /\ BlockWith(a).id = id)
            ~> (BlockWith(a).use # "reserved" \/ BlockWith(a).id # id)
=============================================================================
