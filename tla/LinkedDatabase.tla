---------------------------- MODULE LinkedDatabase ----------------------------
(* class SetDatabase (src/common/database.cpp) with the structures that        *)
(* SetDatabase abstracts: the 2-3 tree that finds a block by an address, and   *)
(* the circular list of the free blocks.  A block is named by its first        *)
(* address; next is m_next_free (Null: the block is in use) and ptr is m_ptr,  *)
(* the block before it on the list or, in use, the database.  Security ids and *)
(* timers are left to SetDatabase: here a block in use is one that is held.    *)
EXTENDS AddressBlocks, SearchTree, TLC

CONSTANTS First, Last,  \* m_total_set
          Counts,       \* sizes that are reserved or assigned
          Sets,         \* sets <<first, last>> that are assigned or excluded
          MaxFree       \* bound: no call starts with more free blocks than this

ASSUME PoolAssumption == First \in Nat /\ Last \in Nat /\ First <= Last
ASSUME AskAssumption  == Counts \subseteq Nat \ {0} /\ MaxFree \in Nat \ {0}
ASSUME SetsAssumption == \A s \in Sets : First <= s[1] /\ s[1] <= s[2] /\ s[2] <= Last

VARIABLE db

Database == -2     \* what m_ptr of a block in use points to

Init == db = [root |-> 0,
              node |-> 0 :> NodeOf(Null, <<Null, Null, Null>>, <<First, Null>>),
              block |-> First :> [last |-> Last, next |-> First, ptr |-> First],
              free |-> First]

Free(d, s)  == d.block[s].next # Null
Length(d, s) == d.block[s].last - s + 1

----------------------------------------------------------------------------
(* AssignableSet::chain: s goes on the list before block at, or alone.         *)
ChainBefore(d, s, at) ==
    IF at = Null
    THEN [d EXCEPT !.block[s].next = s, !.block[s].ptr = s]
    ELSE LET prev == d.block[at].ptr
         IN  [d EXCEPT !.block[s].next = at, !.block[prev].next = s,
                       !.block[s].ptr = prev, !.block[at].ptr = s]

(* A block in use goes back on the list, and starts it if it was empty.        *)
ChainFree(d, s) ==
    [ChainBefore(d, s, d.free) EXCEPT !.free = IF @ = Null THEN s ELSE @]

(* AssignableSet::unchain, and its caller's part when s was the last.          *)
Unchain(d, s, ptr) ==
    LET b   == d.block[s]
        cut == IF b.next # s
               THEN [d EXCEPT !.block[b.ptr].next = b.next, !.block[b.next].ptr = b.ptr]
               ELSE d
    IN  [cut EXCEPT !.block[s].next = Null, !.block[s].ptr = ptr]

----------------------------------------------------------------------------
(* splitAndInsert: the last size addresses of s become a free block.           *)
SplitAndInsert(d, s, size) ==
    IF Length(d, s) <= size THEN d
    ELSE LET new  == d.block[s].last + 1 - size
             cut  == [d EXCEPT !.block = [x \in DOMAIN d.block \cup {new} |->
                         CASE x = new -> [last |-> d.block[s].last, next |-> Null, ptr |-> Null]
                           [] x = s   -> [d.block[s] EXCEPT !.last = new - 1]
                           [] OTHER   -> d.block[x]]]
             ring == ChainBefore(cut, new, s)
         IN  AddTo(ring, Locate(ring, ring.root, new)[1], new, Null)

(* A slip: the list's head is left on the block that is deleted.               *)
JoinKeepingHead(d, s) ==
    LET at   == Locate(d, d.root, d.block[s].last + 1)
        next == d.node[at[1]].set[at[2]]
        off  == IF Free(d, next) THEN Unchain(d, next, Null) ELSE d
    IN  DelAt([off EXCEPT !.block[s].last = d.block[next].last], at[1], at[2])

(* joinAndDelete: s takes over the block after it, which leaves the list (its  *)
(* timer stops if it is in use) and the tree.                                  *)
JoinAndDelete(d, s) ==
    LET at   == Locate(d, d.root, d.block[s].last + 1)
        next == d.node[at[1]].set[at[2]]
        off  == IF Free(d, next)
                THEN [Unchain(d, next, Null) EXCEPT !.free = IF @ = next THEN s ELSE @]
                ELSE d
    IN  DelAt([off EXCEPT !.block[s].last = d.block[next].last], at[1], at[2])

(* A slip: the head is moved only when the whole block is taken.               *)
ExtractLosingHead(d, s, lo, hi) ==
    LET size  == d.block[s].last - lo + 1
        front == IF lo > s THEN SplitAndInsert(d, s, size) ELSE d
        set   == IF lo > s THEN lo ELSE s
        back  == IF size > hi - lo + 1
                 THEN SplitAndInsert(front, set, size - (hi - lo + 1)) ELSE front
    IN  [Unchain(back, set, Database) EXCEPT
            !.free = IF back.block[set].next = set THEN Null ELSE back.free]

(* extract: lo .. hi, in free block s, leaves the list as a block of its own.  *)
Extract(d, s, lo, hi) ==
    LET size  == d.block[s].last - lo + 1
        front == IF lo > s THEN SplitAndInsert(d, s, size) ELSE d
        set   == IF lo > s THEN lo ELSE s
        back  == IF size > hi - lo + 1
                 THEN SplitAndInsert(front, set, size - (hi - lo + 1)) ELSE front
        head  == IF back.free = set THEN back.block[set].next ELSE back.free
    IN  [Unchain(back, set, Database) EXCEPT
            !.free = IF back.block[set].next = set THEN Null ELSE head]

----------------------------------------------------------------------------
(* getFreeSet(1, max): once round the list from its head, the first block that *)
(* offers most, stopping at one that offers max.                               *)
Worth(d, s, max) == Offerable(FreeBlock(s, d.block[s].last), max)

RECURSIVE BestFrom(_, _, _, _)
BestFrom(d, p, best, max) ==
    LET now == IF best = Null \/ Worth(d, best, max) < Worth(d, p, max) THEN p ELSE best
    IN  IF d.block[p].next = d.free \/ Worth(d, now, max) = max THEN now
        ELSE BestFrom(d, d.block[p].next, now, max)

GetFree(d, max) == IF d.free = Null THEN Null ELSE BestFrom(d, d.free, Null, max)

(* findSet: the databases of the results, one for each aligned run that serves.*)
FindAndExtract(d, count) ==
    LET s == GetFree(d, count)
    IN  IF s = Null THEN {}
        ELSE {Extract(d, s, r[1], r[1] + AtMost(r[2], count) - 1) :
                 r \in FoundIn(FreeBlock(s, d.block[s].last), count)}

(* assign of lo .. hi in block c, and exclude: the block is free first, and    *)
(* exclude joins it with the blocks after it until it holds the whole set.     *)
FreeFirst(d, c) == IF Free(d, c) THEN d ELSE ChainFree(d, c)

RECURSIVE JoinUpTo(_, _, _)
JoinUpTo(d, s, hi) ==
    IF d.block[s].last >= hi THEN d ELSE JoinUpTo(JoinAndDelete(d, s), s, hi)

AssignedIn(d, c, lo, hi) == Extract(FreeFirst(d, c), c, lo, hi)

ExcludeSet(d, lo, hi) ==
    LET r == Search(d, lo)
    IN  IF ~Free(d, r) /\ r = lo /\ d.block[r].last = hi THEN d
        ELSE Extract(JoinUpTo(FreeFirst(d, r), r, hi), r, lo, hi)

(* A slip: the block after is joined whether it is free or not.                *)
TimeoutJoiningAny(d, s) ==
    LET prev  == Search(d, s - 1)
        next  == Search(d, d.block[s].last + 1)
        on    == ChainFree(d, s)
        right == IF next # Null THEN JoinAndDelete(on, s) ELSE on
    IN  IF prev # Null /\ Free(right, prev) THEN JoinAndDelete(right, prev) ELSE right

(* AssignableSet::timeout: the neighbours are found before, and joined after,  *)
(* the block goes on the list.                                                 *)
TimeoutOf(d, s) ==
    LET prev  == Search(d, s - 1)
        next  == Search(d, d.block[s].last + 1)
        on    == ChainFree(d, s)
        right == IF next # Null /\ Free(on, next) THEN JoinAndDelete(on, s) ELSE on
    IN  IF prev # Null /\ Free(right, prev) THEN JoinAndDelete(right, prev) ELSE right

----------------------------------------------------------------------------
(* Where a TreeNode is in memory means nothing: after each call the nodes are  *)
(* named by their first block, unless two have the same or one has none.       *)
Renamed(d) ==
    LET name == [n \in DOMAIN d.node \cup {Null} |->
                    IF n = Null THEN Null ELSE d.node[n].set[1]]
        IsName == /\ \A n \in DOMAIN d.node : name[n] # Null
                  /\ \A m, n \in DOMAIN d.node : name[m] = name[n] => m = n
        node(k) == d.node[CHOOSE n \in DOMAIN d.node : name[n] = k]
    IN  IF ~IsName THEN d
        ELSE [d EXCEPT
                !.root = name[@],
                !.node = [k \in {name[n] : n \in DOMAIN d.node} |->
                             NodeOf(name[node(k).parent],
                                    [i \in 1..3 |-> name[node(k).child[i]]], node(k).set)]]

FreeSets == {s \in DOMAIN db.block : Free(db, s)}
Bounded  == Cardinality(FreeSets) <= MaxFree

(* reserve and assign of a count do the same to these structures.              *)
FindSetCall(count) ==
    /\ Bounded
    /\ \E d \in FindAndExtract(db, count) : db' = Renamed(d)

(* The caller has found the block that holds all of the set: checkStatus.      *)
AssignCall(lo, hi) ==
    LET c == Search(db, lo)
    IN  /\ Bounded
        /\ db.block[c].last >= hi
        /\ db' = Renamed(AssignedIn(db, c, lo, hi))

ExcludeCall(lo, hi) == Bounded /\ db' = Renamed(ExcludeSet(db, lo, hi))

(* release, or the timer that goes off: both call timeout.                     *)
TimeoutCall(s) == Bounded /\ ~Free(db, s) /\ db' = Renamed(TimeoutOf(db, s))

Next ==
    \/ \E count \in Counts : FindSetCall(count)
    \/ \E s \in Sets : AssignCall(s[1], s[2]) \/ ExcludeCall(s[1], s[2])
    \/ \E s \in DOMAIN db.block : TimeoutCall(s)

Spec == Init /\ [][Next]_db

----------------------------------------------------------------------------
(* Slots hold nodes and blocks that exist, or Null.                            *)
TypeInvariant ==
    LET nodes == DOMAIN db.node \cup {Null}
        sets  == DOMAIN db.block \cup {Null}
    IN  /\ db.root \in DOMAIN db.node /\ db.free \in sets
        /\ \A n \in DOMAIN db.node : /\ db.node[n].parent \in nodes
                                     /\ db.node[n].child \in [1..3 -> nodes]
                                     /\ db.node[n].set \in [1..2 -> sets]
        /\ \A s \in DOMAIN db.block : /\ s <= db.block[s].last
                                      /\ db.block[s].next \in sets
                                      /\ db.block[s].ptr \in sets \cup {Database}

(* A node with one block has its first and third child, one with two blocks    *)
(* all three, or it is a leaf; every leaf is as deep as the others; a child    *)
(* knows its parent; and no node is lost (add, redistribute_*, merge, del).    *)
RECURSIVE Heights(_)
Heights(n) ==
    LET kids == KidsOf(db.node[n])
    IN  IF kids = {} THEN {1} ELSE {h + 1 : h \in UNION {Heights(k) : k \in kids}}
TreeBalanced ==
    /\ Cardinality(Heights(db.root)) = 1 /\ db.node[db.root].parent = Null
    /\ Below(db, db.root) = DOMAIN db.node
    /\ \A n \in DOMAIN db.node :
          LET x == db.node[n]
          IN  /\ x.set[1] # Null
              /\ KidsOf(x) = {} \/ (x.child[1] # Null /\ x.child[3] # Null /\
                                       (x.child[2] # Null <=> x.set[2] # Null))
              /\ \A k \in KidsOf(x) : db.node[k].parent = n

(* Whatever was split, joined and borrowed before, search finds for every      *)
(* address of the pool the one block that holds it, and nothing outside it.    *)
SearchFinds ==
    /\ \A a \in First .. Last :
          LET s == Search(db, a) IN s # Null /\ s <= a /\ a <= db.block[s].last
    /\ Search(db, First - 1) = Null /\ Search(db, Last + 1) = Null
    /\ \A s \in DOMAIN db.block : Search(db, s) = s

(* The loop of getFreeSet comes back to m_free_list, after every free block    *)
(* and no block in use, and each block knows the one before it.                *)
RECURSIVE Ring(_, _)
Ring(s, seen) == IF s \in seen \/ s = Null THEN seen ELSE Ring(db.block[s].next, seen \cup {s})
FreeListIsRing ==
    /\ Ring(db.free, {}) = FreeSets
    /\ \A s \in FreeSets : db.block[db.block[s].next].ptr = s
    /\ \A s \in DOMAIN db.block \ FreeSets : db.block[s].ptr = Database

(* The blocks that tree and list keep change the way SetDatabase says: every   *)
(* call is one of its operations on the set of blocks.                         *)
InUse(lo, hi) == HeldBlock(lo, hi, "excluded", NoId, 0)
Blocks(d) == {IF Free(d, s) THEN FreeBlock(s, d.block[s].last)
                            ELSE InUse(s, d.block[s].last) : s \in DOMAIN d.block}
BlockStep(B, C) ==
    \/ \E count \in Counts : \E f \in FindSet(B, count) : C = Carve(B, f[1], InUse(f[2], f[3]))
    \/ \E s \in Sets : \E c \in Container(B, s[1], s[2]) : C = Carve(B, c, InUse(s[1], s[2]))
    \/ \E s \in Sets : C = Exclude(B, s[1], s[2], 0)
    \/ \E b \in Held(B) : C = Timeout(B, b)
KeepsBlocks == [][BlockStep(Blocks(db), Blocks(db'))]_db
=============================================================================
