--------------------------- MODULE AddressBlocks ---------------------------
(* The blocks of a SetDatabase (src/common/database.cpp) and what its          *)
(* operations do to them, as operators on a set of blocks.  The 2-3 tree and   *)
(* the circular free list only find blocks; here a block is found by what it   *)
(* holds, and where the free list breaks a tie any of the tied blocks serves.  *)
EXTENDS Integers, FiniteSets

CONSTANTS NoId,      \* the security id of a block that nobody holds
          WireMax,   \* 0xffff: the largest size that travels as a count
          AddrBits   \* width of an address: 64 in the code

ASSUME SizesAssumption == WireMax \in Nat \ {0} /\ AddrBits \in Nat

InUses == {"reserved", "assigned", "excluded"}

(* first and last address, use (m_next_free # NULL means "free"), security id  *)
(* and the seconds left on the block's timer (0 while it does not run).        *)
BlockOf(Ids) == [lo : Int, hi : Int, use : InUses \cup {"free"},
                 id : Ids \cup {NoId}, left : Nat]

Addrs(b)  == b.lo .. b.hi
Size(b)   == b.hi - b.lo + 1
IsFree(b) == b.use = "free"
Held(B)   == {b \in B : ~IsFree(b)}

FreeBlock(lo, hi) == [lo |-> lo, hi |-> hi, use |-> "free", id |-> NoId, left |-> 0]
HeldBlock(lo, hi, use, id, left) ==
    [lo |-> lo, hi |-> hi, use |-> use, id |-> id, left |-> left]

Least(S)    == CHOOSE x \in S : \A y \in S : x <= y
Greatest(S) == CHOOSE x \in S : \A y \in S : y <= x
AtMost(x, n) == IF x < n THEN x ELSE n

(* The blocks tile first .. last: no gap, no overlap, no empty block.          *)
Tiles(B, first, last) ==
    /\ \A b \in B : b.lo <= b.hi /\ first <= b.lo /\ b.hi <= last
    /\ \A a \in first .. last : \E b \in B : a \in Addrs(b)
    /\ \A b, c \in B : Addrs(b) \cap Addrs(c) # {} => b = c

----------------------------------------------------------------------------
(* splitAndInsert makes no block for a remainder of size 0.                    *)
Remainder(lo, hi) == IF lo <= hi THEN {FreeBlock(lo, hi)} ELSE {}

(* A slip: the addresses after the set go with it.                             *)
CarveLosingTail(B, c, n) == (B \ {c}) \cup Remainder(c.lo, n.lo - 1) \cup {n}

(* extract, then the caller's fields and timer: block n is cut out of block c, *)
(* and what is left of c on either side is free.                               *)
Carve(B, c, n) ==
    (B \ {c}) \cup Remainder(c.lo, n.lo - 1) \cup {n} \cup Remainder(n.hi + 1, c.hi)

(* A slip: the neighbours are spliced without a look at m_next_free.           *)
AnyNeighbours(B, b) == {n \in B : n.hi + 1 = b.lo \/ b.hi + 1 = n.lo}

FreeNeighbours(B, b) ==
    {n \in B : IsFree(n) /\ (n.hi + 1 = b.lo \/ b.hi + 1 = n.lo)}

(* A slip: the block before grows over this one, which stays in the tree.      *)
TimeoutKeepingNode(B, b) ==
    LET span == FreeNeighbours(B, b) \cup {b}
    IN  (B \ FreeNeighbours(B, b)) \cup
            {FreeBlock(Least({s.lo : s \in span}), Greatest({s.hi : s \in span}))}

(* A block whose time is over joins the free list and is spliced with the free *)
(* block after it and the free block before it.                                *)
Timeout(B, b) ==
    LET span == FreeNeighbours(B, b) \cup {b}
    IN  (B \ span) \cup {FreeBlock(Least({s.lo : s \in span}), Greatest({s.hi : s \in span}))}

----------------------------------------------------------------------------
(* getAlignedMask: the aligned runs of 2^k addresses inside lo .. hi, as       *)
(* <<first address, size>>, and the largest of them, lowest first.             *)
AlignedRuns(lo, hi) ==
    {r \in (lo .. hi) \X (1 .. hi - lo + 1) :
        /\ r[2] \in {2 ^ k : k \in 0 .. AddrBits}
        /\ r[1] % r[2] = 0 /\ r[1] + r[2] - 1 <= hi}
BestRuns(lo, hi) ==
    {r \in AlignedRuns(lo, hi) : \A s \in AlignedRuns(lo, hi) :
        s[2] < r[2] \/ (s[2] = r[2] /\ r[1] <= s[1])}
AlignedRun(lo, hi) == CHOOSE r \in BestRuns(lo, hi) : TRUE

(* What a free block counts for in getFreeSet: no more than asked, and above   *)
(* the wire's limit its aligned run or that limit, whichever is larger.        *)
Offerable(b, max) ==
    AtMost(IF Size(b) <= WireMax THEN Size(b)
           ELSE Greatest({AlignedRun(b.lo, b.hi)[2], WireMax}), max)

(* getFreeSet: a free block that offers most, if it offers min.                *)
GetFreeSet(B, min, max) ==
    {b \in B : /\ IsFree(b) /\ Offerable(b, max) >= min
               /\ \A c \in B : IsFree(c) => Offerable(c, max) <= Offerable(b, max)}

(* findSet: <<container, first, last>> of the set it extracts for count, from  *)
(* where its container starts or, if it is too large for that, an aligned run. *)
FoundIn(c, count) ==
    IF AtMost(Size(c), count) > WireMax THEN BestRuns(c.lo, c.hi) ELSE {<<c.lo, Size(c)>>}
FindSet(B, count) ==
    UNION {{<<c, r[1], r[1] + AtMost(r[2], count) - 1>> : r \in FoundIn(c, count)} :
               c \in GetFreeSet(B, 1, count)}

----------------------------------------------------------------------------
(* The results of the database's public operations.                            *)
Reserve(B, count, id, life) ==
    {Carve(B, f[1], HeldBlock(f[2], f[3], "reserved", id, life)) : f \in FindSet(B, count)}

(* Both assign()s keep the block one second longer than the lease.             *)
AssignCount(B, count, id, life) ==
    {Carve(B, f[1], HeldBlock(f[2], f[3], "assigned", id, life + 1)) : f \in FindSet(B, count)}
AssignIn(B, c, lo, hi, id, life) ==
    Carve(B, c, HeldBlock(lo, hi, "assigned", id, life + 1))

(* checkStatus: the block that holds all of lo .. hi (none: INVALID) ...       *)
Container(B, lo, hi) == {b \in B : lo \in Addrs(b) /\ hi <= b.hi}
(* ... and the lifetime it reports, a second less than the timer if assigned.  *)
LifetimeLeft(b) == IF b.use = "assigned" /\ b.left > 0 THEN b.left - 1 ELSE b.left

(* A slip: the set heard before keeps the timer it has.                        *)
ExcludeOnce(B, lo, hi, life) ==
    LET first == CHOOSE b \in B : lo \in Addrs(b)
        hit   == {b \in B : Addrs(b) \cap (lo .. hi) # {}}
    IN  IF ~IsFree(first) /\ first.lo = lo /\ first.hi = hi
        THEN B
        ELSE (B \ hit) \cup Remainder(first.lo, lo - 1)
                       \cup {HeldBlock(lo, hi, "excluded", NoId, life)}
                       \cup Remainder(hi + 1, Greatest({b.hi : b \in hit}))

(* A slip: only the first block that the set touches is opened.                *)
ExcludeWithoutJoin(B, lo, hi, life) ==
    LET first == CHOOSE b \in B : lo \in Addrs(b)
    IN  Carve(B, first, HeldBlock(lo, hi, "excluded", NoId, life))

(* A slip: the timer of the block that is opened is not stopped.               *)
ExcludeWithTimer(B, lo, hi, life) ==
    LET first == CHOOSE b \in B : lo \in Addrs(b)
        hit   == {b \in B : Addrs(b) \cap (lo .. hi) # {}}
    IN  (B \ hit) \cup {[b EXCEPT !.left = first.left] : b \in Remainder(first.lo, lo - 1)}
                  \cup {HeldBlock(lo, hi, "excluded", NoId, life)}
                  \cup Remainder(hi + 1, Greatest({b.hi : b \in hit}))

(* exclude of lo .. hi, already cut to the pool: a block in use that is just   *)
(* this set has its timer set again if it is off by more than a second; else   *)
(* every block the set touches is opened and the set is cut out of them.       *)
Exclude(B, lo, hi, life) ==
    LET first == CHOOSE b \in B : lo \in Addrs(b)
        hit   == {b \in B : Addrs(b) \cap (lo .. hi) # {}}
        kept  == IF first.left - life \in {-1, 0, 1} THEN first.left ELSE life
    IN  IF ~IsFree(first) /\ first.lo = lo /\ first.hi = hi
        THEN (B \ {first}) \cup {[first EXCEPT !.left = kept]}
        ELSE (B \ hit) \cup Remainder(first.lo, lo - 1)
                       \cup {HeldBlock(lo, hi, "excluded", NoId, life)}
                       \cup Remainder(hi + 1, Greatest({b.hi : b \in hit}))

(* Slips: a timer runs below zero; reserve starts none.                        *)
ElapsePastZero(B) == {[b EXCEPT !.left = @ - 1] : b \in B}
ElapseLeased(B) ==
    {[b EXCEPT !.left = IF b.left > 0 /\ b.use # "reserved" THEN b.left - 1 ELSE b.left] : b \in B}

(* One second passes.                                                          *)
Elapse(B) == {[b EXCEPT !.left = IF b.left > 0 THEN b.left - 1 ELSE 0] : b \in B}
Due(B)    == {b \in Held(B) : b.left = 0}
=============================================================================
