--------------------------- MODULE SetDatabaseProofs ---------------------------
(* SetDatabase keeps its blocks well formed and its pool tiled, for every pool, *)
(* every set of ids, sizes and lifetimes, and every limit of the wire, and      *)
(* implements LeasePool.                                                       *)
EXTENDS SetDatabase, AddressBlockProofs

(* The lemmas of AddressBlockProofs for the one pool of this database.         *)
Sound(B) == SoundIn(B, Ids, First, Last)

LEMMA WholePoolSound == Sound(WholePool) /\ Held(WholePool) = {}
BY WholeSoundIn, PoolAssumption DEF Sound, WholePool

LEMMA CarveSound ==
    ASSUME NEW B, Sound(B), NEW c \in B, NEW n \in BlockOf(Ids), ~IsFree(n),
           c.lo <= n.lo, n.lo <= n.hi, n.hi <= c.hi
    PROVE  Sound(Carve(B, c, n))
BY CarveSoundIn, PoolAssumption DEF Sound

LEMMA TimeoutSound ==
    ASSUME NEW B, Sound(B), NEW b \in B
    PROVE  Sound(Timeout(B, b))
BY TimeoutSoundIn, PoolAssumption DEF Sound

LEMMA ElapseSound ==
    ASSUME NEW B, Sound(B)
    PROVE  Sound(Elapse(B))
BY ElapseSoundIn, PoolAssumption DEF Sound

LEMMA FindSetInFree ==
    ASSUME NEW B, Sound(B), NEW count \in Nat \ {0}, NEW f \in FindSet(B, count)
    PROVE  /\ f[1] \in B /\ IsFree(f[1])
           /\ f[2] \in Int /\ f[3] \in Int
           /\ f[1].lo <= f[2] /\ f[2] <= f[3] /\ f[3] <= f[1].hi
BY FoundInFree, PoolAssumption DEF Sound

LEMMA AtIs ==
    ASSUME NEW B, Sound(B), NEW b \in B, NEW a \in Addrs(b)
    PROVE  At(B, a) = b
BY AtIsIn, PoolAssumption DEF Sound

LEMMA AtIn ==
    ASSUME NEW B, Sound(B), NEW a \in First .. Last
    PROVE  /\ At(B, a) \in B /\ a \in Addrs(At(B, a))
           /\ At(B, a).id \in Ids \cup {NoId}
           /\ IsFree(At(B, a)) => At(B, a).id = NoId
BY AtInside, PoolAssumption DEF Sound

----------------------------------------------------------------------------
(* The inductive invariant: TypeInvariant and PoolTiled together.              *)
Inv == Sound(blocks)

LEMMA ReserveSound ==
    ASSUME NEW B, Sound(B), NEW count \in Counts, NEW id \in Ids, NEW life \in Lifetimes,
           NEW R \in Reserve(B, count, id, life)
    PROVE  Sound(R)
<1>1. count \in Nat \ {0} /\ life \in Nat
  BY AskAssumption
<1>2. PICK f \in FindSet(B, count) :
          R = Carve(B, f[1], HeldBlock(f[2], f[3], "reserved", id, life))
  BY DEF Reserve
<1>3. /\ f[1] \in B /\ f[2] \in Int /\ f[3] \in Int
      /\ f[1].lo <= f[2] /\ f[2] <= f[3] /\ f[3] <= f[1].hi
  BY <1>1, FindSetInFree
<1> DEFINE n == HeldBlock(f[2], f[3], "reserved", id, life)
<1>4. n \in BlockOf(Ids) /\ ~IsFree(n) /\ n.lo = f[2] /\ n.hi = f[3]
  BY <1>1, <1>3 DEF HeldBlock, BlockOf, InUses, IsFree
<1> HIDE DEF n
<1>5. Sound(Carve(B, f[1], n))
  BY <1>3, <1>4, CarveSound
<1> QED BY <1>2, <1>5 DEF n

LEMMA AssignCountSound ==
    ASSUME NEW B, Sound(B), NEW count \in Counts, NEW id \in Ids, NEW life \in Lifetimes,
           NEW R \in AssignCount(B, count, id, life)
    PROVE  Sound(R)
<1>1. count \in Nat \ {0} /\ life + 1 \in Nat
  BY AskAssumption
<1>2. PICK f \in FindSet(B, count) :
          R = Carve(B, f[1], HeldBlock(f[2], f[3], "assigned", id, life + 1))
  BY DEF AssignCount
<1>3. /\ f[1] \in B /\ f[2] \in Int /\ f[3] \in Int
      /\ f[1].lo <= f[2] /\ f[2] <= f[3] /\ f[3] <= f[1].hi
  BY <1>1, FindSetInFree
<1> DEFINE n == HeldBlock(f[2], f[3], "assigned", id, life + 1)
<1>4. n \in BlockOf(Ids) /\ ~IsFree(n) /\ n.lo = f[2] /\ n.hi = f[3]
  BY <1>1, <1>3 DEF HeldBlock, BlockOf, InUses, IsFree
<1> HIDE DEF n
<1>5. Sound(Carve(B, f[1], n))
  BY <1>3, <1>4, CarveSound
<1> QED BY <1>2, <1>5 DEF n

LEMMA AssignInSound ==
    ASSUME NEW B, Sound(B), NEW lo \in Int, NEW hi \in Int, lo <= hi,
           NEW c \in Container(B, lo, hi), NEW id \in Ids, NEW life \in Lifetimes
    PROVE  Sound(AssignIn(B, c, lo, hi, id, life))
<1>1. life + 1 \in Nat
  BY AskAssumption
<1>2. c \in B /\ c.lo <= lo /\ hi <= c.hi
  BY DEF Container, Addrs, Sound, SoundIn, WellFormed, BlockOf
<1> DEFINE n == HeldBlock(lo, hi, "assigned", id, life + 1)
<1>3. n \in BlockOf(Ids) /\ ~IsFree(n) /\ n.lo = lo /\ n.hi = hi
  BY <1>1 DEF HeldBlock, BlockOf, InUses, IsFree
<1> HIDE DEF n
<1>4. Sound(Carve(B, c, n))
  BY <1>2, <1>3, CarveSound
<1> QED BY <1>4 DEF AssignIn, n

----------------------------------------------------------------------------
(* Every step of the database keeps its blocks sound.                          *)
THEOREM SoundInductive == Spec => []Inv
<1>1. Init => Inv
  BY WholePoolSound DEF Init, Inv
<1>2. Inv /\ [Next]_blocks => Inv'
  <2> SUFFICES ASSUME Sound(blocks), [Next]_blocks PROVE Sound(blocks')
    BY DEF Inv
  <2>1. ASSUME NEW count \in Counts, NEW id \in Ids, NEW life \in Lifetimes,
               DbReserve(count, id, life)
        PROVE  Sound(blocks')
    BY <2>1, ReserveSound DEF DbReserve
  <2>2. ASSUME NEW count \in Counts, NEW id \in Ids, NEW life \in Lifetimes,
               DbAssignCount(count, id, life)
        PROVE  Sound(blocks')
    BY <2>2, AssignCountSound DEF DbAssignCount
  <2>3. ASSUME NEW c \in blocks, NEW lo \in First .. Last, NEW hi \in First .. Last,
               NEW id \in Ids, NEW life \in Lifetimes, DbAssignIn(c, lo, hi, id, life)
        PROVE  Sound(blocks')
    <3>1. lo \in Int /\ hi \in Int
      BY PoolAssumption
    <3> QED BY <2>3, <3>1, AssignInSound DEF DbAssignIn
  <2>4. ASSUME NEW b \in blocks, DbRelease(b) PROVE Sound(blocks')
    BY <2>4, TimeoutSound DEF DbRelease
  <2>5. CASE Expire
    BY <2>5, TimeoutSound DEF Expire, Due, Held
  <2>6. CASE Tick
    BY <2>6, ElapseSound DEF Tick
  <2>7. CASE UNCHANGED blocks
    BY <2>7
  <2> QED BY <2>1, <2>2, <2>3, <2>4, <2>5, <2>6, <2>7 DEF Next, ServerCall
<1> QED BY <1>1, <1>2, PTL DEF Spec

(* The fields of every block fit its use: extract, timeout and both assign()s  *)
(* leave no timer running and no id on a free block that the model shows.      *)
THEOREM TypeCorrect == Spec => []TypeInvariant
<1>1. Inv => TypeInvariant
  BY DEF Inv, Sound, SoundIn, WellFormed, TypeInvariant
<1> QED BY <1>1, SoundInductive, PTL

(* For every pool, and whatever is reserved, assigned, released or timed out   *)
(* in whatever order, no address is lost and none is in two blocks.            *)
THEOREM PoolStaysTiled == Spec => []PoolTiled
<1>1. Inv => PoolTiled
  BY DEF Inv, Sound, SoundIn, PoolTiled
<1> QED BY <1>1, SoundInductive, PTL

----------------------------------------------------------------------------
(* What one step may do to the holder of an address, on behalf of id.          *)
Moves(B, C, id) ==
    \A a \in First .. Last :
        \/ At(C, a).id = At(B, a).id
        \/ At(B, a).id = NoId /\ At(C, a).id = id
        \/ At(B, a).id = id /\ At(C, a).id = NoId

LEMMA CarveMoves ==
    ASSUME NEW B, Sound(B), NEW c \in B, NEW n \in BlockOf(Ids), ~IsFree(n),
           c.lo <= n.lo, n.lo <= n.hi, n.hi <= c.hi, IsFree(c) \/ c.id = n.id
    PROVE  Moves(B, Carve(B, c, n), n.id)
<1> DEFINE C == Carve(B, c, n)
<1>1. Sound(C)
  BY CarveSound
<1>2. C = (B \ {c}) \cup Remainder(c.lo, n.lo - 1) \cup {n} \cup Remainder(n.hi + 1, c.hi)
  BY DEF Carve
<1>3. c.lo \in Int /\ c.hi \in Int /\ n.lo \in Int /\ n.hi \in Int
  BY DEF Sound, SoundIn, WellFormed, BlockOf
<1>4. c.id = NoId \/ c.id = n.id
  BY DEF Sound, SoundIn, WellFormed
<1> HIDE DEF C
<1> SUFFICES ASSUME NEW a \in First .. Last
             PROVE  \/ At(C, a).id = At(B, a).id
                    \/ At(B, a).id = NoId /\ At(C, a).id = n.id
                    \/ At(B, a).id = n.id /\ At(C, a).id = NoId
  BY DEF Moves, C
<1>5. At(B, a) \in B /\ a \in Addrs(At(B, a)) /\ At(C, a) \in C /\ a \in Addrs(At(C, a))
  BY <1>1, AtIn
<1>6. CASE At(B, a) # c
  <2>1. At(B, a) \in C
    BY <1>2, <1>5, <1>6
  <2>2. At(C, a) = At(B, a)
    BY <1>1, <1>5, <2>1, AtIs
  <2> QED BY <2>2
<1>7. CASE At(B, a) = c
  <2>1. At(C, a) \notin B \ {c}
    BY <1>5, <1>7, AtIs
  <2>2. CASE At(C, a) = n
    BY <2>2, <1>4, <1>7
  <2>3. CASE At(C, a) \in Remainder(c.lo, n.lo - 1)
    <3>1. At(C, a).id = NoId
      BY <2>3, <1>3, RemainderFormed
    <3> QED BY <3>1, <1>4, <1>7
  <2>4. CASE At(C, a) \in Remainder(n.hi + 1, c.hi)
    <3>1. At(C, a).id = NoId
      BY <2>4, <1>3, RemainderFormed
    <3> QED BY <3>1, <1>4, <1>7
  <2> QED BY <2>1, <2>2, <2>3, <2>4, <1>2, <1>5
<1> QED BY <1>6, <1>7

LEMMA TimeoutMoves ==
    ASSUME NEW B, Sound(B), NEW b \in B
    PROVE  Moves(B, Timeout(B, b), b.id)
<1> DEFINE span == FreeNeighbours(B, b) \cup {b}
           n == FreeBlock(Least({s.lo : s \in span}), Greatest({s.hi : s \in span}))
           T == Timeout(B, b)
<1>1. Sound(T)
  BY TimeoutSound
<1>2. T = (B \ span) \cup {n} /\ n.id = NoId
  BY DEF Timeout, FreeBlock
<1>3. \A s \in span : s = b \/ IsFree(s)
  BY DEF FreeNeighbours
<1> HIDE DEF span, n, T
<1> SUFFICES ASSUME NEW a \in First .. Last
             PROVE  \/ At(T, a).id = At(B, a).id
                    \/ At(B, a).id = NoId /\ At(T, a).id = b.id
                    \/ At(B, a).id = b.id /\ At(T, a).id = NoId
  BY DEF Moves, T
<1>4. /\ At(B, a) \in B /\ a \in Addrs(At(B, a)) /\ At(T, a) \in T /\ a \in Addrs(At(T, a))
      /\ IsFree(At(B, a)) => At(B, a).id = NoId
  BY <1>1, AtIn
<1>5. CASE At(B, a) \notin span
  <2>1. At(B, a) \in T
    BY <1>2, <1>4, <1>5
  <2>2. At(T, a) = At(B, a)
    BY <1>1, <1>4, <2>1, AtIs
  <2> QED BY <2>2
<1>6. CASE At(B, a) \in span
  <2>1. CASE At(T, a) = n
    BY <2>1, <1>2, <1>3, <1>4, <1>6
  <2>2. CASE At(T, a) \in B \ span
    <3>1. At(B, a) = At(T, a)
      BY <2>2, <1>4, AtIs
    <3> QED BY <3>1
  <2> QED BY <2>1, <2>2, <1>2, <1>4
<1> QED BY <1>5, <1>6

LEMMA ElapseKeeps ==
    ASSUME NEW B, Sound(B), NEW a \in First .. Last
    PROVE  At(Elapse(B), a).id = At(B, a).id
<1> DEFINE b == At(B, a)
           later == [b EXCEPT !.left = IF b.left > 0 THEN b.left - 1 ELSE 0]
<1>1. b \in B /\ a \in Addrs(b)
  BY AtIn
<1>2. b \in BlockOf(Ids)
  BY <1>1 DEF Sound, SoundIn, WellFormed
<1>3. later \in Elapse(B)
  BY <1>1 DEF Elapse
<1>4. later.lo = b.lo /\ later.hi = b.hi /\ later.id = b.id
  BY <1>2 DEF BlockOf
<1> HIDE DEF b, later
<1>5. a \in Addrs(later)
  BY <1>1, <1>4 DEF Addrs
<1>6. At(Elapse(B), a) = later
  BY <1>3, <1>5, AtIs, ElapseSound
<1> QED BY <1>4, <1>6 DEF b

(* A step of one caller, as a LeasePool has it.                                *)
LEMMA MovesAreLeases ==
    ASSUME Sound(blocks), Sound(blocks'), NEW id \in Ids \cup {NoId}, Moves(blocks, blocks', id)
    PROVE  [Leases!Next]_([a \in First .. Last |-> BlockWith(a).id])
<1> DEFINE holder == [a \in First .. Last |-> BlockWith(a).id]
<1>1. holder = [a \in First .. Last |-> At(blocks, a).id]
  BY DEF BlockWith, At
<1>2. holder' = [a \in First .. Last |-> At(blocks', a).id]
  BY DEF BlockWith, At
<1> HIDE DEF holder
<1>3. holder' \in [First .. Last -> Ids \cup {NoId}]
  BY <1>2, AtIn
<1>4. \A a \in First .. Last :
          \/ holder'[a] = holder[a]
          \/ holder[a] = NoId /\ holder'[a] = id
          \/ holder[a] = id /\ holder'[a] = NoId
  BY <1>1, <1>2 DEF Moves
<1>5. CASE id \in Ids
  <2>1. \E i \in Ids :
            /\ holder' \in [First .. Last -> Ids \cup {NoId}]
            /\ \A a \in First .. Last :
                   \/ holder'[a] = holder[a]
                   \/ holder[a] = NoId /\ holder'[a] = i
                   \/ holder[a] = i /\ holder'[a] = NoId
    BY <1>3, <1>4, <1>5
  <2> QED BY <2>1 DEF Leases!Next, Leases!Move, Leases!Pool, Leases!Takes, Leases!GivesBack, holder
<1>6. CASE id = NoId
  <2>1. \A a \in First .. Last : holder'[a] = holder[a]
    BY <1>4, <1>6
  <2>2. holder' = holder
    BY <2>1, <1>1, <1>2
  <2> QED BY <2>2 DEF holder
<1> QED BY <1>5, <1>6

(* SetDatabase implements LeasePool: whatever findSet, extract and timeout do  *)
(* with blocks, an address is only ever taken when free and given back by its  *)
(* own holder.                                                                 *)
THEOREM DatabaseKeepsLeases == Spec => LeasesKept
<1> DEFINE holder == [a \in First .. Last |-> BlockWith(a).id]
<1>1. Init => Leases!Init
  <2> SUFFICES ASSUME Init PROVE Leases!Init
    OBVIOUS
  <2>1. ASSUME NEW a \in First .. Last PROVE BlockWith(a).id = NoId
    <3>1. blocks = {FreeBlock(First, Last)}
      BY DEF Init, WholePool
    <3>2. a \in Addrs(FreeBlock(First, Last)) /\ FreeBlock(First, Last).id = NoId
      BY DEF Addrs, FreeBlock
    <3> QED BY <3>1, <3>2 DEF BlockWith
  <2> QED BY <2>1 DEF Leases!Init, Leases!Pool
<1>2. Inv /\ Inv' /\ [Next]_blocks => [Leases!Next]_holder
  <2> SUFFICES ASSUME Sound(blocks), Sound(blocks'), [Next]_blocks
               PROVE  [Leases!Next]_holder
    BY DEF Inv
  <2>2. ASSUME NEW count \in Counts, NEW id \in Ids, NEW life \in Lifetimes,
               DbReserve(count, id, life) \/ DbAssignCount(count, id, life)
        PROVE  Moves(blocks, blocks', id)
    <3>1. PICK f \in FindSet(blocks, count), use \in {"reserved", "assigned"}, left \in Nat :
              blocks' = Carve(blocks, f[1], HeldBlock(f[2], f[3], use, id, left))
      BY <2>2, AskAssumption DEF DbReserve, DbAssignCount, Reserve, AssignCount
    <3>2. /\ f[1] \in blocks /\ IsFree(f[1]) /\ f[2] \in Int /\ f[3] \in Int
          /\ f[1].lo <= f[2] /\ f[2] <= f[3] /\ f[3] <= f[1].hi
      BY AskAssumption, FindSetInFree
    <3> DEFINE n == HeldBlock(f[2], f[3], use, id, left)
    <3>3. n \in BlockOf(Ids) /\ ~IsFree(n) /\ n.lo = f[2] /\ n.hi = f[3] /\ n.id = id
      BY <3>2 DEF HeldBlock, BlockOf, InUses, IsFree
    <3> HIDE DEF n
    <3>4. Moves(blocks, Carve(blocks, f[1], n), n.id)
      BY <3>2, <3>3, CarveMoves
    <3> QED BY <3>1, <3>3, <3>4 DEF n
  <2>3. ASSUME NEW c \in blocks, NEW lo \in First .. Last, NEW hi \in First .. Last,
               NEW id \in Ids, NEW life \in Lifetimes, DbAssignIn(c, lo, hi, id, life)
        PROVE  Moves(blocks, blocks', id)
    <3> DEFINE n == HeldBlock(lo, hi, "assigned", id, life + 1)
    <3>1. c.lo <= lo /\ lo <= hi /\ hi <= c.hi /\ (IsFree(c) \/ c.id = id)
      BY <2>3 DEF DbAssignIn, Container, Addrs, Sound, SoundIn, WellFormed, BlockOf
    <3>2. n \in BlockOf(Ids) /\ ~IsFree(n) /\ n.lo = lo /\ n.hi = hi /\ n.id = id
      BY AskAssumption, PoolAssumption DEF HeldBlock, BlockOf, InUses, IsFree
    <3>3. blocks' = Carve(blocks, c, n)
      BY <2>3 DEF DbAssignIn, AssignIn
    <3> HIDE DEF n
    <3> QED BY <3>1, <3>2, <3>3, CarveMoves
  <2>4. ASSUME NEW b \in blocks, blocks' = Timeout(blocks, b)
        PROVE  b.id \in Ids \cup {NoId} /\ Moves(blocks, blocks', b.id)
    BY <2>4, TimeoutMoves DEF Sound, SoundIn, WellFormed, BlockOf
  <2>5. CASE Tick
    <3>1. Moves(blocks, blocks', NoId)
      BY <2>5, ElapseKeeps DEF Tick, Moves
    <3> QED BY <3>1, MovesAreLeases
  <2>6. CASE UNCHANGED blocks
    BY <2>6 DEF BlockWith
  <2>7. CASE ServerCall
    <3>1. CASE \E b \in blocks : DbRelease(b)
      BY <3>1, <2>4, MovesAreLeases DEF DbRelease
    <3>2. CASE \E count \in Counts, id \in Ids, life \in Lifetimes :
                  DbReserve(count, id, life) \/ DbAssignCount(count, id, life)
      BY <3>2, <2>2, MovesAreLeases
    <3>3. CASE \E c \in blocks, lo, hi \in First .. Last, id \in Ids, life \in Lifetimes :
                  DbAssignIn(c, lo, hi, id, life)
      BY <3>3, <2>3, MovesAreLeases
    <3> QED BY <2>7, <3>1, <3>2, <3>3 DEF ServerCall
  <2>8. CASE Expire
    BY <2>8, <2>4, MovesAreLeases DEF Expire, Due, Held
  <2> QED BY <2>5, <2>6, <2>7, <2>8 DEF Next
<1> QED BY <1>1, <1>2, SoundInductive, PTL DEF Spec, LeasesKept, Leases!Spec
================================================================================
