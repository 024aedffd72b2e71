--------------------------- MODULE AddressBlockProofs ---------------------------
(* The blocks of any pool stay well formed and tile it under each operation of *)
(* AddressBlocks, for every pool, every set of ids, and every limit of the     *)
(* wire.  What a database does step by step, of a server with several or of a  *)
(* client, is proved from these lemmas.                                        *)
EXTENDS AddressBlocks, WellFoundedInduction, TLAPS

(* The blocks of a pool from .. to, well formed.                               *)
WellFormed(B, ids) == /\ B \subseteq BlockOf(ids)
                      /\ \A b \in B : IsFree(b) => b.id = NoId /\ b.left = 0
SoundIn(B, ids, from, to) == WellFormed(B, ids) /\ Tiles(B, from, to)

----------------------------------------------------------------------------
LEMMA RemainderFormed ==
    ASSUME NEW lo \in Int, NEW hi \in Int, NEW r \in Remainder(lo, hi)
    PROVE  /\ r = FreeBlock(lo, hi) /\ lo <= hi
           /\ r.lo = lo /\ r.hi = hi /\ \A ids : r \in BlockOf(ids)
           /\ IsFree(r) /\ r.id = NoId /\ r.left = 0
BY DEF Remainder, FreeBlock, BlockOf, InUses, IsFree

LEMMA WholeSoundIn ==
    ASSUME NEW ids, NEW from \in Int, NEW to \in Int, from <= to
    PROVE  SoundIn({FreeBlock(from, to)}, ids, from, to) /\ Held({FreeBlock(from, to)}) = {}
<1> DEFINE n == FreeBlock(from, to)
<1>1. /\ n \in BlockOf(ids) /\ n.lo = from /\ n.hi = to
      /\ n.id = NoId /\ n.left = 0 /\ IsFree(n)
  BY DEF FreeBlock, BlockOf, IsFree
<1> HIDE DEF n
<1>2. SoundIn({n}, ids, from, to) /\ Held({n}) = {}
  BY <1>1 DEF SoundIn, WellFormed, Tiles, Addrs, Held
<1> QED BY <1>2 DEF n

(* extract and splitAndInsert: cutting a block out of another leaves a tiling. *)
LEMMA CarveSoundIn ==
    ASSUME NEW ids, NEW from \in Int, NEW to \in Int, NEW B, SoundIn(B, ids, from, to),
           NEW c \in B, NEW n \in BlockOf(ids), ~IsFree(n),
           c.lo <= n.lo, n.lo <= n.hi, n.hi <= c.hi
    PROVE  SoundIn(Carve(B, c, n), ids, from, to)
<1> DEFINE before == Remainder(c.lo, n.lo - 1)
           after  == Remainder(n.hi + 1, c.hi)
           C == Carve(B, c, n)
<1>0. from \in Int /\ to \in Int
  OBVIOUS
<1>1. \A b \in B : b \in BlockOf(ids) /\ b.lo \in Int /\ b.hi \in Int
  BY DEF SoundIn, WellFormed, BlockOf
<1>2. n.lo \in Int /\ n.hi \in Int
  BY DEF BlockOf
<1>3. \A r \in before : r \in BlockOf(ids) /\ IsFree(r) /\ r.id = NoId /\ r.left = 0
                        /\ r.lo = c.lo /\ r.hi = n.lo - 1 /\ c.lo <= n.lo - 1
  BY <1>1, <1>2, RemainderFormed
<1>4. \A r \in after : r \in BlockOf(ids) /\ IsFree(r) /\ r.id = NoId /\ r.left = 0
                       /\ r.lo = n.hi + 1 /\ r.hi = c.hi /\ n.hi + 1 <= c.hi
  BY <1>1, <1>2, RemainderFormed
<1>5. /\ \A r, s \in before : r = s
      /\ \A r, s \in after : r = s
  BY DEF Remainder
<1>6. C = (B \ {c}) \cup before \cup {n} \cup after
  BY DEF Carve
<1>7. WellFormed(C, ids)
  BY <1>3, <1>4, <1>6 DEF SoundIn, WellFormed
<1>8. \A b \in C : b.lo \in Int /\ b.hi \in Int /\ b.lo <= b.hi /\ from <= b.lo /\ b.hi <= to
  BY <1>0, <1>1, <1>2, <1>3, <1>4, <1>6 DEF SoundIn, Tiles
<1>9. ASSUME NEW a \in from .. to PROVE \E b \in C : a \in Addrs(b)
  <2>1. PICK b \in B : a \in Addrs(b)
    BY DEF SoundIn, Tiles
  <2>2. CASE b # c
    BY <2>1, <2>2, <1>6
  <2>3. CASE b = c /\ a < n.lo
    <3>1. FreeBlock(c.lo, n.lo - 1) \in before
      BY <2>1, <2>3, <1>1, <1>2 DEF Remainder, Addrs
    <3>2. a \in Addrs(FreeBlock(c.lo, n.lo - 1))
      BY <2>1, <2>3, <1>1, <1>2 DEF FreeBlock, Addrs
    <3> QED BY <3>1, <3>2, <1>6
  <2>4. CASE b = c /\ n.hi < a
    <3>1. FreeBlock(n.hi + 1, c.hi) \in after
      BY <2>1, <2>4, <1>1, <1>2 DEF Remainder, Addrs
    <3>2. a \in Addrs(FreeBlock(n.hi + 1, c.hi))
      BY <2>1, <2>4, <1>1, <1>2 DEF FreeBlock, Addrs
    <3> QED BY <3>1, <3>2, <1>6
  <2>5. CASE n.lo <= a /\ a <= n.hi
    BY <2>5, <1>0, <1>2, <1>6 DEF Addrs
  <2> QED BY <2>2, <2>3, <2>4, <2>5, <1>0, <1>2
<1>10. ASSUME NEW b \in C, NEW d \in C, Addrs(b) \cap Addrs(d) # {} PROVE b = d
  <2>1. PICK a \in Int : b.lo <= a /\ a <= b.hi /\ d.lo <= a /\ a <= d.hi
    BY <1>8, <1>10 DEF Addrs
  <2>2. \A e \in C : e \in B \ {c} \/ e \in before \/ e = n \/ e \in after
    BY <1>6
  <2>3. \A e \in C : (e \in B \ {c} /\ e.lo <= a /\ a <= e.hi) => ~(c.lo <= a /\ a <= c.hi)
    <3> SUFFICES ASSUME NEW e \in B \ {c}, e.lo <= a, a <= e.hi, c.lo <= a, a <= c.hi
                 PROVE FALSE
      OBVIOUS
    <3>1. a \in Addrs(e) /\ a \in Addrs(c)
      BY <1>1, <2>1 DEF Addrs
    <3> QED BY <3>1 DEF SoundIn, Tiles
  <2>4. \A e \in C : (e \notin B \ {c} /\ e.lo <= a /\ a <= e.hi) => c.lo <= a /\ a <= c.hi
    BY <2>2, <1>1, <1>2, <1>3, <1>4
  <2>5. CASE b \in B \ {c} /\ d \in B \ {c}
    <3>1. a \in Addrs(b) /\ a \in Addrs(d)
      BY <1>8, <2>1 DEF Addrs
    <3> QED BY <3>1, <2>5 DEF SoundIn, Tiles
  <2>6. CASE b \notin B \ {c} /\ d \notin B \ {c}
    BY <2>6, <2>1, <2>2, <1>1, <1>2, <1>3, <1>4, <1>5
  <2> QED BY <2>1, <2>3, <2>4, <2>5, <2>6
<1> QED
  BY <1>7, <1>8, <1>9, <1>10 DEF SoundIn, Tiles

----------------------------------------------------------------------------
LEMMA LeastIs ==
    ASSUME NEW S \in SUBSET Int, NEW x \in S, \A y \in S : x <= y
    PROVE  Least(S) = x
<1>1. \A z \in S : (\A y \in S : z <= y) => z = x
  OBVIOUS
<1> QED BY <1>1 DEF Least

LEMMA GreatestIs ==
    ASSUME NEW S \in SUBSET Int, NEW x \in S, \A y \in S : y <= x
    PROVE  Greatest(S) = x
<1>1. \A z \in S : (\A y \in S : y <= z) => z = x
  OBVIOUS
<1> QED BY <1>1 DEF Greatest

(* Numbers have a least one, and numbers up to a bound a greatest.             *)
LEMMA LeastExists ==
    ASSUME NEW S \in SUBSET Nat, S # {}
    PROVE  \E x \in S : \A y \in S : x <= y
<1> DEFINE R == OpToRel(<, Nat)
<1>1. IsWellFoundedOn(R, Nat)
  BY NatLessThanWellFounded
<1>2. \A x, y \in Nat : ~(<<y, x>> \in R) => x <= y
  BY DEF OpToRel
<1> HIDE DEF R
<1>3. PICK x \in S : \A y \in S : ~(<<y, x>> \in R)
  BY <1>1, WFMin
<1> QED BY <1>2, <1>3

LEMMA GreatestExists ==
    ASSUME NEW n \in Nat, NEW S \in SUBSET (0 .. n), S # {}
    PROVE  \E x \in S : \A y \in S : y <= x
<1> DEFINE D == {n - x : x \in S}
<1>1. D \in SUBSET Nat /\ D # {}
  <2>1. \A x \in S : x \in 0 .. n
    OBVIOUS
  <2>2. \A x \in S : n - x \in Nat
    BY <2>1
  <2> QED BY <2>2
<1>2. PICK d \in D : \A e \in D : d <= e
  BY <1>1, LeastExists
<1>3. PICK x \in S : d = n - x
  BY <1>2
<1>4. \A y \in S : n - y \in D
  OBVIOUS
<1>5. \A y \in S : n - x <= n - y
  BY <1>2, <1>3, <1>4
<1> QED BY <1>5

(* A block has an aligned run, if only of one address; getAlignedMask finds    *)
(* one inside the block.                                                       *)
LEMMA AlignedRunInside ==
    ASSUME NEW lo \in Nat, NEW hi \in Nat, lo <= hi
    PROVE  LET r == AlignedRun(lo, hi)
           IN  r[1] \in Int /\ r[2] \in Int /\ lo <= r[1] /\ 1 <= r[2] /\ r[1] + r[2] - 1 <= hi
<1> DEFINE A == AlignedRuns(lo, hi)
<1>1. \A r \in A : r = <<r[1], r[2]>> /\ r[1] \in lo .. hi /\ r[2] \in 1 .. hi - lo + 1
                   /\ r[1] + r[2] - 1 <= hi
  BY DEF AlignedRuns
<1>2. <<lo, 1>> \in A
  <2>1. 2 ^ 0 = 1 /\ 0 \in 0 .. AddrBits
    BY SizesAssumption
  <2>2. 1 \in {2 ^ k : k \in 0 .. AddrBits}
    BY <2>1
  <2> QED BY <2>2 DEF AlignedRuns
<1> HIDE DEF A
<1>3. PICK r \in A : \A s \in A : s[2] <= r[2]
  <2> DEFINE N == {r[2] : r \in A}
  <2>1. N \in SUBSET (0 .. hi - lo + 1) /\ N # {}
    BY <1>1, <1>2
  <2>2. hi - lo + 1 \in Nat
    OBVIOUS
  <2>3. PICK x \in N : \A y \in N : y <= x
    BY <2>1, <2>2, GreatestExists
  <2> QED BY <2>3
<1>4. PICK q \in A : q[2] = r[2] /\ \A s \in A : s[2] = r[2] => q[1] <= s[1]
  <2> DEFINE N == {s[1] : s \in {s \in A : s[2] = r[2]}}
  <2>1. N \in SUBSET Nat /\ N # {}
    BY <1>1, <1>3
  <2>2. PICK x \in N : \A y \in N : x <= y
    BY <2>1, LeastExists
  <2> QED BY <2>2
<1>5. q \in BestRuns(lo, hi)
  <2>1. ASSUME NEW s \in A PROVE s[2] < q[2] \/ (s[2] = q[2] /\ q[1] <= s[1])
    BY <1>1, <1>3, <1>4
  <2> QED BY <2>1 DEF BestRuns, A
<1>6. AlignedRun(lo, hi) \in A
  BY <1>5 DEF AlignedRun, BestRuns, A
<1> QED BY <1>1, <1>6

(* Before a block of a tiling there is at most one free one, and after it.     *)
LEMMA NeighbourUnique ==
    ASSUME NEW ids, NEW from \in Int, NEW to \in Int, NEW B, SoundIn(B, ids, from, to),
           NEW b \in B
    PROVE  /\ \A p, q \in B : p.hi + 1 = b.lo /\ q.hi + 1 = b.lo => p = q
           /\ \A p, q \in B : b.hi + 1 = p.lo /\ b.hi + 1 = q.lo => p = q
<1>1. \A p \in B : p.lo \in Int /\ p.hi \in Int /\ p.lo <= p.hi
  BY DEF SoundIn, WellFormed, BlockOf, Tiles
<1>2. \A p \in B : p.lo \in Addrs(p) /\ p.hi \in Addrs(p)
  BY <1>1 DEF Addrs
<1>3. \A p, q \in B : p.hi = q.hi \/ p.lo = q.lo => p = q
  BY <1>2 DEF SoundIn, Tiles
<1> QED BY <1>1, <1>3

(* The blocks that a timeout splices make one run of addresses.                *)
LEMMA SpanIsRun ==
    ASSUME NEW ids, NEW from \in Int, NEW to \in Int, NEW B, SoundIn(B, ids, from, to),
           NEW b \in B,
           NEW span, span = FreeNeighbours(B, b) \cup {b},
           NEW lo, lo = Least({s.lo : s \in span}),
           NEW hi, hi = Greatest({s.hi : s \in span})
    PROVE  /\ lo \in Int /\ hi \in Int
           /\ \A s \in span : lo <= s.lo /\ s.hi <= hi
           /\ \A a \in lo .. hi : \E s \in span : a \in Addrs(s)
           /\ from <= lo /\ lo <= hi /\ hi <= to
<1>1. \A s \in B : s.lo \in Int /\ s.hi \in Int /\ s.lo <= s.hi /\ from <= s.lo /\ s.hi <= to
  BY DEF SoundIn, WellFormed, BlockOf, Tiles
<1>2. span \subseteq B /\ b \in span
  BY DEF FreeNeighbours
<1>3. \A s \in span : s = b \/ s.hi + 1 = b.lo \/ b.hi + 1 = s.lo
  BY DEF FreeNeighbours
<1>4. /\ \A p, q \in span : p.hi + 1 = b.lo /\ q.hi + 1 = b.lo => p = q
      /\ \A p, q \in span : b.hi + 1 = p.lo /\ b.hi + 1 = q.lo => p = q
  BY <1>2, NeighbourUnique
<1>5. PICK p \in span : (p = b \/ p.hi + 1 = b.lo) /\ \A s \in span : p.lo <= s.lo
  <2>1. CASE \E p \in span : p.hi + 1 = b.lo
    <3>1. PICK p \in span : p.hi + 1 = b.lo
      BY <2>1
    <3>2. ASSUME NEW s \in span PROVE p.lo <= s.lo
      BY <3>1, <1>1, <1>2, <1>3, <1>4
    <3> QED BY <3>1, <3>2
  <2>2. CASE ~ \E p \in span : p.hi + 1 = b.lo
    <3>1. ASSUME NEW s \in span PROVE b.lo <= s.lo
      BY <2>2, <1>1, <1>2, <1>3
    <3> QED BY <3>1, <1>2
  <2> QED BY <2>1, <2>2
<1>6. PICK q \in span : (q = b \/ b.hi + 1 = q.lo) /\ \A s \in span : s.hi <= q.hi
  <2>1. CASE \E q \in span : b.hi + 1 = q.lo
    <3>1. PICK q \in span : b.hi + 1 = q.lo
      BY <2>1
    <3>2. ASSUME NEW s \in span PROVE s.hi <= q.hi
      BY <3>1, <1>1, <1>2, <1>3, <1>4
    <3> QED BY <3>1, <3>2
  <2>2. CASE ~ \E q \in span : b.hi + 1 = q.lo
    <3>1. ASSUME NEW s \in span PROVE s.hi <= b.hi
      BY <2>2, <1>1, <1>2, <1>3
    <3> QED BY <3>1, <1>2
  <2> QED BY <2>1, <2>2
<1>7. lo = p.lo
  <2>1. {s.lo : s \in span} \in SUBSET Int
    BY <1>1, <1>2
  <2>2. p.lo \in {s.lo : s \in span} /\ \A y \in {s.lo : s \in span} : p.lo <= y
    BY <1>5
  <2> QED BY <2>1, <2>2, LeastIs
<1>8. hi = q.hi
  <2>1. {s.hi : s \in span} \in SUBSET Int
    BY <1>1, <1>2
  <2>2. q.hi \in {s.hi : s \in span} /\ \A y \in {s.hi : s \in span} : y <= q.hi
    BY <1>6
  <2> QED BY <2>1, <2>2, GreatestIs
<1>9. ASSUME NEW a \in lo .. hi PROVE \E s \in span : a \in Addrs(s)
  <2>1. a \in Addrs(p) \/ a \in Addrs(b) \/ a \in Addrs(q)
    BY <1>1, <1>2, <1>5, <1>6, <1>7, <1>8 DEF Addrs
  <2> QED BY <2>1, <1>2
<1>10. p.lo \in Int /\ from <= p.lo /\ p.lo <= b.lo /\ b.lo <= b.hi /\ b.lo \in Int
  BY <1>1, <1>2, <1>5
<1>11. q.hi \in Int /\ b.hi <= q.hi /\ q.hi <= to /\ b.hi \in Int
  BY <1>1, <1>2, <1>6
<1>12. from <= lo /\ lo <= hi /\ hi <= to
  BY <1>7, <1>8, <1>10, <1>11
<1>13. \A s \in span : lo <= s.lo /\ s.hi <= hi
  BY <1>5, <1>6, <1>7, <1>8
<1> QED
  BY <1>7, <1>8, <1>9, <1>10, <1>11, <1>12, <1>13

(* timeout: a block that becomes free and swallows its free neighbours leaves  *)
(* a tiling.                                                                   *)
LEMMA TimeoutSoundIn ==
    ASSUME NEW ids, NEW from \in Int, NEW to \in Int, NEW B, SoundIn(B, ids, from, to),
           NEW b \in B
    PROVE  SoundIn(Timeout(B, b), ids, from, to)
<1> DEFINE span == FreeNeighbours(B, b) \cup {b}
           lo == Least({s.lo : s \in span})
           hi == Greatest({s.hi : s \in span})
           n == FreeBlock(lo, hi)
           T == Timeout(B, b)
<1>0. from \in Int /\ to \in Int
  OBVIOUS
<1>1. /\ lo \in Int /\ hi \in Int
      /\ \A s \in span : lo <= s.lo /\ s.hi <= hi
      /\ \A a \in lo .. hi : \E s \in span : a \in Addrs(s)
      /\ from <= lo /\ lo <= hi /\ hi <= to
  BY SpanIsRun
<1>2. span \subseteq B
  BY DEF FreeNeighbours
<1>3. T = (B \ span) \cup {n}
  BY DEF Timeout
<1> HIDE DEF span, lo, hi
<1>4. n \in BlockOf(ids) /\ IsFree(n) /\ n.id = NoId /\ n.left = 0 /\ n.lo = lo /\ n.hi = hi
  BY <1>1 DEF FreeBlock, BlockOf, InUses, IsFree
<1> HIDE DEF n, T
<1>5. WellFormed(T, ids)
  BY <1>3, <1>4 DEF SoundIn, WellFormed
<1>6. \A s \in T : s.lo \in Int /\ s.hi \in Int /\ s.lo <= s.hi /\ from <= s.lo /\ s.hi <= to
  BY <1>1, <1>3, <1>4 DEF SoundIn, Tiles, WellFormed, BlockOf
<1>7. ASSUME NEW a \in from .. to PROVE \E s \in T : a \in Addrs(s)
  <2>1. PICK s \in B : a \in Addrs(s)
    BY DEF SoundIn, Tiles
  <2>2. CASE s \in span
    <3>1. s.lo \in Int /\ s.hi \in Int
      BY DEF SoundIn, WellFormed, BlockOf
    <3>2. a \in Addrs(n)
      BY <2>1, <2>2, <3>1, <1>0, <1>1, <1>4 DEF Addrs
    <3> QED BY <3>2, <1>3
  <2> QED BY <2>1, <2>2, <1>3
<1>8. ASSUME NEW s \in B \ span, NEW a \in Addrs(s) PROVE a \notin lo .. hi
  <2>1. \A t \in span : a \notin Addrs(t)
    BY <1>2, <1>8 DEF SoundIn, Tiles
  <2> QED BY <2>1, <1>1
<1>9. ASSUME NEW s \in T, NEW t \in T, Addrs(s) \cap Addrs(t) # {} PROVE s = t
  <2>1. Addrs(n) = lo .. hi
    BY <1>4 DEF Addrs
  <2>2. CASE s \in B \ span /\ t \in B \ span
    BY <2>2, <1>9 DEF SoundIn, Tiles
  <2> QED BY <2>1, <2>2, <1>3, <1>8, <1>9
<1> QED BY <1>5, <1>6, <1>7, <1>9 DEF T, SoundIn, Tiles

(* A second that passes moves no border.                                       *)
LEMMA ElapseSoundIn ==
    ASSUME NEW ids, NEW from \in Int, NEW to \in Int, NEW B, SoundIn(B, ids, from, to)
    PROVE  SoundIn(Elapse(B), ids, from, to)
<1> DEFINE later(b) == [b EXCEPT !.left = IF b.left > 0 THEN b.left - 1 ELSE 0]
<1>1. Elapse(B) = {later(b) : b \in B}
  BY DEF Elapse
<1>2. ASSUME NEW b \in B
      PROVE  /\ later(b) \in BlockOf(ids) /\ Addrs(later(b)) = Addrs(b)
             /\ later(b).lo = b.lo /\ later(b).hi = b.hi /\ later(b).use = b.use
             /\ later(b).id = b.id /\ (b.left = 0 => later(b).left = 0)
  <2>1. b \in BlockOf(ids)
    BY DEF SoundIn, WellFormed
  <2> QED BY <2>1 DEF BlockOf, Addrs
<1> HIDE DEF later
<1>3. WellFormed(Elapse(B), ids)
  BY <1>1, <1>2 DEF SoundIn, WellFormed, IsFree
<1>4. \A b, c \in B : Addrs(later(b)) \cap Addrs(later(c)) # {} => b = c
  BY <1>2 DEF SoundIn, Tiles
<1> QED BY <1>1, <1>2, <1>3, <1>4 DEF SoundIn, Tiles

----------------------------------------------------------------------------
(* What the operations do to the blocks that somebody holds.                   *)
LEMMA CarveHeld ==
    ASSUME NEW B, NEW c, NEW n, ~IsFree(n)
    PROVE  Held(Carve(B, c, n)) = (Held(B) \ {c}) \cup {n}
<1>1. \A lo, hi : \A r \in Remainder(lo, hi) : IsFree(r)
  BY DEF Remainder, FreeBlock, IsFree
<1> QED BY <1>1 DEF Carve, Held

LEMMA TimeoutHeld ==
    ASSUME NEW B, NEW b \in B
    PROVE  Held(Timeout(B, b)) = Held(B) \ {b}
<1>1. \A lo, hi : IsFree(FreeBlock(lo, hi))
  BY DEF FreeBlock, IsFree
<1>2. \A s \in FreeNeighbours(B, b) : IsFree(s)
  BY DEF FreeNeighbours
<1> QED BY <1>1, <1>2 DEF Timeout, Held

(* A second later the blocks are the same but for their timers.                *)
Later(b) == [b EXCEPT !.left = IF b.left > 0 THEN b.left - 1 ELSE 0]

LEMMA LaterIs ==
    ASSUME NEW ids, NEW b \in BlockOf(ids)
    PROVE  /\ Later(b) \in BlockOf(ids) /\ Addrs(Later(b)) = Addrs(b)
           /\ Later(b).lo = b.lo /\ Later(b).hi = b.hi /\ Later(b).use = b.use
           /\ Later(b).id = b.id
           /\ Later(b).left = (IF b.left > 0 THEN b.left - 1 ELSE 0)
BY DEF Later, BlockOf, Addrs

LEMMA ElapseHeld ==
    ASSUME NEW ids, NEW B, WellFormed(B, ids)
    PROVE  Held(Elapse(B)) = {Later(b) : b \in Held(B)}
<1>1. Elapse(B) = {Later(b) : b \in B}
  BY DEF Elapse, Later
<1>2. \A b \in B : IsFree(Later(b)) = IsFree(b)
  BY LaterIs DEF WellFormed, IsFree
<1> QED BY <1>1, <1>2 DEF Held

----------------------------------------------------------------------------
(* findSet finds addresses of one free block, no more than it is asked for.    *)
LEMMA FoundInFree ==
    ASSUME NEW ids, NEW from \in Int, NEW to \in Int, NEW B, SoundIn(B, ids, from, to),
           NEW count \in Nat \ {0}, NEW f \in FindSet(B, count)
    PROVE  /\ f[1] \in B /\ IsFree(f[1])
           /\ f[2] \in Int /\ f[3] \in Int
           /\ f[1].lo <= f[2] /\ f[2] <= f[3] /\ f[3] <= f[1].hi
           /\ f[3] - f[2] + 1 <= count
<1>0. PICK c \in GetFreeSet(B, 1, count) :
          f \in {<<c, r[1], r[1] + AtMost(r[2], count) - 1>> : r \in FoundIn(c, count)}
  BY DEF FindSet
<1>1. PICK r \in FoundIn(c, count) : f = <<c, r[1], r[1] + AtMost(r[2], count) - 1>>
  BY <1>0
<1>2. c \in B /\ IsFree(c)
  BY DEF GetFreeSet
<1>3. c.lo \in Int /\ c.hi \in Int /\ c.lo <= c.hi
  BY <1>2 DEF SoundIn, WellFormed, BlockOf, Tiles
<1>4. /\ r[1] \in Int /\ r[2] \in Int /\ 1 <= r[2]
      /\ c.lo <= r[1] /\ r[1] + r[2] - 1 <= c.hi
  <2>1. CASE r = <<c.lo, Size(c)>>
    BY <2>1, <1>3 DEF Size
  <2>2. CASE r \in BestRuns(c.lo, c.hi)
    <3>1. /\ r \in (c.lo .. c.hi) \X (1 .. c.hi - c.lo + 1)
          /\ r[1] + r[2] - 1 <= c.hi
      BY <2>2 DEF BestRuns, AlignedRuns
    <3> QED BY <3>1, <1>3
  <2> QED BY <1>1, <2>1, <2>2 DEF FoundIn
<1>5. /\ AtMost(r[2], count) \in Int /\ 1 <= AtMost(r[2], count)
      /\ AtMost(r[2], count) <= r[2] /\ AtMost(r[2], count) <= count
  BY <1>4 DEF AtMost
<1> QED BY <1>1, <1>2, <1>3, <1>4, <1>5

----------------------------------------------------------------------------
(* The block of address a in B.                                           *)
At(B, a) == CHOOSE b \in B : a \in Addrs(b)

LEMMA AtIsIn ==
    ASSUME NEW ids, NEW from \in Int, NEW to \in Int, NEW B, SoundIn(B, ids, from, to),
           NEW b \in B, NEW a \in Addrs(b)
    PROVE  At(B, a) = b
<1>1. \A c \in B : a \in Addrs(c) => c = b
  BY DEF SoundIn, Tiles
<1> QED BY <1>1 DEF At

LEMMA AtInside ==
    ASSUME NEW ids, NEW from \in Int, NEW to \in Int, NEW B, SoundIn(B, ids, from, to),
           NEW a \in from .. to
    PROVE  /\ At(B, a) \in B /\ a \in Addrs(At(B, a))
           /\ At(B, a).id \in ids \cup {NoId}
           /\ IsFree(At(B, a)) => At(B, a).id = NoId
<1>1. PICK b \in B : a \in Addrs(b)
  BY DEF SoundIn, Tiles
<1>2. At(B, a) = b
  BY <1>1, AtIsIn
<1> QED BY <1>1, <1>2 DEF SoundIn, WellFormed, BlockOf

(* The blocks that exclude of lo .. hi opens.                                  *)
Hit(B, lo, hi) == {b \in B : Addrs(b) \cap (lo .. hi) # {}}

(* exclude opens the blocks that the set touches, and no part of the others.   *)
OneRun(B, lo, hi, from, to) ==
    LET first == At(B, lo)
        hit   == Hit(B, lo, hi)
    IN
    /\ first \in hit /\ first.lo \in Int /\ from <= first.lo /\ first.lo <= lo
    /\ \E last \in hit : /\ last.hi \in Int /\ hi <= last.hi /\ last.hi <= to
                         /\ Greatest({b.hi : b \in hit}) = last.hi
                         /\ \A b \in hit : first.lo <= b.lo /\ b.hi <= last.hi
    /\ \A b \in hit : b \in B /\ (b.lo < lo => b = first)
    /\ \A b \in B \ hit : \A a \in Addrs(b) : a < lo \/ hi < a

LEMMA HitIsRun ==
    ASSUME NEW ids, NEW from \in Int, NEW to \in Int, NEW B, SoundIn(B, ids, from, to),
           NEW lo \in Int, NEW hi \in Int, from <= lo, lo <= hi, hi <= to
    PROVE  OneRun(B, lo, hi, from, to)
<1> DEFINE first == At(B, lo)
           hit == Hit(B, lo, hi)
<1>0. from \in Int /\ to \in Int
  OBVIOUS
<1>1. \A b \in B : b.lo \in Int /\ b.hi \in Int /\ b.lo <= b.hi /\ from <= b.lo /\ b.hi <= to
  BY DEF SoundIn, WellFormed, BlockOf, Tiles
<1>2. \A a \in from .. to : \E b \in B : a \in Addrs(b)
  BY DEF SoundIn, Tiles
<1>3. \A b, c \in B, a \in Int : a \in Addrs(b) /\ a \in Addrs(c) => b = c
  BY DEF SoundIn, Tiles
<1>4. first \in B /\ lo \in Addrs(first)
  BY <1>0, AtInside
<1> HIDE DEF first
<1>5. PICK last \in B : hi \in Addrs(last)
  BY <1>0, <1>2
<1>6. first \in hit /\ last \in hit
  BY <1>4, <1>5 DEF Hit
<1>7. first.lo <= lo /\ lo <= first.hi /\ last.lo <= hi /\ hi <= last.hi
  BY <1>1, <1>4, <1>5 DEF Addrs
<1>8. ASSUME NEW b \in hit
      PROVE  /\ b \in B /\ b.lo <= hi /\ lo <= b.hi
             /\ first.lo <= b.lo /\ b.hi <= last.hi /\ (b.lo < lo => b = first)
  <2>1. b \in B
    BY DEF Hit
  <2>2. PICK a \in Int : a \in Addrs(b) /\ lo <= a /\ a <= hi
    BY DEF Hit
  <2>3. b.lo <= hi /\ lo <= b.hi
    BY <1>1, <2>1, <2>2 DEF Addrs
  <2>4. b.lo < lo => lo \in Addrs(b)
    BY <1>1, <2>1, <2>3 DEF Addrs
  <2>5. hi < b.hi => hi \in Addrs(b)
    BY <1>1, <2>1, <2>3 DEF Addrs
  <2>6. b.lo < lo => b = first
    BY <1>3, <1>4, <2>1, <2>4
  <2>7. hi < b.hi => b = last
    BY <1>3, <1>5, <2>1, <2>5
  <2>8. first.lo <= b.lo
    <3>1. CASE b.lo < lo
      BY <3>1, <1>1, <1>4, <2>6
    <3>2. CASE ~(b.lo < lo)
      BY <3>2, <1>1, <1>4, <1>7, <2>1
    <3> QED BY <3>1, <3>2
  <2>9. b.hi <= last.hi
    BY <1>1, <1>5, <1>7, <2>1, <2>7
  <2> QED BY <2>1, <2>3, <2>6, <2>8, <2>9
<1>9. Greatest({b.hi : b \in hit}) = last.hi
  <2>1. {b.hi : b \in hit} \in SUBSET Int
    BY <1>1, <1>8
  <2>2. last.hi \in {b.hi : b \in hit} /\ \A y \in {b.hi : b \in hit} : y <= last.hi
    BY <1>6, <1>8
  <2> QED BY <2>1, <2>2, GreatestIs
<1>10. ASSUME NEW b \in B \ hit, NEW a \in Addrs(b) PROVE a < lo \/ hi < a
  <2>1. a \in Int
    BY <1>1 DEF Addrs
  <2>2. a \notin lo .. hi
    BY DEF Hit
  <2> QED BY <2>1, <2>2
<1>11. last.hi \in Int /\ last.hi <= to /\ first.lo \in Int /\ from <= first.lo
  BY <1>1, <1>4, <1>5
<1> QED BY <1>6, <1>7, <1>8, <1>9, <1>10, <1>11 DEF first, OneRun

(* exclude leaves a tiling, and changes the timer of nothing but the set.      *)
LEMMA ExcludeSoundIn ==
    ASSUME NEW ids, NEW from \in Int, NEW to \in Int, NEW B, SoundIn(B, ids, from, to),
           NEW lo \in Int, NEW hi \in Int, from <= lo, lo <= hi, hi <= to,
           NEW life \in Nat
    PROVE  /\ SoundIn(Exclude(B, lo, hi, life), ids, from, to)
           /\ \A b \in Held(Exclude(B, lo, hi, life)) :
                 \/ b.lo = lo /\ b.hi = hi /\ b.left - life \in {-1, 0, 1}
                 \/ b \in Held(B) /\ \A a \in Addrs(b) : a < lo \/ hi < a
<1> DEFINE first == At(B, lo)
           hit == Hit(B, lo, hi)
           kept == IF first.left - life \in {-1, 0, 1} THEN first.left ELSE life
           same == [first EXCEPT !.left = kept]
           n == HeldBlock(lo, hi, "excluded", NoId, life)
           before == Remainder(first.lo, lo - 1)
           after == Remainder(hi + 1, Greatest({b.hi : b \in hit}))
           E == Exclude(B, lo, hi, life)
           exact == ~IsFree(first) /\ first.lo = lo /\ first.hi = hi
<1>0. from \in Int /\ to \in Int
  OBVIOUS
<1>1. E = IF exact THEN (B \ {first}) \cup {same}
          ELSE (B \ hit) \cup before \cup {n} \cup after
  BY DEF Exclude, At, Hit
<1> HIDE DEF E
<1>2. /\ first \in hit /\ first.lo \in Int /\ from <= first.lo /\ first.lo <= lo
      /\ \E last \in hit : /\ last.hi \in Int /\ hi <= last.hi /\ last.hi <= to
                           /\ Greatest({b.hi : b \in hit}) = last.hi
                           /\ \A b \in hit : first.lo <= b.lo /\ b.hi <= last.hi
      /\ \A b \in hit : b \in B /\ (b.lo < lo => b = first)
      /\ \A b \in B \ hit : \A a \in Addrs(b) : a < lo \/ hi < a
  <2>1. OneRun(B, lo, hi, from, to)
    BY HitIsRun
  <2> QED BY <2>1 DEF OneRun
<1> HIDE DEF first, hit
<1>3. \A b \in B : b \in BlockOf(ids) /\ b.lo \in Int /\ b.hi \in Int /\ b.left \in Nat
                   /\ b.lo <= b.hi /\ from <= b.lo /\ b.hi <= to
  BY DEF SoundIn, WellFormed, BlockOf, Tiles
<1>4. CASE exact
  <2>1. first \in B /\ kept \in Nat /\ kept - life \in {-1, 0, 1}
    BY <1>2, <1>3
  <2>2. /\ same \in BlockOf(ids) /\ same.lo = first.lo /\ same.hi = first.hi
        /\ same.use = first.use /\ same.left = kept /\ Addrs(same) = Addrs(first)
        /\ ~IsFree(same)
    BY <1>3, <1>4, <2>1 DEF BlockOf, Addrs, IsFree
  <2> HIDE DEF same, kept
  <2>3. E = (B \ {first}) \cup {same}
    BY <1>1, <1>4
  <2>4. WellFormed(E, ids)
    BY <2>2, <2>3 DEF SoundIn, WellFormed
  <2>5. \A b \in B \ {first} : Addrs(b) \cap Addrs(first) = {}
    BY <2>1 DEF SoundIn, Tiles
  <2>6. Tiles(E, from, to)
    BY <1>3, <2>1, <2>2, <2>3, <2>5 DEF SoundIn, Tiles
  <2>7. ASSUME NEW b \in Held(E)
        PROVE  \/ b.lo = lo /\ b.hi = hi /\ b.left - life \in {-1, 0, 1}
               \/ b \in Held(B) /\ \A a \in Addrs(b) : a < lo \/ hi < a
    <3>1. CASE b = same
      BY <3>1, <1>4, <2>1, <2>2
    <3>2. CASE b \in B \ {first}
      <4>1. b \in Held(B)
        BY <2>7, <3>2 DEF Held
      <4>2. ASSUME NEW a \in Addrs(b) PROVE a < lo \/ hi < a
        BY <1>3, <1>4, <2>5, <3>2 DEF Addrs
      <4> QED BY <4>1, <4>2
    <3> QED BY <2>3, <2>7, <3>1, <3>2 DEF Held
  <2> QED BY <2>4, <2>6, <2>7 DEF SoundIn, E
<1>5. CASE ~exact
  <2>1. PICK last \in hit : /\ last.hi \in Int /\ hi <= last.hi /\ last.hi <= to
                            /\ Greatest({b.hi : b \in hit}) = last.hi
                            /\ \A b \in hit : first.lo <= b.lo /\ b.hi <= last.hi
    BY <1>2
  <2>2. \A r \in before : r \in BlockOf(ids) /\ IsFree(r) /\ r.id = NoId /\ r.left = 0
                          /\ r.lo = first.lo /\ r.hi = lo - 1 /\ first.lo <= lo - 1
    BY <1>2, RemainderFormed
  <2>3. \A r \in after : r \in BlockOf(ids) /\ IsFree(r) /\ r.id = NoId /\ r.left = 0
                         /\ r.lo = hi + 1 /\ r.hi = last.hi /\ hi + 1 <= last.hi
    BY <2>1, RemainderFormed
  <2>4. /\ \A r, s \in before : r = s
        /\ \A r, s \in after : r = s
    BY DEF Remainder
  <2>5. n \in BlockOf(ids) /\ ~IsFree(n) /\ n.lo = lo /\ n.hi = hi /\ n.left = life
    BY DEF HeldBlock, BlockOf, InUses, IsFree
  <2>6. first.lo < lo => FreeBlock(first.lo, lo - 1) \in before
    BY <1>2 DEF Remainder
  <2>7. hi < last.hi => FreeBlock(hi + 1, last.hi) \in after
    BY <2>1 DEF Remainder
  <2>8. E = (B \ hit) \cup before \cup {n} \cup after
    BY <1>1, <1>5
  <2> HIDE DEF n, before, after
  <2>9. WellFormed(E, ids)
    BY <2>2, <2>3, <2>5, <2>8 DEF SoundIn, WellFormed
  <2>10. \A b \in E : b.lo \in Int /\ b.hi \in Int /\ b.lo <= b.hi /\ from <= b.lo /\ b.hi <= to
    BY <1>0, <1>2, <1>3, <2>1, <2>2, <2>3, <2>5, <2>8
  <2>11. ASSUME NEW b \in hit, NEW a \in Addrs(b)
         PROVE  a \in Int /\ first.lo <= a /\ a <= last.hi
    BY <1>2, <1>3, <2>1 DEF Addrs
  <2>12. ASSUME NEW a \in from .. to PROVE \E b \in E : a \in Addrs(b)
    <3>1. PICK b \in B : a \in Addrs(b)
      BY DEF SoundIn, Tiles
    <3>2. CASE b \notin hit
      BY <3>1, <3>2, <2>8
    <3>3. CASE b \in hit /\ a < lo
      <4>1. a \in Addrs(FreeBlock(first.lo, lo - 1)) /\ first.lo < lo
        BY <1>2, <2>11, <3>1, <3>3 DEF FreeBlock, Addrs
      <4> QED BY <4>1, <2>6, <2>8
    <3>4. CASE b \in hit /\ hi < a
      <4>1. a \in Addrs(FreeBlock(hi + 1, last.hi)) /\ hi < last.hi
        BY <2>1, <2>11, <3>1, <3>4 DEF FreeBlock, Addrs
      <4> QED BY <4>1, <2>7, <2>8
    <3>5. CASE lo <= a /\ a <= hi
      BY <3>5, <1>0, <2>5, <2>8 DEF Addrs
    <3> QED BY <3>2, <3>3, <3>4, <3>5, <1>0
  <2>13. ASSUME NEW b \in B \ hit, NEW a \in Addrs(b) PROVE ~(first.lo <= a /\ a <= last.hi)
    <3> SUFFICES ASSUME first.lo <= a, a <= last.hi PROVE FALSE
      OBVIOUS
    <3>1. a \in Int /\ (a < lo \/ hi < a)
      BY <1>2, <1>3, <2>13 DEF Addrs
    <3>2. CASE a < lo
      <4>1. lo \in Addrs(first)
        BY <1>0, AtInside DEF first
      <4>2. a \in Addrs(first)
        BY <4>1, <3>1, <3>2, <1>2, <1>3 DEF Addrs
      <4> QED BY <4>2, <1>2, <2>13 DEF SoundIn, Tiles
    <3>3. CASE hi < a
      <4>1. last.lo <= hi
        <5>1. PICK x \in Int : x \in Addrs(last) /\ x <= hi
          BY <2>1 DEF hit, Hit
        <5> QED BY <5>1, <1>2, <1>3, <2>1 DEF Addrs
      <4>2. a \in Addrs(last)
        BY <4>1, <3>1, <3>3, <1>2, <1>3, <2>1 DEF Addrs
      <4> QED BY <4>2, <1>2, <2>1, <2>13 DEF SoundIn, Tiles
    <3> QED BY <3>1, <3>2, <3>3
  <2>14. \A r \in before \cup {n} \cup after : first.lo <= r.lo /\ r.hi <= last.hi
    BY <1>2, <2>1, <2>2, <2>3, <2>5
  <2>15. ASSUME NEW b \in E, NEW d \in E, Addrs(b) \cap Addrs(d) # {} PROVE b = d
    <3>1. PICK a \in Int : a \in Addrs(b) /\ a \in Addrs(d)
      BY <2>10, <2>15 DEF Addrs
    <3>2. \A e \in before \cup {n} \cup after :
              a \in Addrs(e) => first.lo <= a /\ a <= last.hi
      BY <1>2, <2>1, <2>8, <2>10, <2>14 DEF Addrs
    <3>3. CASE b \in B \ hit /\ d \in B \ hit
      BY <3>1, <3>3 DEF SoundIn, Tiles
    <3>4. CASE b \in B \ hit /\ d \notin B \ hit
      BY <3>1, <3>2, <3>4, <2>8, <2>13
    <3>5. CASE b \notin B \ hit /\ d \in B \ hit
      BY <3>1, <3>2, <3>5, <2>8, <2>13
    <3>6. CASE b \notin B \ hit /\ d \notin B \ hit
      <4>1. b.lo <= a /\ a <= b.hi /\ d.lo <= a /\ a <= d.hi
        BY <2>10, <3>1 DEF Addrs
      <4> QED BY <4>1, <3>6, <2>2, <2>3, <2>4, <2>5, <2>8
    <3> QED BY <3>3, <3>4, <3>5, <3>6
  <2>16. Tiles(E, from, to)
    BY <2>10, <2>12, <2>15 DEF Tiles
  <2>17. ASSUME NEW b \in Held(E)
         PROVE  \/ b.lo = lo /\ b.hi = hi /\ b.left - life \in {-1, 0, 1}
                \/ b \in Held(B) /\ \A a \in Addrs(b) : a < lo \/ hi < a
    <3>1. CASE b = n
      BY <3>1, <2>5
    <3>2. CASE b \in B \ hit
      BY <3>2, <2>17, <1>2 DEF Held
    <3> QED BY <3>1, <3>2, <2>2, <2>3, <2>8, <2>17 DEF Held
  <2> QED BY <2>9, <2>16, <2>17 DEF SoundIn, E
<1> QED BY <1>4, <1>5
=============================================================================
