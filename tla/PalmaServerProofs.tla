---------------------------- MODULE PalmaServerProofs ----------------------------
(* What each handler and timer of the server does to what is held in its       *)
(* databases, and that they stay sound, for any pools, lifetimes and sizes.    *)
EXTENDS PalmaServer, AddressBlockProofs

(* sendOffer then never rounds a block in the database.                        *)
FitsTheWire == \A k \in Kinds : MaxAddr[k] <= WireMax

Sound(k, B) == SoundIn(B, SecurityIds, Pool[k][1], Pool[k][2])
H(k) == Held(blocks[k])

Databases == /\ blocks \in [Kinds -> SUBSET BlockOf(SecurityIds)]
             /\ \A k \in Kinds : Sound(k, blocks[k])

----------------------------------------------------------------------------
LEMMA PoolIs ==
    ASSUME NEW k \in Kinds
    PROVE  Pool[k][1] \in Int /\ Pool[k][2] \in Int /\ Pool[k][1] <= Pool[k][2]
BY KindsAssumption

LEMMA BlocksAre ==
    ASSUME NEW k \in Kinds, NEW B, Sound(k, B), NEW b \in B
    PROVE  /\ b \in BlockOf(SecurityIds) /\ b.lo \in Int /\ b.hi \in Int /\ b.left \in Nat
           /\ b.lo <= b.hi
BY DEF Sound, SoundIn, WellFormed, Tiles, BlockOf

LEMMA OneBlock ==
    ASSUME NEW k \in Kinds, NEW B, Sound(k, B), NEW b \in B, NEW c \in B, NEW a,
           a \in Addrs(b), a \in Addrs(c)
    PROVE  b = c
BY DEF Sound, SoundIn, Tiles

LEMMA BlockAtIs ==
    ASSUME NEW k \in Kinds, NEW B, Sound(k, B), NEW b \in B, NEW a \in Addrs(b)
    PROVE  BlockAt(B, a) = b
<1>1. \A c \in B : a \in Addrs(c) => c = b
  BY OneBlock
<1> QED BY <1>1 DEF BlockAt

LEMMA BlockAtIn ==
    ASSUME NEW k \in Kinds, NEW B, Sound(k, B), NEW a, InPool(a, k)
    PROVE  BlockAt(B, a) \in B /\ a \in Addrs(BlockAt(B, a))
<1>1. PICK b \in B : a \in Addrs(b)
  BY DEF Sound, SoundIn, Tiles, InPool
<1> QED BY <1>1, BlockAtIs

LEMMA CutIs ==
    ASSUME NEW lo \in Int, NEW hi \in Int, NEW id \in SecurityIds, NEW life \in Nat,
           NEW use \in {"reserved", "assigned"},
           NEW n, n = HeldBlock(lo, hi, use, id, life)
    PROVE  /\ n \in BlockOf(SecurityIds) /\ ~IsFree(n)
           /\ n.lo = lo /\ n.hi = hi /\ n.use = use /\ n.id = id /\ n.left = life
BY DEF HeldBlock, BlockOf, InUses, IsFree

LEMMA IdsAre ==
    ASSUME NEW s \in Sessions, NEW src \in Int
    PROVE  /\ ReservedId(s) \in SecurityIds /\ AssignedId(s, src) \in SecurityIds
           /\ ReservedId(s) # NoId /\ AssignedId(s, src) # NoId
BY IdsAssumption DEF SecurityIds, ReservedId, AssignedId

(* A block cut out of one that contains it.                                    *)
LEMMA CutSound ==
    ASSUME NEW k \in Kinds, NEW B, Sound(k, B), NEW c \in B,
           NEW lo \in Int, NEW hi \in Int, c.lo <= lo, lo <= hi, hi <= c.hi,
           NEW id \in SecurityIds, NEW life \in Nat, NEW use \in {"reserved", "assigned"},
           NEW n, n = HeldBlock(lo, hi, use, id, life)
    PROVE  /\ Sound(k, Carve(B, c, n))
           /\ Held(Carve(B, c, n)) = (Held(B) \ {c}) \cup {n}
           /\ n \in Carve(B, c, n)
<1>1. n \in BlockOf(SecurityIds) /\ ~IsFree(n) /\ n.lo = lo /\ n.hi = hi
  BY CutIs
<1>2. Sound(k, Carve(B, c, n))
  BY <1>1, PoolIs, CarveSoundIn DEF Sound
<1> QED BY <1>1, <1>2, CarveHeld DEF Carve

----------------------------------------------------------------------------
(* What a claim finds and reserves.                                            *)
Reservation(s, n) ==
    /\ n.use = "reserved" /\ n.id = ReservedId(s) /\ n.left = ReserveLife
    /\ n.lo \in Int /\ n.hi \in Int /\ n.lo <= n.hi

LEMMA ReserveSound ==
    ASSUME NEW k \in Kinds, NEW B, Sound(k, B), NEW s \in Sessions,
           NEW count \in Nat \ {0}, count <= WireMax, NEW f \in FindSet(B, count),
           NEW n, n = HeldBlock(f[2], f[3], "reserved", ReservedId(s), ReserveLife)
    PROVE  /\ n \in BlockOf(SecurityIds) /\ Reservation(s, n) /\ n.lo = f[2] /\ n.hi = f[3]
           /\ n.hi - n.lo + 1 <= count
           /\ Sound(k, Carve(B, f[1], n))
           /\ Held(Carve(B, f[1], n)) = Held(B) \cup {n} /\ n \notin B
           /\ n \in Carve(B, f[1], n)
           /\ OnWire(n) = n /\ CarveOnWire(B, f[1], n) = Carve(B, f[1], n)
<1>1. /\ f[1] \in B /\ IsFree(f[1]) /\ f[2] \in Int /\ f[3] \in Int
      /\ f[1].lo <= f[2] /\ f[2] <= f[3] /\ f[3] <= f[1].hi /\ f[3] - f[2] + 1 <= count
  BY PoolIs, FoundInFree DEF Sound
<1>2. ReservedId(s) \in SecurityIds /\ ReserveLife \in Nat
  BY KindsAssumption DEF SecurityIds
<1>3. /\ n \in BlockOf(SecurityIds) /\ ~IsFree(n)
      /\ n.lo = f[2] /\ n.hi = f[3] /\ n.use = "reserved" /\ n.id = ReservedId(s)
      /\ n.left = ReserveLife
  BY <1>1, <1>2 DEF HeldBlock, BlockOf, InUses, IsFree
<1>4. /\ Sound(k, Carve(B, f[1], n)) /\ n \in Carve(B, f[1], n)
      /\ Held(Carve(B, f[1], n)) = (Held(B) \ {f[1]}) \cup {n}
  BY <1>1, <1>2, CutSound
<1>5. f[1] \notin Held(B)
  BY <1>1 DEF Held
<1>6. n \notin B
  <2> SUFFICES ASSUME n \in B PROVE FALSE
    OBVIOUS
  <2>1. f[2] \in Addrs(n) /\ f[2] \in Addrs(f[1])
    BY <1>1, <1>3, BlocksAre DEF Addrs
  <2>2. n = f[1]
    BY <2>1, <1>1, OneBlock
  <2> QED BY <2>2, <1>1, <1>3
<1>7. OnWire(n) = n
  <2>1. Size(n) <= WireMax
    BY <1>1, <1>3, SizesAssumption DEF Size
  <2> QED BY <2>1 DEF OnWire
<1>8. CarveOnWire(B, f[1], n) = Carve(B, f[1], n)
  BY <1>4, <1>7 DEF CarveOnWire
<1> QED BY <1>1, <1>3, <1>4, <1>5, <1>6, <1>7, <1>8 DEF Reservation

IsClaim(m) == m.kind \in Kinds /\ m.ses \in Sessions /\ m.size \in Nat \ {0}

(* processClaim reserves a set, and an address beside it where it is needed,   *)
(* and offers just that, or it leaves all as it was.                           *)
Claims(m, n, g) ==
    /\ Reservation(m.ses, n) /\ Reservation(m.ses, g) /\ g.lo = g.hi
    /\ n.hi - n.lo + 1 <= MaxAddr[m.kind]
    /\ sent' = sent \cup {Offer(m, n, IF NeedsAddr(m) THEN g.lo ELSE 0)}
    /\ \A k \in Kinds :
          Held(blocks'[k]) = H(k) \cup (IF k = m.kind THEN {n} ELSE {})
                                 \cup (IF k = "unicast" /\ NeedsAddr(m) THEN {g} ELSE {})

LEMMA ClaimEffect ==
    ASSUME FitsTheWire, Databases, NEW m, IsClaim(m), processClaim(m)
    PROVE  /\ Databases' /\ UNCHANGED <<conf, up>>
           /\ \/ UNCHANGED sent /\ \A k \in Kinds : Held(blocks'[k]) = H(k)
              \/ \E n, g \in BlockOf(SecurityIds) : Claims(m, n, g)
<1> DEFINE count == AtMost(MaxAddr[m.kind], m.size)
           k == m.kind
<1>1. /\ count \in Nat \ {0} /\ count <= WireMax /\ 1 \in Nat \ {0} /\ 1 <= WireMax
      /\ count <= MaxAddr[k] /\ MaxAddr[k] \in Nat
  BY KindsAssumption, SizesAssumption DEF processClaim, IsClaim, AtMost, FitsTheWire
<1>2. k \in Kinds /\ "unicast" \in Kinds /\ m.ses \in Sessions
  BY KindsAssumption DEF IsClaim
<1>3. \A j \in Kinds : Sound(j, blocks[j])
  BY DEF Databases
<1>4. \A j \in Kinds : \A B : Sound(j, B) => B \in SUBSET BlockOf(SecurityIds)
  BY DEF Sound, SoundIn, WellFormed
<1>5. ASSUME NEW f \in Claimed(m), NEW n, n = Reserved(m, f)
      PROVE  /\ n \in BlockOf(SecurityIds) /\ Reservation(m.ses, n)
             /\ n.hi - n.lo + 1 <= MaxAddr[k]
             /\ Sound(k, Carve(blocks[k], f[1], n))
             /\ Held(Carve(blocks[k], f[1], n)) = H(k) \cup {n} /\ n \notin blocks[k]
             /\ n \in Carve(blocks[k], f[1], n)
             /\ OnWire(n) = n /\ CarveOnWire(blocks[k], f[1], n) = Carve(blocks[k], f[1], n)
  <2>1. f \in FindSet(blocks[k], count)
    BY DEF Claimed
  <2>2. n = HeldBlock(f[2], f[3], "reserved", ReservedId(m.ses), ReserveLife)
    BY <1>5 DEF Reserved
  <2>3. Sound(k, blocks[k])
    BY <1>2, <1>3
  <2> HIDE DEF count, k
  <2>4. /\ n \in BlockOf(SecurityIds) /\ Reservation(m.ses, n)
        /\ n.hi - n.lo + 1 <= count
        /\ Sound(k, Carve(blocks[k], f[1], n))
        /\ Held(Carve(blocks[k], f[1], n)) = H(k) \cup {n} /\ n \notin blocks[k]
        /\ n \in Carve(blocks[k], f[1], n)
        /\ OnWire(n) = n /\ CarveOnWire(blocks[k], f[1], n) = Carve(blocks[k], f[1], n)
    <3>1. PICK B : B = blocks[k]
      OBVIOUS
    <3>2. Sound(k, B) /\ f \in FindSet(B, count)
      BY <2>1, <2>3, <3>1
    <3>3. /\ n \in BlockOf(SecurityIds) /\ Reservation(m.ses, n)
          /\ n.hi - n.lo + 1 <= count
          /\ Sound(k, Carve(B, f[1], n))
          /\ Held(Carve(B, f[1], n)) = Held(B) \cup {n} /\ n \notin B
          /\ n \in Carve(B, f[1], n)
          /\ OnWire(n) = n /\ CarveOnWire(B, f[1], n) = Carve(B, f[1], n)
      BY <2>2, <3>2, <1>1, <1>2, ReserveSound
    <3> QED BY <3>1, <3>3 DEF H
  <2>5. n.hi - n.lo + 1 <= MaxAddr[k]
    <3>1. n.hi \in Int /\ n.lo \in Int
      BY <2>4 DEF Reservation
    <3> QED BY <2>4, <3>1, <1>1
  <2> QED BY <2>4, <2>5
<1>6. CASE OfferSet(m)
  <2>1. PICK f \in Claimed(m) :
            /\ blocks' = [blocks EXCEPT ![k] = CarveOnWire(@, f[1], Reserved(m, f))]
            /\ sent' = sent \cup {Offer(m, OnWire(Reserved(m, f)), 0)}
    BY <1>6 DEF OfferSet
  <2> DEFINE n == Reserved(m, f)
             B == Carve(blocks[k], f[1], n)
  <2>2. /\ n \in BlockOf(SecurityIds) /\ Reservation(m.ses, n) /\ Sound(k, B)
        /\ n.hi - n.lo + 1 <= MaxAddr[k]
        /\ Held(B) = H(k) \cup {n} /\ OnWire(n) = n /\ CarveOnWire(blocks[k], f[1], n) = B
    BY <1>5
  <2> HIDE DEF n, B
  <2>3. blocks' = [blocks EXCEPT ![k] = B] /\ sent' = sent \cup {Offer(m, n, 0)}
    BY <2>1, <2>2 DEF n
  <2>4. /\ Databases' /\ blocks'[k] = B
        /\ \A j \in Kinds \ {k} : blocks'[j] = blocks[j]
    BY <2>2, <2>3, <1>2, <1>3, <1>4 DEF Databases
  <2>5. ~NeedsAddr(m)
    BY <1>6 DEF OfferSet
  <2>6. PICK h \in BlockOf(SecurityIds) : Reservation(m.ses, h) /\ h.lo = h.hi
    <3> DEFINE h == HeldBlock(0, 0, "reserved", ReservedId(m.ses), ReserveLife)
    <3>1. h \in BlockOf(SecurityIds) /\ Reservation(m.ses, h) /\ h.lo = h.hi
      BY <1>2, KindsAssumption DEF HeldBlock, BlockOf, InUses, Reservation, SecurityIds
    <3> QED BY <3>1
  <2>7. Claims(m, n, h)
    BY <2>2, <2>3, <2>4, <2>5, <2>6 DEF Claims, H
  <2> QED BY <2>2, <2>4, <2>7, <1>6 DEF processClaim
<1>7. CASE OfferSetAndAddr(m)
  <2>1. PICK f \in Claimed(m), e \in FindSet(blocks["unicast"], 1) :
            /\ blocks' = [blocks EXCEPT
                   ![k] = CarveOnWire(@, f[1], Reserved(m, f)),
                   !["unicast"] = Carve(@, e[1], Reserved(m, e))]
            /\ sent' = sent \cup {Offer(m, OnWire(Reserved(m, f)), e[2])}
    BY <1>7 DEF OfferSetAndAddr
  <2> DEFINE n == Reserved(m, f)
             g == Reserved(m, e)
             B == Carve(blocks[k], f[1], n)
             C == Carve(blocks["unicast"], e[1], g)
  <2>2. /\ n \in BlockOf(SecurityIds) /\ Reservation(m.ses, n) /\ Sound(k, B)
        /\ n.hi - n.lo + 1 <= MaxAddr[k]
        /\ Held(B) = H(k) \cup {n} /\ OnWire(n) = n /\ CarveOnWire(blocks[k], f[1], n) = B
    BY <1>5
  <2>3. /\ g \in BlockOf(SecurityIds) /\ Reservation(m.ses, g) /\ g.lo = e[2]
        /\ g.hi - g.lo + 1 <= 1 /\ Sound("unicast", C) /\ Held(C) = H("unicast") \cup {g}
    BY <1>1, <1>2, <1>3, ReserveSound DEF Reserved, H
  <2> HIDE DEF n, g, B, C
  <2>4. g.lo = g.hi
    BY <2>3 DEF Reservation
  <2>5. NeedsAddr(m) /\ k # "unicast"
    BY <1>7 DEF OfferSetAndAddr, NeedsAddr
  <2>6. /\ blocks' = [blocks EXCEPT ![k] = B, !["unicast"] = C]
        /\ sent' = sent \cup {Offer(m, n, g.lo)}
    BY <2>1, <2>2, <2>3, <2>5 DEF n, g, C
  <2>7. /\ Databases' /\ blocks'[k] = B /\ blocks'["unicast"] = C
        /\ \A j \in Kinds \ {k, "unicast"} : blocks'[j] = blocks[j]
    BY <2>2, <2>3, <2>5, <2>6, <1>2, <1>3, <1>4 DEF Databases
  <2>8. Claims(m, n, g)
    BY <2>2, <2>3, <2>4, <2>5, <2>6, <2>7 DEF Claims, H
  <2> QED BY <2>2, <2>3, <2>7, <2>8, <1>7 DEF processClaim
<1>8. CASE TakeBack(m)
  <2>1. PICK f \in Claimed(m) :
            blocks' = [blocks EXCEPT
                ![k] = Timeout(Carve(@, f[1], Reserved(m, f)), Reserved(m, f))]
    BY <1>8 DEF TakeBack
  <2> DEFINE n == Reserved(m, f)
             B == Carve(blocks[k], f[1], n)
             C == Timeout(B, n)
  <2>2. Sound(k, B) /\ Held(B) = H(k) \cup {n} /\ n \notin blocks[k] /\ n \in B
    BY <1>5
  <2> HIDE DEF n, B
  <2>3. Sound(k, C)
    BY <2>2, <1>2, PoolIs, TimeoutSoundIn DEF Sound
  <2>4. Held(C) = H(k)
    BY <2>2, TimeoutHeld DEF H, Held
  <2>5. blocks' = [blocks EXCEPT ![k] = C]
    BY <2>1 DEF n, B
  <2> HIDE DEF C
  <2>6. /\ Databases' /\ blocks'[k] = C
        /\ \A j \in Kinds \ {k} : blocks'[j] = blocks[j]
    BY <2>3, <2>5, <1>2, <1>3, <1>4 DEF Databases
  <2> QED BY <2>4, <2>6, <1>8 DEF H, TakeBack, processClaim
<1> QED BY <1>6, <1>7, <1>8 DEF processClaim

----------------------------------------------------------------------------
(* What a REQUEST that is not refused finds and leases.                        *)
Requests == [ses : Sessions, src : Int, kind : Kinds, lo : Int, hi : Int, renewal : BOOLEAN]
IsRequest(m) == m \in Requests /\ m.lo <= m.hi

LEMMA AskedIs ==
    ASSUME FitsTheWire, NEW m, IsRequest(m), ~SourceRefused(m)
    PROVE  /\ LastAsked(m) \in Int /\ m.lo <= LastAsked(m) /\ LastAsked(m) <= m.hi
           /\ LastAsked(m) - m.lo + 1 <= MaxAddr[m.kind] /\ MaxAddr[m.kind] <= WireMax
BY KindsAssumption DEF IsRequest, Requests, SourceRefused, LastAsked, TooLarge, FitsTheWire

LEMMA CountedIs ==
    ASSUME NEW lo \in Int, NEW hi \in Int, lo <= hi, hi - lo + 1 <= WireMax
    PROVE  LastCounted(lo, hi) = hi
<1> DEFINE x == hi - lo + 1
           y == WireMax + 1
<1>1. x \in Nat /\ y \in Nat /\ x < y
  BY SizesAssumption
<1>2. x % y = x
  <2> HIDE DEF x, y
  <2> QED BY <1>1
<1> QED BY <1>2 DEF LastCounted

SourceLease(m) ==
    HeldBlock(m.src, m.src, "assigned", AssignedId(m.ses, m.src), Lifetime[m.kind] + 1)
(* What is held of kind k when the source is leased and the set is not yet.    *)
Middle(m, k) == IF k = "unicast" /\ SourceApart(m)
                THEN (H(k) \ {SourceBlock(m)}) \cup {SourceLease(m)}
                ELSE H(k)

LEMMA SourceIs ==
    ASSUME Databases, NEW m, IsRequest(m), ~SourceRefused(m), SourceInPool(m)
    PROVE  /\ SourceBlock(m) \in blocks["unicast"] /\ m.src \in Addrs(SourceBlock(m))
           /\ ReservedFor(m, SourceBlock(m)) \/ LeasedBy(m, SourceBlock(m))
           /\ ~IsFree(SourceBlock(m))
<1>1. "unicast" \in Kinds
  BY KindsAssumption
<1>2. SourceBlock(m) \in blocks["unicast"] /\ m.src \in Addrs(SourceBlock(m))
  BY <1>1, BlockAtIn DEF SourceBlock, SourceInPool, Databases
<1>3. ReservedFor(m, SourceBlock(m)) \/ LeasedBy(m, SourceBlock(m))
  BY DEF SourceRefused
<1> QED BY <1>2, <1>3 DEF ReservedFor, LeasedBy, IsFree

LEMMA LeaseIs ==
    ASSUME NEW m, IsRequest(m)
    PROVE  /\ AssignedId(m.ses, m.src) \in SecurityIds
           /\ Lifetime[m.kind] \in Nat /\ Lifetime[m.kind] + 1 \in Nat
           /\ m.src \in Int /\ m.lo \in Int /\ m.hi \in Int /\ m.kind \in Kinds
           /\ m.ses \in Sessions
BY KindsAssumption DEF IsRequest, Requests, AssignedId, SecurityIds

LEMMA SourceEffect ==
    ASSUME Databases, NEW m, IsRequest(m), ~SourceRefused(m)
    PROVE  /\ WithSource(m) \in [Kinds -> SUBSET BlockOf(SecurityIds)]
           /\ \A k \in Kinds : /\ Sound(k, WithSource(m)[k])
                               /\ Held(WithSource(m)[k]) = Middle(m, k)
           /\ \A k \in Kinds : \A b \in blocks[k] :
                 b \in WithSource(m)[k] \/ (k = "unicast" /\ SourceApart(m) /\ b = SourceBlock(m))
<1>1. CASE ~SourceApart(m)
  BY <1>1 DEF WithSource, Middle, Databases, H
<1>2. CASE SourceApart(m)
  <2> DEFINE c == SourceBlock(m)
             n == SourceLease(m)
             B == Carve(blocks["unicast"], c, n)
             W == WithSource(m)
  <2>1. c \in blocks["unicast"] /\ m.src \in Addrs(c)
    BY <1>2, SourceIs DEF SourceApart
  <2>2. "unicast" \in Kinds /\ Sound("unicast", blocks["unicast"])
    BY KindsAssumption DEF Databases
  <2>3. m.src \in Int /\ c.lo <= m.src /\ m.src <= c.hi
    BY <2>1, <2>2, BlocksAre, LeaseIs DEF Addrs
  <2>4. Sound("unicast", B) /\ Held(B) = (H("unicast") \ {c}) \cup {n}
    BY <2>1, <2>2, <2>3, LeaseIs, CutSound DEF SourceLease, H
  <2>5. W = [blocks EXCEPT !["unicast"] = B]
    BY <1>2 DEF WithSource, AssignIn, SourceLease
  <2>6. \A b \in blocks["unicast"] : b \in B \/ b = c
    BY DEF Carve
  <2> HIDE DEF c, n, B, W
  <2>7. B \in SUBSET BlockOf(SecurityIds)
    BY <2>4 DEF Sound, SoundIn, WellFormed
  <2>8. /\ W \in [Kinds -> SUBSET BlockOf(SecurityIds)] /\ W["unicast"] = B
        /\ \A k \in Kinds \ {"unicast"} : W[k] = blocks[k]
    BY <2>2, <2>5, <2>7 DEF Databases
  <2>9. /\ Middle(m, "unicast") = (H("unicast") \ {c}) \cup {n}
        /\ \A k \in Kinds \ {"unicast"} : Middle(m, k) = H(k)
    BY <1>2 DEF Middle, c, n
  <2> QED BY <2>2, <2>4, <2>6, <2>8, <2>9, <1>2 DEF W, c, Databases, H
<1> QED BY <1>1, <1>2

(* The set that a REQUEST leases, out of block b.                              *)
Leases(m, b, n) ==
    /\ ~SourceRefused(m) /\ b.lo <= n.lo /\ n.lo <= n.hi /\ n.hi <= b.hi
    /\ n = HeldBlock(n.lo, n.hi, "assigned", AssignedId(m.ses, m.src), Lifetime[m.kind] + 1)
    /\ \/ MayTake(m, b) /\ b \in Asked(m) /\ n.lo = m.lo /\ n.hi = LastAsked(m)
       \/ Unavailable(m) /\ IsFree(b) /\ n.hi - n.lo <= LastAsked(m) - m.lo
    /\ sent' = sent \cup {Ack(m, n.lo, n.hi, Lifetime[m.kind])}
    /\ \A k \in Kinds : Held(blocks'[k]) =
          IF k = m.kind THEN (Middle(m, k) \ {b}) \cup {n} ELSE Middle(m, k)

Confirms(m, b) ==
    /\ ~SourceRefused(m) /\ LeasedBy(m, b) /\ ~MayTake(m, b) /\ b \in Asked(m)
    /\ UNCHANGED blocks /\ sent' = sent \cup {Ack(m, m.lo, LastAsked(m), LifetimeLeft(b))}

(* Block n is cut out of b or, where the lease of the source has opened b, out *)
(* of d, the part of it before the source.                                     *)
Cuts(m, b, d, n) ==
    /\ b \in blocks[m.kind]
    /\ \/ d = b /\ (m.kind = "unicast" /\ SourceApart(m) => b # SourceBlock(m))
       \/ /\ StaleContainer(m) /\ b = SourceBlock(m) /\ m.lo \in Addrs(b)
          /\ d = FreeBlock(b.lo, m.src - 1)
    /\ n.lo \in Int /\ n.hi \in Int /\ d.lo <= n.lo /\ n.lo <= n.hi /\ n.hi <= d.hi
    /\ n = HeldBlock(n.lo, n.hi, "assigned", AssignedId(m.ses, m.src), Lifetime[m.kind] + 1)
    /\ blocks' = [WithSource(m) EXCEPT ![m.kind] = Carve(@, d, n)]

LEMMA CutsOut ==
    ASSUME Databases, NEW m, IsRequest(m), ~SourceRefused(m), NEW b, NEW d, NEW n,
           Cuts(m, b, d, n)
    PROVE  /\ d \in WithSource(m)[m.kind]
           /\ Middle(m, m.kind) \ {d} = Middle(m, m.kind) \ {b}
<1>1. CASE d = b /\ (m.kind = "unicast" /\ SourceApart(m) => b # SourceBlock(m))
  BY <1>1, SourceEffect, LeaseIs DEF Cuts
<1>2. CASE /\ StaleContainer(m) /\ b = SourceBlock(m) /\ m.lo \in Addrs(b)
           /\ d = FreeBlock(b.lo, m.src - 1)
  <2>1. m.kind = "unicast" /\ SourceApart(m) /\ b \in blocks["unicast"] /\ "unicast" \in Kinds
    BY <1>2, KindsAssumption DEF StaleContainer, Cuts
  <2>2. b.lo \in Int /\ b.hi \in Int /\ m.src \in Int /\ m.lo \in Int /\ m.hi \in Int
    BY <2>1, BlocksAre, LeaseIs DEF Databases
  <2>3. d.lo = b.lo /\ d.hi = m.src - 1 /\ IsFree(d)
    BY <1>2 DEF FreeBlock, IsFree
  <2>4. b.lo <= m.src - 1
    BY <2>2, <2>3 DEF Cuts
  <2>5. d \in Carve(blocks["unicast"], b, SourceLease(m))
    BY <1>2, <2>4 DEF Carve, Remainder, SourceLease, HeldBlock
  <2>6. WithSource(m)["unicast"] = Carve(blocks["unicast"], b, SourceLease(m))
    BY <1>2, <2>1 DEF WithSource, AssignIn, SourceLease, Databases
  <2>7. b # SourceLease(m)
    BY <2>2, <2>4 DEF SourceLease, HeldBlock
  <2>8. b \notin Middle(m, "unicast")
    BY <1>2, <2>1, <2>7 DEF Middle
  <2>9. d \notin Middle(m, "unicast")
    BY <2>1, <2>3, SourceEffect DEF Held
  <2> QED BY <2>1, <2>5, <2>6, <2>8, <2>9
<1> QED BY <1>1, <1>2 DEF Cuts

LEMMA LeaseSound ==
    ASSUME Databases, NEW m, IsRequest(m), ~SourceRefused(m), NEW b, NEW d, NEW n,
           Cuts(m, b, d, n)
    PROVE  /\ Databases' /\ n \in BlockOf(SecurityIds)
           /\ \A k \in Kinds : Held(blocks'[k]) =
                 IF k = m.kind THEN (Middle(m, k) \ {b}) \cup {n} ELSE Middle(m, k)
<1> DEFINE W == WithSource(m)
           k == m.kind
           B == Carve(W[k], d, n)
<1>1. k \in Kinds
  BY LeaseIs
<1>2. /\ W \in [Kinds -> SUBSET BlockOf(SecurityIds)]
      /\ \A j \in Kinds : Sound(j, W[j]) /\ Held(W[j]) = Middle(m, j)
  BY SourceEffect
<1>3. d \in W[k] /\ Middle(m, k) \ {d} = Middle(m, k) \ {b}
  BY CutsOut
<1>4. n \in BlockOf(SecurityIds) /\ n.use = "assigned"
  BY LeaseIs DEF HeldBlock, BlockOf, InUses, Cuts
<1>5. Sound(k, B) /\ Held(B) = (Held(W[k]) \ {d}) \cup {n}
  <2> HIDE DEF W, B
  <2>1. d.lo <= n.lo /\ n.lo <= n.hi /\ n.hi <= d.hi /\ ~IsFree(n)
    BY <1>4 DEF Cuts, IsFree
  <2>2. Sound(k, Carve(W[k], d, n))
    BY <2>1, <1>1, <1>2, <1>3, <1>4, PoolIs, CarveSoundIn DEF Sound
  <2>3. Held(Carve(W[k], d, n)) = (Held(W[k]) \ {d}) \cup {n}
    BY <2>1, CarveHeld
  <2> QED BY <2>2, <2>3 DEF B
<1>6. B \in SUBSET BlockOf(SecurityIds)
  BY <1>5 DEF Sound, SoundIn, WellFormed
<1>7. blocks' = [W EXCEPT ![k] = B]
  BY DEF Cuts
<1> HIDE DEF W, B, k
<1>8. /\ Databases' /\ blocks'[k] = B
      /\ \A j \in Kinds \ {k} : blocks'[j] = W[j]
  BY <1>1, <1>2, <1>5, <1>6, <1>7 DEF Databases
<1> QED BY <1>1, <1>2, <1>3, <1>4, <1>5, <1>8 DEF k

LEMMA AskedBlock ==
    ASSUME FitsTheWire, Databases, NEW m, IsRequest(m), ~SourceRefused(m), NEW b \in Asked(m)
    PROVE  /\ b \in blocks[m.kind] /\ m.lo \in Addrs(b) /\ b.lo <= m.lo /\ LastAsked(m) <= b.hi
           /\ m.kind = "unicast" /\ SourceApart(m) /\ b = SourceBlock(m) => StaleContainer(m)
           /\ StaleContainer(m) => b = SourceBlock(m)
<1>1. m.kind \in Kinds /\ Sound(m.kind, blocks[m.kind])
  BY LeaseIs DEF Databases
<1>2. b \in blocks[m.kind] /\ m.lo \in Addrs(b) /\ LastAsked(m) <= b.hi
  BY DEF Asked, Container
<1>3. b.lo <= m.lo
  BY <1>1, <1>2, BlocksAre, LeaseIs DEF Addrs
<1>4. ASSUME StaleContainer(m) PROVE b = SourceBlock(m)
  <2>1. SourceBlock(m) \in blocks[m.kind] /\ m.lo \in Addrs(SourceBlock(m))
    BY <1>4 DEF StaleContainer, Asked, Container
  <2> QED BY <1>1, <1>2, <2>1, OneBlock
<1> QED BY <1>2, <1>3, <1>4 DEF StaleContainer

LEMMA RequestEffect ==
    ASSUME FitsTheWire, Databases, NEW m, IsRequest(m), processRequest(m)
    PROVE  /\ Databases' /\ UNCHANGED conf /\ (UNCHANGED up \/ up' = FALSE)
           /\ \/ UNCHANGED <<blocks, sent>>
              \/ \E b \in Asked(m) : Confirms(m, b)
              \/ \E b \in blocks[m.kind], n \in BlockOf(SecurityIds) : Leases(m, b, n)
<1>1. CASE Refuse(m)
  BY <1>1 DEF Refuse, processRequest, Databases
<1>2. CASE AlternateOfNone(m) \/ (Lease(m) /\ ~StillHolds(m))
  BY <1>2 DEF AlternateOfNone, Lease, processRequest, Databases
<1> SUFFICES ASSUME ~SourceRefused(m), TooLarge(m) => conf.alternate,
                    (Lease(m) /\ StillHolds(m)) \/ Confirm(m) \/ Alternate(m)
             PROVE  /\ Databases' /\ UNCHANGED conf /\ UNCHANGED up
                    /\ \/ \E b \in Asked(m) : Confirms(m, b)
                       \/ \E b \in blocks[m.kind], n \in BlockOf(SecurityIds) : Leases(m, b, n)
  BY <1>1, <1>2 DEF processRequest
<1> DEFINE last == LastAsked(m)
           id   == AssignedId(m.ses, m.src)
           life == Lifetime[m.kind]
<1>3. /\ last \in Int /\ m.lo <= last /\ last - m.lo + 1 <= MaxAddr[m.kind]
      /\ MaxAddr[m.kind] <= WireMax /\ m.lo \in Int /\ m.kind \in Kinds /\ life \in Nat
  BY AskedIs, LeaseIs
<1>4. MaxAddr[m.kind] \in Nat /\ WireMax \in Nat
  BY <1>3, KindsAssumption, SizesAssumption
<1>5. LastAcked(m) = last
  <2>1. last - m.lo + 1 <= WireMax
    BY <1>3, <1>4
  <2>2. LastCounted(m.lo, last) = last
    BY <2>1, <1>3, CountedIs
  <2> QED BY <2>2 DEF LastAcked, LastAsked
<1>6. UNCHANGED conf
  BY DEF processRequest
<1>7. CASE Lease(m) /\ StillHolds(m)
  <2>1. PICK b \in Asked(m) :
            /\ MayTake(m, b)
            /\ blocks' = [WithSource(m) EXCEPT ![m.kind] =
                              AssignIn(@, LeftOf(m, b), m.lo, last, id, life)]
            /\ sent' = sent \cup {Ack(m, m.lo, last, life)}
    BY <1>5, <1>7 DEF Lease
  <2>2. UNCHANGED up
    BY <1>7 DEF Lease, processRequest, Ready
  <2> PICK n : n = HeldBlock(m.lo, last, "assigned", id, life + 1)
    OBVIOUS
  <2> DEFINE d == LeftOf(m, b)
  <2>3. /\ n = HeldBlock(m.lo, last, "assigned", id, life + 1) /\ n.lo = m.lo /\ n.hi = last
        /\ blocks' = [WithSource(m) EXCEPT ![m.kind] = Carve(@, d, n)]
    BY <2>1 DEF AssignIn, HeldBlock
  <2>4. /\ b \in blocks[m.kind] /\ m.lo \in Addrs(b) /\ b.lo <= m.lo /\ last <= b.hi
        /\ m.kind = "unicast" /\ SourceApart(m) /\ b = SourceBlock(m) => StaleContainer(m)
        /\ StaleContainer(m) => b = SourceBlock(m)
    BY <2>1, AskedBlock
  <2>5. d.lo <= m.lo /\ last <= d.hi
    <3>1. CASE ~StaleContainer(m)
      BY <2>4, <3>1 DEF LeftOf
    <3>2. CASE StaleContainer(m)
      <4>1. d.lo = b.lo /\ d.hi = m.src - 1 /\ last < m.src /\ m.src \in Int
        BY <1>7, <3>2, LeaseIs DEF LeftOf, FreeBlock, StillHolds
      <4> QED BY <2>4, <4>1, <1>3
    <3> QED BY <3>1, <3>2
  <2>6. \/ d = b /\ (m.kind = "unicast" /\ SourceApart(m) => b # SourceBlock(m))
        \/ /\ StaleContainer(m) /\ b = SourceBlock(m) /\ m.lo \in Addrs(b)
           /\ d = FreeBlock(b.lo, m.src - 1)
    BY <2>4 DEF LeftOf
  <2> HIDE DEF last, d
  <2>7. n = HeldBlock(n.lo, n.hi, "assigned", id, life + 1)
    BY <2>3
  <2>8. Cuts(m, b, d, n)
    BY <2>3, <2>4, <2>5, <2>6, <2>7, <1>3 DEF Cuts
  <2>9. /\ Databases' /\ n \in BlockOf(SecurityIds)
        /\ \A k \in Kinds : Held(blocks'[k]) =
              IF k = m.kind THEN (Middle(m, k) \ {b}) \cup {n} ELSE Middle(m, k)
    BY <2>8, LeaseSound
  <2>10. Leases(m, b, n)
    BY <2>1, <2>3, <2>4, <2>7, <2>9, <1>3 DEF Leases, last
  <2> QED BY <2>2, <2>4, <2>9, <2>10, <1>6
<1>8. CASE Confirm(m)
  <2>1. PICK b \in Asked(m) :
            /\ LeasedBy(m, b) /\ ~MayTake(m, b)
            /\ sent' = sent \cup {Ack(m, m.lo, last, LifetimeLeft(b))}
            /\ UNCHANGED <<blocks, up>>
    BY <1>5, <1>8 DEF Confirm
  <2>2. Confirms(m, b)
    BY <2>1 DEF Confirms
  <2> QED BY <2>1, <2>2, <1>6 DEF Databases
<1>9. CASE Alternate(m)
  <2>1. PICK f \in Found(m) :
            /\ blocks' = [WithSource(m) EXCEPT ![m.kind] =
                  Carve(@, f[1], HeldBlock(f[2], f[3], "assigned", id, life + 1))]
            /\ sent' = sent \cup {Ack(m, f[2], LastCounted(f[2], f[3]), life)}
    BY <1>9 DEF Alternate
  <2> PICK n : n = HeldBlock(f[2], f[3], "assigned", id, life + 1)
    OBVIOUS
  <2> DEFINE count == last - m.lo + 1
             b     == f[1]
  <2>2. count \in Nat \ {0} /\ f \in FindSet(blocks[m.kind], count)
    BY <1>3 DEF Found
  <2>3. Sound(m.kind, blocks[m.kind])
    BY <1>3 DEF Databases
  <2> HIDE DEF count
  <2>4. /\ b \in blocks[m.kind] /\ IsFree(b) /\ f[2] \in Int /\ f[3] \in Int
        /\ b.lo <= f[2] /\ f[2] <= f[3] /\ f[3] <= b.hi /\ f[3] - f[2] + 1 <= count
    BY <2>2, <2>3, <1>3, PoolIs, FoundInFree DEF Sound
  <2>5. SourceApart(m) => b # SourceBlock(m)
    BY <2>4, SourceIs DEF SourceApart
  <2>6. /\ n = HeldBlock(f[2], f[3], "assigned", id, life + 1) /\ n.lo = f[2] /\ n.hi = f[3]
        /\ blocks' = [WithSource(m) EXCEPT ![m.kind] = Carve(@, b, n)]
    BY <2>1 DEF HeldBlock
  <2> HIDE DEF b
  <2>7. n = HeldBlock(n.lo, n.hi, "assigned", id, life + 1)
    BY <2>6
  <2> PICK d : d = b
    OBVIOUS
  <2>8. Cuts(m, b, d, n)
    BY <2>4, <2>5, <2>6, <2>7 DEF Cuts
  <2>9. /\ Databases' /\ n \in BlockOf(SecurityIds)
        /\ \A k \in Kinds : Held(blocks'[k]) =
              IF k = m.kind THEN (Middle(m, k) \ {b}) \cup {n} ELSE Middle(m, k)
    BY <2>8, LeaseSound
  <2>10. f[3] - f[2] + 1 <= WireMax
    BY <2>4, <1>3, <1>4 DEF count
  <2>11. LastCounted(f[2], f[3]) = f[3]
    BY <2>4, <2>10, CountedIs
  <2>12. n.hi - n.lo <= last - m.lo
    BY <2>4, <2>6, <1>3 DEF count
  <2>13. Unavailable(m)
    BY <1>9 DEF Alternate
  <2> HIDE DEF last
  <2>14. Leases(m, b, n)
    BY <2>1, <2>4, <2>6, <2>9, <2>7, <2>11, <2>12, <2>13 DEF Leases, last
  <2> QED BY <2>4, <2>9, <2>14, <1>6, <1>9 DEF Alternate
<1> QED BY <1>7, <1>8, <1>9

(* A RELEASE takes back leases of its sender, and his ACKs with them.          *)
LEMMA ReleaseEffect ==
    ASSUME Databases, NEW m, IsRequest(m), processRelease(m)
    PROVE  /\ Databases' /\ UNCHANGED <<conf, up>>
           /\ sent' = {p \in sent : p.type # "ACK" \/ p.ses # m.ses \/ p.src # m.src}
           /\ \A k \in Kinds : /\ Held(blocks'[k]) \subseteq H(k)
                               /\ \A b \in H(k) \ Held(blocks'[k]) : LeasedBy(m, b)
<1> DEFINE k == m.kind
           set == [blocks EXCEPT ![k] = ReleaseIn(@, m, m.lo, m.hi)]
<1>1. ASSUME NEW j \in Kinds, NEW B, Sound(j, B), NEW lo, NEW hi
      PROVE  LET C == ReleaseIn(B, m, lo, hi)
             IN  /\ Sound(j, C) /\ C \in SUBSET BlockOf(SecurityIds)
                 /\ Held(C) \subseteq Held(B) /\ \A b \in Held(B) \ Held(C) : LeasedBy(m, b)
  <2> DEFINE C == ReleaseIn(B, m, lo, hi)
  <2>1. Sound(j, B) => B \in SUBSET BlockOf(SecurityIds)
    BY DEF Sound, SoundIn, WellFormed
  <2>2. CASE Releasable(B, m, lo, hi) = {}
    BY <2>1, <2>2, <1>1 DEF ReleaseIn
  <2>3. CASE Releasable(B, m, lo, hi) # {}
    <3>1. PICK b \in B : lo \in Addrs(b) /\ LeasedBy(m, b)
      BY <2>3 DEF Releasable, Container
    <3>2. C = Timeout(B, b)
      BY <3>1, <2>3, <1>1, BlockAtIs DEF ReleaseIn
    <3>3. Sound(j, C) /\ Held(C) = Held(B) \ {b}
      BY <3>1, <3>2, <1>1, PoolIs, TimeoutSoundIn, TimeoutHeld DEF Sound
    <3>4. C \in SUBSET BlockOf(SecurityIds)
      BY <3>3 DEF Sound, SoundIn, WellFormed
    <3> QED BY <3>1, <3>3, <3>4
  <2> QED BY <2>2, <2>3
<1>2. k \in Kinds /\ "unicast" \in Kinds
  BY LeaseIs, KindsAssumption
<1> HIDE DEF k
<1>3. /\ set \in [Kinds -> SUBSET BlockOf(SecurityIds)]
      /\ \A j \in Kinds : /\ Sound(j, set[j]) /\ Held(set[j]) \subseteq H(j)
                          /\ \A b \in H(j) \ Held(set[j]) : LeasedBy(m, b)
  <2> DEFINE C == ReleaseIn(blocks[k], m, m.lo, m.hi)
  <2>1. /\ Sound(k, C) /\ C \in SUBSET BlockOf(SecurityIds)
        /\ Held(C) \subseteq H(k) /\ \A b \in H(k) \ Held(C) : LeasedBy(m, b)
    BY <1>1, <1>2 DEF Databases, H
  <2>2. set = [blocks EXCEPT ![k] = C]
    OBVIOUS
  <2> HIDE DEF C, set
  <2>3. set[k] = C /\ \A j \in Kinds \ {k} : set[j] = blocks[j]
    BY <2>2, <1>2 DEF Databases
  <2> QED BY <2>1, <2>2, <2>3, <1>2 DEF Databases, H
<1>4. blocks' = IF SourceInPool(m)
                THEN [set EXCEPT !["unicast"] = ReleaseIn(@, m, m.src, m.src)] ELSE set
  BY DEF processRelease, k
<1> HIDE DEF set
<1>5. /\ Databases'
      /\ \A j \in Kinds : /\ Held(blocks'[j]) \subseteq H(j)
                          /\ \A b \in H(j) \ Held(blocks'[j]) : LeasedBy(m, b)
  <2>1. CASE ~SourceInPool(m)
    BY <2>1, <1>3, <1>4 DEF Databases
  <2>2. CASE SourceInPool(m)
    <3> DEFINE C == ReleaseIn(set["unicast"], m, m.src, m.src)
    <3>1. /\ Sound("unicast", C) /\ C \in SUBSET BlockOf(SecurityIds)
          /\ Held(C) \subseteq Held(set["unicast"])
          /\ \A b \in Held(set["unicast"]) \ Held(C) : LeasedBy(m, b)
      BY <1>1, <1>2, <1>3
    <3>2. blocks' = [set EXCEPT !["unicast"] = C]
      BY <2>2, <1>4
    <3> HIDE DEF C
    <3>3. blocks'["unicast"] = C /\ \A j \in Kinds \ {"unicast"} : blocks'[j] = set[j]
      BY <3>2, <1>2, <1>3
    <3>4. Databases'
      BY <3>1, <3>2, <3>3, <1>2, <1>3 DEF Databases
    <3>5. \A j \in Kinds : /\ Held(blocks'[j]) \subseteq H(j)
                          /\ \A b \in H(j) \ Held(blocks'[j]) : LeasedBy(m, b)
      BY <3>1, <3>3, <1>2, <1>3
    <3> QED BY <3>4, <3>5
  <2> QED BY <2>1, <2>2
<1> QED BY <1>5 DEF processRelease

(* Time passes for every block alike; a block whose time is over is free.      *)
LEMMA ExpireEffect ==
    ASSUME Databases, Expire
    PROVE  /\ Databases' /\ UNCHANGED <<conf, sent, up>>
           /\ \A k \in Kinds : /\ Held(blocks'[k]) \subseteq H(k)
                               /\ \A b \in H(k) \ Held(blocks'[k]) : b.left = 0
<1>1. PICK k \in Kinds : \E b \in Due(blocks[k]) : blocks' = [blocks EXCEPT ![k] = Timeout(@, b)]
  BY DEF Expire
<1>2. PICK b \in Due(blocks[k]) : blocks' = [blocks EXCEPT ![k] = Timeout(@, b)]
  BY <1>1
<1>3. b \in H(k) /\ b \in blocks[k] /\ b.left = 0 /\ Sound(k, blocks[k])
  BY <1>2 DEF Due, Held, H, Databases
<1> DEFINE C == Timeout(blocks[k], b)
<1>4. Sound(k, C) /\ Held(C) = H(k) \ {b}
  BY <1>3, PoolIs, TimeoutSoundIn, TimeoutHeld DEF Sound, H
<1>5. C \in SUBSET BlockOf(SecurityIds)
  BY <1>4 DEF Sound, SoundIn, WellFormed
<1>6. blocks' = [blocks EXCEPT ![k] = C]
  BY <1>2
<1> HIDE DEF C
<1>7. Databases' /\ blocks'[k] = C /\ \A j \in Kinds \ {k} : blocks'[j] = blocks[j]
  BY <1>4, <1>5, <1>6 DEF Databases
<1>8. \A j \in Kinds : /\ Held(blocks'[j]) \subseteq H(j)
                      /\ \A c \in H(j) \ Held(blocks'[j]) : c.left = 0
  BY <1>3, <1>4, <1>7 DEF H
<1> QED BY <1>7, <1>8 DEF Expire

LEMMA TickEffect ==
    ASSUME Databases, Tick
    PROVE  /\ Databases' /\ UNCHANGED <<conf, up>>
           /\ \A k \in Kinds : \A b \in H(k) : b.left > 0 /\ b \in BlockOf(SecurityIds)
           /\ \A k \in Kinds : Held(blocks'[k]) = {Later(b) : b \in H(k)}
<1>1. \A k \in Kinds : Sound(k, blocks[k])
  BY DEF Databases
<1>2. \A k \in Kinds : blocks'[k] = Elapse(blocks[k])
  BY DEF Tick
<1>3. ASSUME NEW k \in Kinds
      PROVE  Sound(k, blocks'[k]) /\ Held(blocks'[k]) = {Later(b) : b \in H(k)}
  BY <1>1, <1>2, PoolIs, ElapseSoundIn, ElapseHeld DEF Sound, SoundIn, H
<1>4. \A k \in Kinds : blocks'[k] \in SUBSET BlockOf(SecurityIds)
  BY <1>3 DEF Sound, SoundIn, WellFormed
<1>5. Databases'
  BY <1>3, <1>4 DEF Tick, Databases
<1>6. ASSUME NEW k \in Kinds, NEW b \in H(k) PROVE b.left > 0 /\ b \in BlockOf(SecurityIds)
  <2>1. b \in Held(blocks[k]) /\ b \in blocks[k]
    BY DEF H, Held
  <2>2. b.left # 0
    BY <2>1 DEF Tick, Ready, Due
  <2>3. b.left \in Nat /\ b \in BlockOf(SecurityIds)
    BY <1>1, <2>1, BlocksAre
  <2> QED BY <2>2, <2>3
<1> QED BY <1>3, <1>5, <1>6 DEF Tick
=============================================================================
