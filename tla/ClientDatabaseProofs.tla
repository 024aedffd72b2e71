------------------------- MODULE ClientDatabaseProofs -------------------------
(* A client's database under exclude, for every pool, every announcement and   *)
(* every lifetime: its blocks stay sound, and what it holds excluded is held   *)
(* for the time that the last announcement gave.                               *)
EXTENDS ClientDatabase, SetDatabaseProofs

(* The inductive invariant.  ExclusionsFresh needs the tiling: only because no *)
(* other block has an address of the set does its timer stay the last word.    *)
ClientInv ==
    /\ Sound(blocks)
    /\ heard \in [First .. Last -> Nat]
    /\ ExclusionsFresh

----------------------------------------------------------------------------
LEMMA ExcludeSound ==
    ASSUME NEW B, Sound(B), NEW lo \in Int, NEW hi \in Int, First <= lo, lo <= hi, hi <= Last,
           NEW life \in Nat
    PROVE  /\ Sound(Exclude(B, lo, hi, life))
           /\ \A b \in Held(Exclude(B, lo, hi, life)) :
                 \/ b.lo = lo /\ b.hi = hi /\ b.left - life \in {-1, 0, 1}
                 \/ b \in Held(B) /\ \A a \in Addrs(b) : a < lo \/ hi < a
BY ExcludeSoundIn, PoolAssumption DEF Sound

(* A block that was free stays so over a timeout, and a block that is left     *)
(* over is one that was held.                                                  *)
LEMMA HeldAfterTimeout ==
    ASSUME NEW B, NEW b \in B, NEW c \in Held(Timeout(B, b))
    PROVE  c \in Held(B)
BY DEF Held, Timeout, FreeBlock, IsFree

LEMMA HeldAfterElapse ==
    ASSUME NEW B, Sound(B), Due(B) = {}, NEW c \in Held(Elapse(B))
    PROVE  \E b \in Held(B) : /\ Addrs(c) = Addrs(b) /\ b.left \in Nat \ {0}
                              /\ c.left = b.left - 1
<1>1. PICK b \in B : c = [b EXCEPT !.left = IF b.left > 0 THEN b.left - 1 ELSE 0]
  BY DEF Held, Elapse
<1>2. b \in BlockOf(Ids)
  BY DEF Sound, SoundIn, WellFormed
<1>3. /\ c.lo = b.lo /\ c.hi = b.hi /\ c.use = b.use
      /\ c.left = (IF b.left > 0 THEN b.left - 1 ELSE 0)
  BY <1>1, <1>2 DEF BlockOf
<1>4. b \in Held(B)
  BY <1>3 DEF Held, IsFree
<1>5. b.left \in Nat \ {0}
  BY <1>2, <1>4 DEF BlockOf, Due
<1> QED BY <1>3, <1>4, <1>5 DEF Addrs

(* Every announcement, timer and second keeps the client's invariant.          *)
THEOREM ClientInvInductive == ClientSpec => []ClientInv
<1>0. First \in Int /\ Last \in Int /\ First <= Last
  BY PoolAssumption
<1>1. ClientInit => ClientInv
  <2> SUFFICES ASSUME ClientInit PROVE ClientInv
    OBVIOUS
  <2>1. blocks = WholePool /\ heard = [a \in First .. Last |-> 0]
    BY DEF ClientInit, Init
  <2>2. Sound(blocks) /\ ExclusionsFresh
    BY <2>1, WholePoolSound DEF ExclusionsFresh
  <2> QED BY <2>1, <2>2 DEF ClientInv
<1>2. ClientInv /\ [ClientNext]_cvars => ClientInv'
  <2> SUFFICES ASSUME ClientInv, [ClientNext]_cvars PROVE ClientInv'
    OBVIOUS
  <2>1. /\ Sound(blocks) /\ heard \in [First .. Last -> Nat]
        /\ \A b \in Held(blocks) : \A a \in Addrs(b) : b.left - heard[a] \in {-1, 0, 1}
    BY DEF ClientInv, ExclusionsFresh
  <2>2. \A b \in blocks : b.lo \in Int /\ b.hi \in Int /\ b.left \in Nat
                          /\ \A a \in Addrs(b) : a \in First .. Last
    <3>1. \A b \in blocks : /\ b.lo \in Int /\ b.hi \in Int /\ b.left \in Nat
                            /\ First <= b.lo /\ b.hi <= Last
      BY <2>1 DEF Sound, SoundIn, WellFormed, BlockOf, Tiles
    <3> QED BY <3>1, <1>0 DEF Addrs
  <2>3. ASSUME NEW lo \in First - 1 .. Last + 1, NEW hi \in First - 1 .. Last + 1,
               NEW life \in Lifetimes, DbExclude(lo, hi, life)
        PROVE  ClientInv'
    <3> DEFINE l == Greatest({lo, First})
               h == AtMost(hi, Last)
    <3>1. life \in Nat
      BY AskAssumption
    <3>2. l \in Int /\ First <= l
      <4>1. CASE First <= lo
        <5>1. Greatest({lo, First}) = lo
          BY <1>0, <4>1, GreatestIs
        <5> QED BY <5>1, <4>1, <1>0
      <4>2. CASE lo <= First
        <5>1. Greatest({lo, First}) = First
          BY <1>0, <4>2, GreatestIs
        <5> QED BY <5>1, <1>0
      <4> QED BY <4>1, <4>2, <1>0
    <3>3. h \in Int /\ h <= Last
      BY <1>0 DEF AtMost
    <3>4. /\ l <= h /\ blocks' = Exclude(blocks, l, h, life)
          /\ heard' = [a \in First .. Last |-> IF a \in l .. h THEN life ELSE heard[a]]
      BY <2>3 DEF DbExclude
    <3> HIDE DEF l, h
    <3>5. /\ Sound(blocks')
          /\ \A b \in Held(blocks') :
                \/ b.lo = l /\ b.hi = h /\ b.left - life \in {-1, 0, 1}
                \/ b \in Held(blocks) /\ \A a \in Addrs(b) : a < l \/ h < a
      BY <2>1, <3>1, <3>2, <3>3, <3>4, ExcludeSound
    <3>6. heard' \in [First .. Last -> Nat]
      BY <2>1, <3>1, <3>4
    <3>7. ASSUME NEW b \in Held(blocks'), NEW a \in Addrs(b)
          PROVE  b.left - heard'[a] \in {-1, 0, 1}
      <4>1. CASE b.lo = l /\ b.hi = h /\ b.left - life \in {-1, 0, 1}
        <5>1. a \in l .. h /\ a \in First .. Last
          BY <4>1, <3>2, <3>3, <1>0 DEF Addrs
        <5> QED BY <5>1, <4>1, <3>4
      <4>2. CASE b \in Held(blocks) /\ \A x \in Addrs(b) : x < l \/ h < x
        <5>1. a \in First .. Last /\ a \notin l .. h
          BY <4>2, <2>2, <3>2, <3>3 DEF Held
        <5>2. heard'[a] = heard[a]
          BY <5>1, <3>4
        <5> QED BY <5>2, <4>2, <2>1
      <4> QED BY <4>1, <4>2, <3>5
    <3> QED BY <3>5, <3>6, <3>7 DEF ClientInv, ExclusionsFresh
  <2>4. CASE ClientExpire
    <3>1. PICK b \in blocks : blocks' = Timeout(blocks, b) /\ heard' = heard
      BY <2>4 DEF ClientExpire, Expire, Due, Held
    <3>2. Sound(blocks')
      BY <2>1, <3>1, TimeoutSound
    <3>3. \A c \in Held(blocks') : c \in Held(blocks)
      BY <3>1, HeldAfterTimeout
    <3> QED BY <2>1, <3>1, <3>2, <3>3 DEF ClientInv, ExclusionsFresh
  <2>5. CASE ClientTick
    <3>1. /\ Due(blocks) = {} /\ blocks' = Elapse(blocks)
          /\ heard' = [a \in First .. Last |-> IF heard[a] > 0 THEN heard[a] - 1 ELSE 0]
      BY <2>5 DEF ClientTick, Tick
    <3>2. Sound(blocks')
      BY <2>1, <3>1, ElapseSound
    <3>3. heard' \in [First .. Last -> Nat]
      BY <2>1, <3>1
    <3>4. ASSUME NEW c \in Held(blocks'), NEW a \in Addrs(c)
          PROVE  c.left - heard'[a] \in {-1, 0, 1}
      <4>1. PICK b \in Held(blocks) : /\ Addrs(c) = Addrs(b) /\ b.left \in Nat \ {0}
                                      /\ c.left = b.left - 1
        BY <2>1, <3>1, HeldAfterElapse
      <4>2. b.left - heard[a] \in {-1, 0, 1} /\ a \in First .. Last
        BY <2>1, <2>2, <4>1 DEF Held
      <4>3. heard[a] \in Nat /\ heard'[a] = IF heard[a] > 0 THEN heard[a] - 1 ELSE 0
        BY <2>1, <3>1, <4>2
      <4> QED BY <4>1, <4>2, <4>3
    <3> QED BY <3>2, <3>3, <3>4 DEF ClientInv, ExclusionsFresh
  <2>6. CASE UNCHANGED cvars
    BY <2>6 DEF cvars, ClientInv, ExclusionsFresh
  <2>7. CASE ClientCall
    BY <2>3, <2>7 DEF ClientCall
  <2> QED BY <2>4, <2>5, <2>6, <2>7 DEF ClientNext
<1> QED BY <1>1, <1>2, PTL DEF ClientSpec

(* A client's blocks are well formed, whatever it hears.                       *)
THEOREM ClientTypeCorrect == ClientSpec => []TypeInvariant
<1>1. ClientInv => TypeInvariant
  BY DEF ClientInv, Sound, SoundIn, WellFormed, TypeInvariant
<1> QED BY <1>1, ClientInvInductive, PTL

(* However announcements overlap and reach over the borders of blocks and of   *)
(* the pool, exclude loses no address and gives none to two blocks.            *)
THEOREM ClientPoolStaysTiled == ClientSpec => []PoolTiled
<1>1. ClientInv => PoolTiled
  BY DEF ClientInv, Sound, SoundIn, PoolTiled
<1> QED BY <1>1, ClientInvInductive, PTL

(* What exclude holds back has the timer of the last announcement, within the  *)
(* second that exclude tolerates.                                              *)
THEOREM ExclusionsStayFresh == ClientSpec => []ExclusionsFresh
<1>1. ClientInv => ExclusionsFresh
  BY DEF ClientInv
<1> QED BY <1>1, ClientInvInductive, PTL
=============================================================================
