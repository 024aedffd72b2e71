----------------------------- MODULE PalmaServer -----------------------------
(* The server (src/server/palma-server.cpp): a database per kind of address,   *)
(* and a handler for each packet.  The event loop runs one handler or timer at *)
(* a time.  Who sends the packets is left to the modules that extend this one. *)
EXTENDS AddressBlocks

CONSTANTS Sessions,     \* a client's station id and token
          Kinds,        \* the databases in use; "unicast" is the 48-bit one
          Pool,         \* Pool[k]: <<first, last>> of the set to distribute
          MaxAddr,      \* Max...: most addresses in one assignment
          Lifetime,     \* ...Lifetime, in seconds
          ReserveLife,  \* ReserveLifetime, in seconds
          ProbeSrc,     \* a source in DISCOVER_SOURCE_ADDR_RANGE
          SelfSources,  \* AUTOASSIGN_UNICAST
          Late          \* bound: seconds that a renewal or release may come after its lease

ASSUME KindsAssumption ==
    /\ "unicast" \in Kinds
    /\ Pool \in [Kinds -> Int \X Int]
    /\ \A k \in Kinds : Pool[k][1] <= Pool[k][2]
    /\ MaxAddr \in [Kinds -> Nat] /\ Lifetime \in [Kinds -> Nat]
    /\ ReserveLife \in Nat /\ Late \in Nat

VARIABLES blocks,  \* m_db_unicast, m_db_multicast, ...
          conf,    \* AlternateSetActive and RenewalActive, read at the start
          sent,    \* OFFERs and ACKs sent, with the seconds left of each
          up       \* the process runs

svars == <<blocks, conf, sent, up>>

(* getSecurityId, without a source for an offer and with it for a lease.       *)
ReservedId(s)      == <<s>>
AssignedId(s, src) == <<s, src>>
SecurityIds == {ReservedId(s) : s \in Sessions} \cup (Sessions \X Int)
ASSUME IdsAssumption == NoId \notin SecurityIds

InPool(a, k) == a \in Pool[k][1] .. Pool[k][2]
BlockAt(B, a) == CHOOSE b \in B : a \in Addrs(b)

Offer(m, b, addr) ==
    [type |-> "OFFER", ses |-> m.ses, kind |-> m.kind, lo |-> b.lo, hi |-> b.hi,
     addr |-> addr, left |-> ReserveLife]
Ack(m, lo, hi, life) ==
    [type |-> "ACK", ses |-> m.ses, src |-> m.src, kind |-> m.kind, lo |-> lo, hi |-> hi,
     left |-> life]

(* EventLoop::run hands over a packet once check has fired all that was due.   *)
Ready == up /\ \A k \in Kinds : Due(blocks[k]) = {}

ServerInit ==
    /\ blocks = [k \in Kinds |-> {FreeBlock(Pool[k][1], Pool[k][2])}]
    /\ conf \in [alternate : BOOLEAN, renewal : BOOLEAN]
    /\ sent = {}
    /\ up = TRUE

----------------------------------------------------------------------------
(* processClaim, for a DISCOVER or (with AutoassignObjection) an ANNOUNCE:     *)
(* m.size addresses of m.kind are reserved, and for a client without an        *)
(* address of its own that wants none of the unicast set, one address more.    *)
Claimed(m) == FindSet(blocks[m.kind], AtMost(MaxAddr[m.kind], m.size))
Reserved(m, f) == HeldBlock(f[2], f[3], "reserved", ReservedId(m.ses), ReserveLife)

(* sendOffer rounds a set too large for a count to an aligned run, and with it *)
(* the block in the database, whose other addresses then belong to no block.   *)
OnWire(b) == IF Size(b) <= WireMax THEN b
             ELSE LET r == AlignedRun(b.lo, b.hi)
                  IN  [b EXCEPT !.lo = r[1], !.hi = r[1] + r[2] - 1]
CarveOnWire(B, c, b) == (Carve(B, c, b) \ {b}) \cup {OnWire(b)}

NeedsAddr(m) == m.kind # "unicast" /\ m.src = ProbeSrc

OfferSet(m) ==
    /\ ~NeedsAddr(m)
    /\ \E f \in Claimed(m) :
          /\ blocks' = [blocks EXCEPT ![m.kind] = CarveOnWire(@, f[1], Reserved(m, f))]
          /\ sent' = sent \cup {Offer(m, OnWire(Reserved(m, f)), 0)}

OfferSetAndAddr(m) ==
    /\ NeedsAddr(m)
    /\ \E f \in Claimed(m), g \in FindSet(blocks["unicast"], 1) :
          /\ blocks' = [blocks EXCEPT
                 ![m.kind]    = CarveOnWire(@, f[1], Reserved(m, f)),
                 !["unicast"] = Carve(@, g[1], Reserved(m, g))]
          /\ sent' = sent \cup {Offer(m, OnWire(Reserved(m, f)), g[2])}

(* A slip: the set is not released.                                            *)
TakeNotBack(m) ==
    /\ NeedsAddr(m)
    /\ FindSet(blocks["unicast"], 1) = {}
    /\ \E f \in Claimed(m) :
          blocks' = [blocks EXCEPT ![m.kind] = CarveOnWire(@, f[1], Reserved(m, f))]
    /\ UNCHANGED sent

(* No address left for the client: the set just reserved is released again.    *)
TakeBack(m) ==
    /\ NeedsAddr(m)
    /\ FindSet(blocks["unicast"], 1) = {}
    /\ \E f \in Claimed(m) :
          blocks' = [blocks EXCEPT
              ![m.kind] = Timeout(Carve(@, f[1], Reserved(m, f)), Reserved(m, f))]
    /\ UNCHANGED sent

processClaim(m) ==
    /\ Ready /\ MaxAddr[m.kind] > 0
    /\ OfferSet(m) \/ OfferSetAndAddr(m) \/ TakeBack(m)
    /\ UNCHANGED <<conf, up>>

----------------------------------------------------------------------------
(* processRequest.  Mine: the block is reserved for this session, or leased by *)
(* it under this source.                                                       *)
ReservedFor(m, b) == b.use = "reserved" /\ b.id = ReservedId(m.ses)
LeasedBy(m, b)    == b.use = "assigned" /\ b.id = AssignedId(m.ses, m.src)

SourceInPool(m) == InPool(m.src, "unicast")
SourceBlock(m)  == BlockAt(blocks["unicast"], m.src)
SourceRefused(m) ==
    \/ MaxAddr[m.kind] = 0 \/ m.src = ProbeSrc \/ m.src \in SelfSources
    \/ SourceInPool(m) /\ ~ReservedFor(m, SourceBlock(m)) /\ ~LeasedBy(m, SourceBlock(m))

(* src_assign_set: the source was offered beside the set, so it is leased too. *)
SourceApart(m) == SourceInPool(m) /\ ~(m.kind = "unicast" /\ m.src \in m.lo .. m.hi)

TooLarge(m) == m.hi - m.lo + 1 > MaxAddr[m.kind]
LastAsked(m) == IF TooLarge(m) THEN m.lo + MaxAddr[m.kind] - 1 ELSE m.hi
(* The ACK counts a set the server cut itself in 16 bits.                      *)
LastCounted(lo, hi) == lo + ((hi - lo + 1) % (WireMax + 1)) - 1
LastAcked(m) == IF TooLarge(m) THEN LastCounted(m.lo, LastAsked(m)) ELSE m.hi

Asked(m) == Container(blocks[m.kind], m.lo, LastAsked(m))

(* A slip: the source is never leased.                                         *)
WithoutSource(m) == blocks

(* The databases once the source, if it is apart, is leased.                   *)
WithSource(m) ==
    IF ~SourceApart(m) THEN blocks
    ELSE [blocks EXCEPT !["unicast"] =
             AssignIn(@, SourceBlock(m), m.src, m.src, AssignedId(m.ses, m.src), Lifetime[m.kind])]

(* The handler finds the set's block before it leases the source.  If both are *)
(* in that block, what the pointer denotes by then is the part of it before    *)
(* the source.                                                                 *)
StaleContainer(m) == m.kind = "unicast" /\ SourceApart(m) /\ SourceBlock(m) \in Asked(m)
LeftOf(m, b) == IF StaleContainer(m) THEN FreeBlock(b.lo, m.src - 1) ELSE b

(* A set behind the source is not in that part: the size that extract computes *)
(* wraps around, splitAndInsert refuses it, and its NULL is dereferenced (or,  *)
(* for a set next to a source that starts the block, a block of no address is  *)
(* made).  The model ends there.                                               *)
StillHolds(m) == StaleContainer(m) => LastAsked(m) < m.src

(* Slips: a reservation serves anyone; a renewal takes over any lease; a       *)
(* REQUEST that is no renewal prolongs.                                        *)
MayTakeReserved(m, b) == \/ IsFree(b) \/ b.use = "reserved"
                         \/ LeasedBy(m, b) /\ m.renewal /\ conf.renewal
MayTakeAnyLease(m, b) == \/ IsFree(b) \/ ReservedFor(m, b)
                         \/ b.use = "assigned" /\ m.renewal /\ conf.renewal
MayTakeAgain(m, b)    == IsFree(b) \/ ReservedFor(m, b) \/ LeasedBy(m, b)

MayTake(m, b) == \/ IsFree(b) \/ ReservedFor(m, b)
                 \/ LeasedBy(m, b) /\ m.renewal /\ conf.renewal

Lease(m) ==
    \E b \in Asked(m) :
       /\ MayTake(m, b)
       /\ up' = StillHolds(m)
       /\ IF StillHolds(m)
          THEN /\ blocks' = [WithSource(m) EXCEPT ![m.kind] =
                     AssignIn(@, LeftOf(m, b), m.lo, LastAsked(m), AssignedId(m.ses, m.src),
                              Lifetime[m.kind])]
               /\ sent' = sent \cup {Ack(m, m.lo, LastAcked(m), Lifetime[m.kind])}
          ELSE UNCHANGED <<blocks, sent>>

(* A REQUEST that comes again is answered with what is left of the lease.      *)
Confirm(m) ==
    \E b \in Asked(m) :
       /\ LeasedBy(m, b) /\ ~MayTake(m, b)
       /\ sent' = sent \cup {Ack(m, m.lo, LastAcked(m), LifetimeLeft(b))}
       /\ UNCHANGED <<blocks, up>>

Unavailable(m) == \A b \in Asked(m) : ~MayTake(m, b) /\ ~LeasedBy(m, b)
Found(m) == FindSet(blocks[m.kind], LastAsked(m) - m.lo + 1)

Alternate(m) ==
    /\ Unavailable(m) /\ conf.alternate
    /\ \E f \in Found(m) :
          /\ blocks' = [WithSource(m) EXCEPT ![m.kind] =
                Carve(@, f[1], HeldBlock(f[2], f[3], "assigned", AssignedId(m.ses, m.src),
                                         Lifetime[m.kind] + 1))]
          /\ sent' = sent \cup {Ack(m, f[2], LastCounted(f[2], f[3]), Lifetime[m.kind])}
    /\ UNCHANGED up

(* assign(count, ...) uses what findSet returns without a look at NULL.        *)
AlternateOfNone(m) ==
    /\ Unavailable(m) /\ conf.alternate /\ Found(m) = {}
    /\ up' = FALSE
    /\ UNCHANGED <<blocks, sent>>

(* FAIL_OTHER, FAIL_TOO_LARGE or FAIL_CONFLICT: such an ACK promises nothing.   *)
Refuse(m) ==
    /\ \/ SourceRefused(m)
       \/ TooLarge(m) /\ ~conf.alternate
       \/ Unavailable(m) /\ ~conf.alternate
    /\ UNCHANGED <<blocks, sent, up>>

processRequest(m) ==
    /\ Ready
    /\ \/ Refuse(m)
       \/ /\ ~SourceRefused(m) /\ (TooLarge(m) => conf.alternate)
          /\ Lease(m) \/ Confirm(m) \/ Alternate(m) \/ AlternateOfNone(m)
    /\ UNCHANGED conf

----------------------------------------------------------------------------
(* processRelease: a lease is released by the block it names exactly, and a    *)
(* source that was leased apart goes with it.                                  *)
Releasable(B, m, lo, hi) ==
    {b \in Container(B, lo, hi) : LeasedBy(m, b) /\ Size(b) = hi - lo + 1}
ReleaseIn(B, m, lo, hi) ==
    IF Releasable(B, m, lo, hi) = {} THEN B ELSE Timeout(B, BlockAt(B, lo))

processRelease(m) ==
    /\ Ready /\ MaxAddr[m.kind] > 0
    /\ Releasable(blocks[m.kind], m, m.lo, m.hi) # {}
    /\ LET set == [blocks EXCEPT ![m.kind] = ReleaseIn(@, m, m.lo, m.hi)]
       IN  blocks' = IF SourceInPool(m)
                     THEN [set EXCEPT !["unicast"] = ReleaseIn(@, m, m.src, m.src)]
                     ELSE set
    /\ sent' = {p \in sent : p.type # "ACK" \/ p.ses # m.ses \/ p.src # m.src}
    /\ UNCHANGED <<conf, up>>

----------------------------------------------------------------------------
(* TimerList::check fires the timers that are due, one after the other.        *)
Expire ==
    /\ up
    /\ \E k \in Kinds : \E b \in Due(blocks[k]) :
          blocks' = [blocks EXCEPT ![k] = Timeout(@, b)]
    /\ UNCHANGED <<conf, sent, up>>

(* A second passes once no timer is due.  OFFERs and ACKs are dropped when     *)
(* they are over, ACKs Late seconds after, so that a renewal can come late.    *)
Tick ==
    /\ Ready
    /\ blocks' = [k \in Kinds |-> Elapse(blocks[k])]
    /\ sent' = {[p EXCEPT !.left = @ - 1] : p \in {q \in sent : q.left > IF q.type = "ACK" THEN -Late ELSE 1}}
    /\ UNCHANGED <<conf, up>>
=============================================================================
