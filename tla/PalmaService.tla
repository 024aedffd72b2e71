---------------------------- MODULE PalmaService ----------------------------
(* The server and the packets its clients send it, in any order, late, twice   *)
(* or never: a session answers one OFFER with one REQUEST (RequestingState),   *)
(* retries it, renews what an ACK gave it and releases it.                     *)
EXTENDS PalmaServer

CONSTANTS Sizes,     \* sizes that DISCOVERs ask for
          Wants,     \* Wants[s]: the kind of the client's CLAIM_SET
          OwnAddr,   \* OwnAddr[s]: the preassigned address of the client, or 0
          Known,     \* Known[s]: sets <<first, last>> it asks a known server for
          MaxClaim   \* MaxClaim[s]: most addresses it wants (MAX_ADDR_CLAIM)

ASSUME ClientsAssumption ==
    /\ Sizes \subseteq Nat \ {0} /\ Wants \in [Sessions -> Kinds]
    /\ OwnAddr \in [Sessions -> Nat] /\ MaxClaim \in [Sessions -> Nat \ {0}]
    /\ \A s \in Sessions : /\ Known[s] \subseteq Int \X Int /\ \A c \in Known[s] : c[1] <= c[2]
                           /\ Known[s] # {} => OwnAddr[s] # 0

VARIABLE req  \* req[s]: the REQUEST of session s (RequestingState::m_pkt), once sent

vars == <<blocks, conf, sent, up, req>>

NoReq == [ses |-> 0]
Request(s, src, kind, lo, hi, renewal) ==
    [ses |-> s, src |-> src, kind |-> kind, lo |-> lo, hi |-> hi, renewal |-> renewal]

Init == ServerInit /\ req = [s \in Sessions |-> NoReq]

(* A session discovers until it has an answer; then it requests, and restart() *)
(* makes the next DISCOVER one of another session (token).                     *)
Discover(s, size) ==
    /\ req[s] = NoReq /\ Known[s] = {}
    /\ processClaim([ses |-> s, kind |-> Wants[s], size |-> size,
                     src |-> IF OwnAddr[s] = 0 THEN ProbeSrc ELSE OwnAddr[s]])
    /\ UNCHANGED req

(* A slip: the client asks for the last addresses of the offer.                *)
TakeOfferLast(s, o) ==
    /\ o.type = "OFFER" /\ o.ses = s /\ req[s] = NoReq
    /\ req' = [req EXCEPT ![s] =
          Request(s, IF OwnAddr[s] # 0 THEN OwnAddr[s] ELSE IF o.addr # 0 THEN o.addr ELSE o.lo,
                  o.kind, o.hi - AtMost(o.hi - o.lo + 1, MaxClaim[s]) + 1, o.hi, FALSE)]
    /\ UNCHANGED svars

(* DiscoveryTimer::timeout and RequestingState::start: the client asks for the *)
(* first addresses of the offer, from its own address, the one offered to it,  *)
(* or the first of the set.                                                    *)
TakeOffer(s, o) ==
    /\ o.type = "OFFER" /\ o.ses = s /\ req[s] = NoReq
    /\ req' = [req EXCEPT ![s] =
          Request(s, IF OwnAddr[s] # 0 THEN OwnAddr[s] ELSE IF o.addr # 0 THEN o.addr ELSE o.lo,
                  o.kind, o.lo, AtMost(o.hi, o.lo + MaxClaim[s] - 1), FALSE)]
    /\ UNCHANGED svars

(* PalmaClient::begin with a known server and a preassigned address.           *)
AskKnown(s) ==
    /\ req[s] = NoReq
    /\ \E c \in Known[s] :
          req' = [req EXCEPT ![s] = Request(s, OwnAddr[s], Wants[s], c[1], c[2], FALSE)]
    /\ UNCHANGED svars

SendRequest(s) == req[s] # NoReq /\ processRequest(req[s]) /\ UNCHANGED req

(* BoundState: renewal and release of what an ACK gave.                        *)
Renewal(p) == Request(p.ses, p.src, p.kind, p.lo, p.hi, TRUE)
Renew(p) ==
    /\ p.type = "ACK"
    /\ processRequest(Renewal(p))
    /\ UNCHANGED req
Release(p) ==
    /\ p.type = "ACK"
    /\ processRelease(Request(p.ses, p.src, p.kind, p.lo, p.hi, FALSE))
    /\ UNCHANGED req

ClientStep ==
    \/ \E s \in Sessions : \/ \E size \in Sizes : Discover(s, size)
                           \/ \E o \in sent : TakeOffer(s, o)
                           \/ AskKnown(s) \/ SendRequest(s)
    \/ \E p \in sent : Renew(p) \/ Release(p)
TimeStep == (Expire \/ Tick) /\ UNCHANGED req

Next == ClientStep \/ TimeStep

(* The event loop calls TimerList::check before it waits for packets.          *)
Spec == Init /\ [][Next]_vars /\ WF_vars(Tick /\ UNCHANGED req) /\ WF_vars(Expire /\ UNCHANGED req)

----------------------------------------------------------------------------
TypeInvariant ==
    /\ \A k \in Kinds : \A b \in blocks[k] :
          /\ b.use \in {"free", "reserved", "assigned"} /\ b.left \in Nat
          /\ (b.use = "free") = (b.id = NoId)
          /\ b.use = "reserved" => \E s \in Sessions : b.id = ReservedId(s)
    /\ \A p \in sent : p.ses \in Sessions /\ p.left \in Int /\ p.left >= -Late
    /\ DOMAIN req = Sessions /\ up \in BOOLEAN

(* Claims, requests, releases, timeouts and their roll-backs, in any order,    *)
(* lose no address of a pool and give none to two blocks.                      *)
PoolsTiled == \A k \in Kinds : Tiles(blocks[k], Pool[k][1], Pool[k][2])

LiveAck(p) == p.type = "ACK" /\ p.left > 0

(* The server keeps its word: as long as an ACK it sent promises a set, one    *)
(* block of the session under that source covers the set, and its timer runs   *)
(* longer than the promise (the second that both assign()s add), whatever      *)
(* retries, late renewals and other clients' packets come in between.  Only    *)
(* the session itself can change it, by a REQUEST for a part of the set.       *)
Superseded(p) ==
    \E q \in sent \ {p} :
        /\ LiveAck(q) /\ q.ses = p.ses /\ q.src = p.src /\ q.kind = p.kind
        /\ p.left <= q.left /\ (p.lo .. p.hi) \cap (q.lo .. q.hi) # {}
PromisesKept ==
    up => \A p \in sent : LiveAck(p) =>
        \/ Superseded(p)
        \/ \E b \in blocks[p.kind] :
               LeasedBy(p, b) /\ b.lo <= p.lo /\ p.hi <= b.hi /\ b.left > p.left

(* The address given to a client beside its set is leased for as long.         *)
SourcesKept ==
    up => \A p \in sent : (LiveAck(p) /\ SourceInPool(p)) =>
        LeasedBy(p, SourceBlock(p)) /\ SourceBlock(p).left > p.left

(* Until a session has answered an OFFER, the set and the address of each of   *)
(* its OFFERs stay reserved for it.                                            *)
OffersKept ==
    up => \A p \in sent : (p.type = "OFFER" /\ p.left > 0 /\ req[p.ses] = NoReq) =>
        /\ \E b \in blocks[p.kind] :
               ReservedFor(p, b) /\ b.lo = p.lo /\ b.hi = p.hi /\ b.left >= p.left
        /\ p.addr # 0 => ReservedFor(p, BlockAt(blocks["unicast"], p.addr))

(* What is reserved was offered: a claim that ends in no OFFER leaves nothing. *)
ReservedWasOffered ==
    \A k \in Kinds : \A b \in blocks[k] : (b.use = "reserved" /\ b.left > 0) =>
        \E p \in sent : p.type = "OFFER" /\ ReservedFor(p, b)
                        /\ ((p.kind = k /\ p.lo = b.lo) \/ (k = "unicast" /\ p.addr = b.lo))

(* When the lease of the source has taken away the block that the set was      *)
(* found in, what is left of it under that pointer still holds the set: for a  *)
(* client of a pool that asks from an address of the pool.                     *)
Pending == {req[s] : s \in {t \in Sessions : req[t] # NoReq}}
           \cup {Renewal(p) : p \in {q \in sent : q.type = "ACK"}}
ContainerHolds ==
    \A m \in Pending : ~SourceRefused(m) => StillHolds(m)

(* Without renewal a session that goes quiet, or only repeats itself, loses    *)
(* every address in the end: the pool cannot be drained by lost clients.       *)
HeldBy(k, a, s) == LET b == BlockAt(blocks[k], a) IN ~IsFree(b) /\ b.id[1] = s
LeasesEnd ==
    \A k \in Kinds, s \in Sessions : \A a \in Pool[k][1] .. Pool[k][2] :
        (HeldBy(k, a, s) /\ ~conf.renewal) ~> (~HeldBy(k, a, s) \/ ~up)

(* palma-server.cpp:285 answers a REQUEST for which there is no alternate set  *)
(* either with FAIL_CONFLICT: an exhausted pool is no reason to stop.          *)
ExhaustionIsRefused == up
=============================================================================
