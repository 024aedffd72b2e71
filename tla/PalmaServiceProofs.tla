--------------------------- MODULE PalmaServiceProofs ---------------------------
(* What the server and its clients' packets keep, for any number of sessions,  *)
(* any pools, lifetimes and sizes, in any order of the packets.                *)
EXTENDS PalmaService, PalmaServerProofs

----------------------------------------------------------------------------
(* The inductive invariant's base: what a session's REQUEST, the packets sent  *)
(* to it and the blocks held for it have to do with each other.                *)
Offers == [type : {"OFFER"}, ses : Sessions, kind : Kinds, lo : Int, hi : Int, addr : Int, left : Nat]
Acks   == [type : {"ACK"}, ses : Sessions, src : Int, kind : Kinds, lo : Int, hi : Int, left : Int]

Asks(s) == req[s] # NoReq
AskedSize(s) == LastAsked(req[s]) - req[s].lo + 1

OwnReq(s, r) == IsRequest(r) /\ r.ses = s /\ r.kind = Wants[s] /\ ~r.renewal

OfferOk(p) == /\ p \in Offers /\ p.kind = Wants[p.ses] /\ p.lo <= p.hi /\ p.left <= ReserveLife
              /\ p.left = 0 => ReserveLife = 0
              /\ p.kind = "unicast" => p.addr = 0
              /\ p.hi - p.lo + 1 <= MaxAddr[p.kind]
AckOk(p) == /\ p \in Acks /\ Asks(p.ses) /\ p.src = req[p.ses].src /\ p.kind = Wants[p.ses]
            /\ p.lo <= p.hi /\ p.hi - p.lo + 1 <= AskedSize(p.ses)
            /\ -Late <= p.left /\ p.left <= Lifetime[p.kind]

(* A block is reserved for a session, or leased by one under the source of its *)
(* REQUEST: the set that it asks for, or part of it, or the source itself.     *)
ReservedBy(s, b) == b.use = "reserved" /\ b.id = ReservedId(s)
AssignedTo(s, b) == b.use = "assigned" /\ b.id = AssignedId(s, req[s].src)
LeaseOk(s, k, b) == /\ Asks(s) /\ AssignedTo(s, b) /\ k \in {Wants[s], "unicast"}
                    /\ b.left <= Lifetime[Wants[s]] + 1
                    /\ k = Wants[s] => Size(b) <= AskedSize(s)
HeldFor(k, b) == \E s \in Sessions : ReservedBy(s, b) \/ LeaseOk(s, k, b)

Typed == /\ conf \in [alternate : BOOLEAN, renewal : BOOLEAN] /\ up \in BOOLEAN
         /\ req \in [Sessions -> Requests \cup {NoReq}]
ReqOk == \A s \in Sessions : Asks(s) => OwnReq(s, req[s])
SentOk == \A p \in sent : OfferOk(p) \/ AckOk(p)
Holders == \A k \in Kinds : \A b \in H(k) : HeldFor(k, b)

Base == Databases /\ Typed /\ ReqOk /\ SentOk /\ Holders

----------------------------------------------------------------------------
(* A step of the service is one of six.  A REQUEST is the session's own or a   *)
(* renewal of what an ACK gave it.                                             *)
Heard(m) ==
    /\ IsRequest(m) /\ Asks(m.ses) /\ m.src = req[m.ses].src /\ m.kind = Wants[m.ses]
    /\ \/ m = req[m.ses]
       \/ /\ m.renewal
          /\ \E p \in sent : /\ p.type = "ACK" /\ p.ses = m.ses /\ p.lo = m.lo /\ p.hi = m.hi

Fades == /\ UNCHANGED <<sent, req>>
         /\ \A k \in Kinds : /\ Held(blocks'[k]) \subseteq H(k)
                             /\ \A b \in H(k) \ Held(blocks'[k]) : b.left = 0
Reserves(m, n, g) == /\ IsClaim(m) /\ ~Asks(m.ses) /\ m.kind = Wants[m.ses] /\ Known[m.ses] = {}
                     /\ Claims(m, n, g) /\ UNCHANGED req
Origin(s, r) == \/ OwnAddr[s] # 0 /\ r.src = OwnAddr[s] /\ Known[s] # {}
                \/ \E o \in sent :
                      /\ o.type = "OFFER" /\ o.ses = s /\ r.lo = o.lo /\ r.hi <= o.hi
                      /\ r.src = IF OwnAddr[s] # 0 THEN OwnAddr[s]
                                 ELSE IF o.addr # 0 THEN o.addr ELSE o.lo
Decides(s, r) == /\ ~Asks(s) /\ OwnReq(s, r) /\ Origin(s, r)
                 /\ req' = [req EXCEPT ![s] = r] /\ UNCHANGED <<blocks, sent>>
Frees(m) == /\ Heard(m) /\ UNCHANGED req
            /\ sent' = {p \in sent : p.type # "ACK" \/ p.ses # m.ses \/ p.src # m.src}
            /\ \A k \in Kinds : /\ Held(blocks'[k]) \subseteq H(k)
                                /\ \A b \in H(k) \ Held(blocks'[k]) : LeasedBy(m, b)
Earlier(p) == [p EXCEPT !.left = @ - 1]
Lasts(p) == p.left > IF p.type = "ACK" THEN -Late ELSE 1
Passes == /\ sent' = {Earlier(p) : p \in {q \in sent : Lasts(q)}} /\ UNCHANGED req
          /\ \A k \in Kinds : \A b \in H(k) : b.left > 0 /\ b \in BlockOf(SecurityIds)
          /\ \A k \in Kinds : Held(blocks'[k]) = {Later(b) : b \in H(k)}

Step == \/ Fades \/ Passes
        \/ \E m, n, g : Reserves(m, n, g)
        \/ \E s \in Sessions : \E r : Decides(s, r)
        \/ \E m, b, n : Heard(m) /\ Leases(m, b, n) /\ b \in blocks[m.kind]
                        /\ n \in BlockOf(SecurityIds) /\ UNCHANGED req
        \/ \E m, b : Heard(m) /\ Confirms(m, b) /\ UNCHANGED req
        \/ \E m : Frees(m)

LEMMA SteadyReq ==
    ASSUME Base, NEW s \in Sessions, Asks(s)
    PROVE  OwnReq(s, req[s]) /\ Heard(req[s]) /\ req[s].lo <= req[s].hi
BY DEF Base, ReqOk, Heard, OwnReq, IsRequest

LEMMA AckHeard ==
    ASSUME Base, NEW p \in sent, p.type = "ACK", NEW renewal \in BOOLEAN
    PROVE  LET m == Request(p.ses, p.src, p.kind, p.lo, p.hi, renewal)
           IN  IsRequest(m) /\ (renewal => Heard(m)) /\ AckOk(p)
<1>1. AckOk(p)
  BY DEF Base, SentOk, OfferOk, Offers
<1> QED BY <1>1 DEF AckOk, Acks, Request, IsRequest, Requests, Heard

LEMMA RequestStep ==
    ASSUME FitsTheWire, Base, NEW m, Heard(m), processRequest(m), UNCHANGED req
    PROVE  Databases' /\ Step /\ UNCHANGED conf /\ up' \in BOOLEAN
<1>1. IsRequest(m) /\ Databases /\ up \in BOOLEAN
  BY DEF Heard, Base, Typed
<1>2. /\ Databases' /\ UNCHANGED conf /\ (UNCHANGED up \/ up' = FALSE)
      /\ \/ UNCHANGED <<blocks, sent>>
         \/ \E b \in Asked(m) : Confirms(m, b)
         \/ \E b \in blocks[m.kind], n \in BlockOf(SecurityIds) : Leases(m, b, n)
  BY <1>1, RequestEffect
<1>3. CASE UNCHANGED <<blocks, sent>>
  BY <1>1, <1>2, <1>3 DEF Step, Fades, H
<1>4. CASE \E b \in Asked(m) : Confirms(m, b)
  BY <1>1, <1>2, <1>4 DEF Step
<1>5. CASE \E b \in blocks[m.kind], n \in BlockOf(SecurityIds) : Leases(m, b, n)
  BY <1>1, <1>2, <1>5 DEF Step
<1> QED BY <1>2, <1>3, <1>4, <1>5

LEMMA NextIsStep ==
    ASSUME FitsTheWire, Base, [Next]_vars
    PROVE  Databases' /\ Step /\ UNCHANGED conf /\ up' \in BOOLEAN
<1>1. Databases /\ up \in BOOLEAN
  BY DEF Base, Typed
<1>2. ASSUME NEW s \in Sessions, NEW size \in Sizes, Discover(s, size)
      PROVE  Databases' /\ Step /\ UNCHANGED conf /\ up' \in BOOLEAN
  <2> DEFINE m == [ses |-> s, kind |-> Wants[s], size |-> size,
                   src |-> IF OwnAddr[s] = 0 THEN ProbeSrc ELSE OwnAddr[s]]
  <2>1. IsClaim(m) /\ m.ses = s /\ m.kind = Wants[s]
    BY ClientsAssumption DEF IsClaim
  <2>2. processClaim(m) /\ ~Asks(s) /\ Known[s] = {} /\ UNCHANGED req
    BY <1>2 DEF Discover, Asks
  <2> HIDE DEF m
  <2>3. /\ Databases' /\ UNCHANGED <<conf, up>>
        /\ \/ UNCHANGED sent /\ \A k \in Kinds : Held(blocks'[k]) = H(k)
           \/ \E n, g \in BlockOf(SecurityIds) : Claims(m, n, g)
    BY <1>1, <2>1, <2>2, ClaimEffect
  <2>4. CASE UNCHANGED sent /\ \A k \in Kinds : Held(blocks'[k]) = H(k)
    BY <1>1, <2>2, <2>3, <2>4 DEF Step, Fades
  <2>5. CASE \E n, g \in BlockOf(SecurityIds) : Claims(m, n, g)
    BY <1>1, <2>1, <2>2, <2>3, <2>5 DEF Step, Reserves
  <2> QED BY <2>3, <2>4, <2>5
<1>3. ASSUME NEW s \in Sessions, NEW o \in sent, TakeOffer(s, o)
      PROVE  Databases' /\ Step /\ UNCHANGED conf /\ up' \in BOOLEAN
  <2> DEFINE r == Request(s, IF OwnAddr[s] # 0 THEN OwnAddr[s] ELSE IF o.addr # 0 THEN o.addr ELSE o.lo,
                          o.kind, o.lo, AtMost(o.hi, o.lo + MaxClaim[s] - 1), FALSE)
  <2>1. o \in Offers /\ o.kind = Wants[s] /\ o.lo <= o.hi /\ o.ses = s
    BY <1>3 DEF Base, SentOk, OfferOk, AckOk, Acks, TakeOffer
  <2>2. MaxClaim[s] \in Nat \ {0} /\ OwnAddr[s] \in Nat
    BY ClientsAssumption
  <2>3. OwnReq(s, r) /\ r.lo = o.lo /\ r.hi <= o.hi
    BY <2>1, <2>2 DEF OwnReq, IsRequest, Requests, Request, Offers, AtMost
  <2>4. r.src = IF OwnAddr[s] # 0 THEN OwnAddr[s] ELSE IF o.addr # 0 THEN o.addr ELSE o.lo
    BY DEF Request
  <2>5. req' = [req EXCEPT ![s] = r] /\ ~Asks(s) /\ UNCHANGED svars /\ o.type = "OFFER"
    BY <1>3 DEF TakeOffer, Asks
  <2> HIDE DEF r
  <2>6. Origin(s, r)
    BY <2>1, <2>3, <2>4, <2>5 DEF Origin
  <2> QED BY <1>1, <2>3, <2>5, <2>6 DEF Step, Decides, svars, Databases
<1>4. ASSUME NEW s \in Sessions, AskKnown(s)
      PROVE  Databases' /\ Step /\ UNCHANGED conf /\ up' \in BOOLEAN
  <2>1. PICK c \in Known[s] :
            req' = [req EXCEPT ![s] = Request(s, OwnAddr[s], Wants[s], c[1], c[2], FALSE)]
    BY <1>4 DEF AskKnown
  <2> DEFINE r == Request(s, OwnAddr[s], Wants[s], c[1], c[2], FALSE)
  <2>2. c \in Int \X Int /\ c[1] <= c[2] /\ OwnAddr[s] \in Nat /\ OwnAddr[s] # 0
    BY ClientsAssumption
  <2>3. c[1] \in Int /\ c[2] \in Int /\ Wants[s] \in Kinds
    BY <2>2, ClientsAssumption
  <2>4. OwnReq(s, r) /\ r.src = OwnAddr[s]
    BY <2>2, <2>3 DEF OwnReq, IsRequest, Requests, Request
  <2>5. req' = [req EXCEPT ![s] = r] /\ ~Asks(s) /\ UNCHANGED svars
    BY <1>4, <2>1 DEF AskKnown, Asks
  <2> HIDE DEF r
  <2> QED BY <1>1, <2>2, <2>4, <2>5 DEF Step, Decides, Origin, svars, Databases
<1>5. ASSUME NEW s \in Sessions, SendRequest(s)
      PROVE  Databases' /\ Step /\ UNCHANGED conf /\ up' \in BOOLEAN
  BY <1>5, SteadyReq, RequestStep DEF SendRequest, Asks
<1>6. ASSUME NEW p \in sent, Renew(p)
      PROVE  Databases' /\ Step /\ UNCHANGED conf /\ up' \in BOOLEAN
  <2> DEFINE m == Renewal(p)
  <2>1. Heard(m)
    BY <1>6, AckHeard DEF Renew, Renewal
  <2>2. processRequest(m) /\ UNCHANGED req
    BY <1>6 DEF Renew
  <2> HIDE DEF m
  <2> QED BY <2>1, <2>2, RequestStep
<1>7. ASSUME NEW p \in sent, Release(p)
      PROVE  Databases' /\ Step /\ UNCHANGED conf /\ up' \in BOOLEAN
  <2> DEFINE m == Request(p.ses, p.src, p.kind, p.lo, p.hi, FALSE)
             r == Request(p.ses, p.src, p.kind, p.lo, p.hi, TRUE)
  <2>1. IsRequest(m) /\ Heard(r)
    BY <1>7, AckHeard DEF Release
  <2>2. processRelease(m) /\ UNCHANGED req
    BY <1>7 DEF Release
  <2>3. m.ses = r.ses /\ m.src = r.src /\ \A b : LeasedBy(m, b) <=> LeasedBy(r, b)
    BY DEF Request, LeasedBy
  <2> HIDE DEF m, r
  <2>4. /\ Databases' /\ UNCHANGED <<conf, up>>
        /\ sent' = {q \in sent : q.type # "ACK" \/ q.ses # m.ses \/ q.src # m.src}
        /\ \A k \in Kinds : /\ Held(blocks'[k]) \subseteq H(k)
                            /\ \A b \in H(k) \ Held(blocks'[k]) : LeasedBy(m, b)
    BY <1>1, <2>1, <2>2, ReleaseEffect
  <2>5. Frees(r)
    BY <2>1, <2>2, <2>3, <2>4 DEF Frees
  <2> QED BY <1>1, <2>4, <2>5 DEF Step
<1>8. CASE Expire /\ UNCHANGED req
  BY <1>1, <1>8, ExpireEffect DEF Step, Fades
<1>9. CASE Tick /\ UNCHANGED req
  <2>1. sent' = {Earlier(p) : p \in {q \in sent : Lasts(q)}}
    BY <1>9 DEF Tick, Earlier, Lasts
  <2> QED BY <1>1, <1>9, <2>1, TickEffect DEF Step, Passes
<1>10. CASE UNCHANGED vars
  BY <1>1, <1>10 DEF vars, Step, Fades, H, Databases
<1> QED BY <1>2, <1>3, <1>4, <1>5, <1>6, <1>7, <1>8, <1>9, <1>10
        DEF Next, ClientStep, TimeStep

----------------------------------------------------------------------------
LEMMA HeardIs ==
    ASSUME Base, NEW m, Heard(m)
    PROVE  /\ LastAsked(m) - m.lo + 1 <= AskedSize(m.ses) /\ LastAsked(m) <= m.hi
           /\ LastAsked(m) \in Int /\ m.ses \in Sessions
           /\ m.kind \in Kinds /\ MaxAddr[m.kind] \in Nat /\ Lifetime[m.kind] \in Nat
           /\ m \in Requests /\ m.lo <= m.hi /\ AskedSize(m.ses) \in Int
<1>1. /\ m \in Requests /\ m.kind \in Kinds /\ MaxAddr[m.kind] \in Nat /\ m.ses \in Sessions
      /\ Lifetime[m.kind] \in Nat /\ m.lo <= m.hi /\ m.lo \in Int /\ m.hi \in Int
  BY KindsAssumption DEF Heard, IsRequest, Requests
<1>2. LastAsked(m) \in Int /\ LastAsked(m) <= m.hi
  BY <1>1 DEF LastAsked, TooLarge
<1>3. req[m.ses] \in Requests /\ req[m.ses].kind \in Kinds
  BY <1>1, SteadyReq DEF Heard, OwnReq, IsRequest, Requests
<1>4. AskedSize(m.ses) \in Int
  BY <1>3, KindsAssumption DEF AskedSize, LastAsked, TooLarge, Requests
<1>5. CASE m = req[m.ses]
  BY <1>1, <1>2, <1>4, <1>5 DEF AskedSize
<1>6. CASE \E p \in sent : p.type = "ACK" /\ p.ses = m.ses /\ p.lo = m.lo /\ p.hi = m.hi
  <2>1. PICK p \in sent : p.type = "ACK" /\ p.ses = m.ses /\ p.lo = m.lo /\ p.hi = m.hi
    BY <1>6
  <2>2. AckOk(p)
    BY <2>1, AckHeard
  <2> QED BY <1>1, <1>2, <1>4, <2>1, <2>2 DEF AckOk
<1> QED BY <1>1, <1>2, <1>4, <1>5, <1>6 DEF Heard

LEMMA LeasesIs ==
    ASSUME FitsTheWire, Base, NEW m, Heard(m), NEW b, NEW n, Leases(m, b, n), n \in BlockOf(SecurityIds)
    PROVE  /\ n.use = "assigned" /\ n.id = AssignedId(m.ses, m.src)
           /\ n.left = Lifetime[m.kind] + 1 /\ n.lo \in Int /\ n.hi \in Int /\ n.lo <= n.hi
           /\ Size(n) <= AskedSize(m.ses) /\ n.hi - n.lo <= LastAsked(m) - m.lo
           /\ Ack(m, n.lo, n.hi, Lifetime[m.kind]).left = Lifetime[m.kind]
<1>1. /\ n.use = "assigned" /\ n.id = AssignedId(m.ses, m.src) /\ n.left = Lifetime[m.kind] + 1
      /\ n.lo \in Int /\ n.hi \in Int /\ n.lo <= n.hi
  BY DEF Leases, HeldBlock, BlockOf
<1>2. n.hi - n.lo <= LastAsked(m) - m.lo
  BY <1>1, HeardIs DEF Leases, Requests
<1>3. m.lo \in Int
  BY HeardIs DEF Requests
<1> QED BY <1>1, <1>2, <1>3, HeardIs DEF Size, Ack

LEMMA LeasesHold ==
    ASSUME NEW m, NEW b, NEW n, Leases(m, b, n), NEW k \in Kinds, NEW c \in Held(blocks'[k])
    PROVE  \/ c \in H(k)
           \/ k = m.kind /\ c = n
           \/ k = "unicast" /\ SourceApart(m) /\ c = SourceLease(m)
<1>1. Held(blocks'[k]) = IF k = m.kind THEN (Middle(m, k) \ {b}) \cup {n} ELSE Middle(m, k)
  BY DEF Leases
<1>2. c \in Middle(m, k) \/ (k = m.kind /\ c = n)
  BY <1>1
<1> QED BY <1>2 DEF Middle

LEMMA SourceLeaseIs ==
    ASSUME Base, NEW m, Heard(m)
    PROVE  LET n == SourceLease(m)
           IN  /\ n.use = "assigned" /\ n.id = AssignedId(m.ses, m.src) /\ Addrs(n) = {m.src}
               /\ n.left = Lifetime[m.kind] + 1 /\ n.lo = m.src /\ n.hi = m.src /\ Size(n) = 1
<1>1. m.src \in Int
  BY HeardIs DEF Requests
<1> QED BY <1>1 DEF SourceLease, HeldBlock, Addrs, Size

(* A lease that Confirm reports.                                               *)
LEMMA ConfirmsIs ==
    ASSUME FitsTheWire, Base, NEW m, Heard(m), NEW b, Confirms(m, b)
    PROVE  /\ b \in H(m.kind) /\ b \in blocks[m.kind] /\ b \in BlockOf(SecurityIds)
           /\ m.lo \in Addrs(b) /\ b.lo <= m.lo /\ LastAsked(m) <= b.hi /\ m.lo <= LastAsked(m)
           /\ LifetimeLeft(b) = (IF b.left > 0 THEN b.left - 1 ELSE 0) /\ b.left \in Nat
           /\ b.left <= Lifetime[m.kind] + 1 /\ Size(b) <= AskedSize(m.ses)
<1>1. /\ b \in blocks[m.kind] /\ m.lo \in Addrs(b) /\ b.lo <= m.lo /\ LastAsked(m) <= b.hi
      /\ m.lo <= LastAsked(m)
  BY AskedBlock, AskedIs DEF Confirms, Base, Heard
<1>2. b \in H(m.kind)
  BY <1>1 DEF Confirms, LeasedBy, H, Held, IsFree
<1>3. b \in BlockOf(SecurityIds) /\ b.left \in Nat
  BY <1>1, HeardIs, BlocksAre DEF Base, Databases
<1>4. LifetimeLeft(b) = (IF b.left > 0 THEN b.left - 1 ELSE 0)
  BY <1>3 DEF LifetimeLeft, Confirms, LeasedBy
<1>5. PICK s \in Sessions : ReservedBy(s, b) \/ LeaseOk(s, m.kind, b)
  BY <1>2, HeardIs DEF Base, Holders, HeldFor
<1>6. b.use = "assigned" /\ b.id = AssignedId(m.ses, m.src)
  BY DEF Confirms, LeasedBy
<1>7. s = m.ses /\ LeaseOk(m.ses, m.kind, b)
  BY <1>5, <1>6 DEF ReservedBy, LeaseOk, AssignedTo, AssignedId
<1>8. m.kind = Wants[m.ses]
  BY DEF Heard
<1> QED BY <1>1, <1>2, <1>3, <1>4, <1>7, <1>8 DEF LeaseOk

----------------------------------------------------------------------------
LEMMA BaseInit == Init => Base
<1> SUFFICES ASSUME Init PROVE Base
  OBVIOUS
<1>1. Databases
  <2>1. \A k \in Kinds : blocks[k] = {FreeBlock(Pool[k][1], Pool[k][2])}
    BY DEF Init, ServerInit
  <2>2. ASSUME NEW k \in Kinds PROVE Sound(k, blocks[k])
    <3>1. SoundIn({FreeBlock(Pool[k][1], Pool[k][2])}, SecurityIds, Pool[k][1], Pool[k][2])
      BY PoolIs, WholeSoundIn
    <3> QED BY <2>1, <3>1 DEF Sound
  <2>3. \A k \in Kinds : blocks[k] \in SUBSET BlockOf(SecurityIds)
    BY <2>2 DEF Sound, SoundIn, WellFormed
  <2> QED BY <2>2, <2>3 DEF Init, ServerInit, Databases
<1>2. \A k \in Kinds : H(k) = {}
  BY DEF Init, ServerInit, H, Held, FreeBlock, IsFree
<1> QED BY <1>1, <1>2 DEF Init, ServerInit, Base, Typed, ReqOk, SentOk, Holders, Asks

(* What is said of a block or an ACK stays true as long as the REQUEST of its  *)
(* session is the same.                                                        *)
LEMMA SameReq ==
    ASSUME UNCHANGED req, NEW k, NEW b
    PROVE  HeldFor(k, b)' <=> HeldFor(k, b)
BY DEF HeldFor, ReservedBy, LeaseOk, AssignedTo, Asks, AskedSize

LEMMA SameAck ==
    ASSUME UNCHANGED req, NEW p
    PROVE  (AckOk(p)' <=> AckOk(p)) /\ (OfferOk(p)' <=> OfferOk(p))
BY DEF AckOk, OfferOk, Asks, AskedSize

LEMMA BaseFades ==
    ASSUME Base, Fades
    PROVE  ReqOk' /\ SentOk' /\ Holders'
<1>1. ReqOk'
  BY DEF Fades, Base, ReqOk, Asks, OwnReq
<1>2. SentOk'
  BY SameAck DEF Fades, Base, SentOk
<1>3. Holders'
  BY SameReq DEF Fades, Base, Holders, H
<1> QED BY <1>1, <1>2, <1>3

LEMMA BasePasses ==
    ASSUME Base, Passes
    PROVE  ReqOk' /\ SentOk' /\ Holders'
<1>1. ReqOk'
  BY DEF Passes, Base, ReqOk, Asks, OwnReq
<1>2. ASSUME NEW p \in sent, Lasts(p) PROVE OfferOk(Earlier(p)) \/ AckOk(Earlier(p))
  <2>1. CASE OfferOk(p)
    BY <1>2, <2>1, KindsAssumption DEF OfferOk, Offers, Lasts, Earlier
  <2>2. CASE AckOk(p)
    <3>1. Lifetime[p.kind] \in Nat /\ Late \in Nat
      BY <2>2, KindsAssumption DEF AckOk, Acks
    <3> QED BY <1>2, <2>2, <3>1 DEF AckOk, Acks, Lasts, Earlier
  <2> QED BY <2>1, <2>2 DEF Base, SentOk
<1>3. SentOk'
  BY <1>2, SameAck DEF Passes, SentOk
<1>4. ASSUME NEW k \in Kinds, NEW b \in H(k) PROVE HeldFor(k, Later(b))
  <2>1. b.left > 0 /\ b \in BlockOf(SecurityIds)
    BY <1>4 DEF Passes
  <2>2. /\ Later(b).lo = b.lo /\ Later(b).hi = b.hi /\ Later(b).use = b.use
        /\ Later(b).id = b.id /\ Later(b).left = b.left - 1
    BY <2>1, LaterIs
  <2>3. PICK s \in Sessions : ReservedBy(s, b) \/ LeaseOk(s, k, b)
    BY <1>4 DEF Base, Holders, HeldFor
  <2>4. Wants[s] \in Kinds /\ Lifetime[Wants[s]] \in Nat /\ b.left \in Nat
    BY <2>1, KindsAssumption, ClientsAssumption DEF BlockOf
  <2>5. LeaseOk(s, k, b) => LeaseOk(s, k, Later(b))
    BY <2>2, <2>4 DEF LeaseOk, AssignedTo, Size
  <2> QED BY <2>2, <2>3, <2>5 DEF HeldFor, ReservedBy
<1>5. Holders'
  BY <1>4, SameReq DEF Passes, Holders, H
<1> QED BY <1>1, <1>3, <1>5

LEMMA BaseReserves ==
    ASSUME Base, NEW m, NEW n, NEW g, Reserves(m, n, g)
    PROVE  ReqOk' /\ SentOk' /\ Holders'
<1>1. ReqOk'
  BY DEF Reserves, Base, ReqOk, Asks, OwnReq
<1> DEFINE p == Offer(m, n, IF NeedsAddr(m) THEN g.lo ELSE 0)
<1>2. OfferOk(p)
  BY KindsAssumption DEF Reserves, IsClaim, Claims, Reservation, Offer, OfferOk, Offers, NeedsAddr
<1>3. SentOk'
  BY <1>2, SameAck DEF Reserves, Claims, Base, SentOk
<1>4. \A k : HeldFor(k, n) /\ HeldFor(k, g)
  BY DEF HeldFor, ReservedBy, Reserves, IsClaim, Claims, Reservation
<1>5. Holders'
  BY <1>4, SameReq DEF Reserves, Claims, Base, Holders, H
<1> QED BY <1>1, <1>3, <1>5

LEMMA BaseDecides ==
    ASSUME Base, NEW s \in Sessions, NEW r, Decides(s, r)
    PROVE  ReqOk' /\ SentOk' /\ Holders'
<1>1. req' = [req EXCEPT ![s] = r] /\ req \in [Sessions -> Requests \cup {NoReq}]
  BY DEF Decides, Base, Typed
<1>2. req'[s] = r /\ \A t \in Sessions \ {s} : req'[t] = req[t]
  BY <1>1
<1>3. ReqOk'
  BY <1>2 DEF Decides, Base, ReqOk, Asks, OwnReq
<1>4. \A p \in sent : AckOk(p) => p.ses \in Sessions \ {s}
  BY DEF AckOk, Acks, Decides
<1>5. SentOk'
  BY <1>2, <1>4 DEF Decides, Base, SentOk, AckOk, OfferOk, Asks, AskedSize
<1>6. ASSUME NEW k \in Kinds, NEW b \in H(k) PROVE HeldFor(k, b)'
  <2>1. PICK t \in Sessions : ReservedBy(t, b) \/ LeaseOk(t, k, b)
    BY <1>6 DEF Base, Holders, HeldFor
  <2>2. LeaseOk(t, k, b) => t # s
    BY DEF LeaseOk, Decides
  <2>3. LeaseOk(t, k, b) => LeaseOk(t, k, b)'
    BY <1>2, <2>2 DEF LeaseOk, AssignedTo, Asks, AskedSize
  <2> QED BY <2>1, <2>3 DEF HeldFor, ReservedBy
<1>7. Holders'
  BY <1>6 DEF Decides, Holders, H
<1> QED BY <1>3, <1>5, <1>7

LEMMA BaseLeases ==
    ASSUME FitsTheWire, Base, NEW m, Heard(m), NEW b, NEW n \in BlockOf(SecurityIds),
           Leases(m, b, n), UNCHANGED req
    PROVE  ReqOk' /\ SentOk' /\ Holders'
<1>1. ReqOk'
  BY DEF Base, ReqOk, Asks, OwnReq
<1> DEFINE p == Ack(m, n.lo, n.hi, Lifetime[m.kind])
<1>2. AckOk(p)
  <2>1. Size(n) <= AskedSize(m.ses) /\ n.lo \in Int /\ n.hi \in Int /\ n.lo <= n.hi
    BY LeasesIs
  <2>2. Late \in Nat /\ Asks(m.ses) /\ m.src = req[m.ses].src /\ m.kind = Wants[m.ses]
    BY KindsAssumption DEF Heard
  <2>3. m \in Requests /\ Lifetime[m.kind] \in Nat
    BY HeardIs
  <2> QED BY <2>1, <2>2, <2>3 DEF AckOk, Acks, Ack, Requests, Size
<1>3. SentOk'
  BY <1>2, SameAck DEF Leases, Base, SentOk
<1>4. HeldFor(m.kind, n) /\ HeldFor("unicast", SourceLease(m))
  <2>1. m.ses \in Sessions /\ m.kind = Wants[m.ses] /\ Asks(m.ses) /\ m.src = req[m.ses].src
    BY HeardIs DEF Heard
  <2>2. LeaseOk(m.ses, m.kind, n)
    BY <2>1, LeasesIs, HeardIs DEF LeaseOk, AssignedTo
  <2>3. 1 <= AskedSize(m.ses) /\ Lifetime[m.kind] \in Nat
    BY LeasesIs, HeardIs DEF Size
  <2>4. LeaseOk(m.ses, "unicast", SourceLease(m))
    BY <2>1, <2>3, SourceLeaseIs DEF LeaseOk, AssignedTo
  <2> QED BY <2>1, <2>2, <2>4 DEF HeldFor
<1>5. ASSUME NEW k \in Kinds, NEW c \in Held(blocks'[k]) PROVE HeldFor(k, c)
  <2>1. c \in Middle(m, k) \/ (k = m.kind /\ c = n)
    BY <1>5 DEF Leases
  <2>2. c \in H(k) \/ (k = "unicast" /\ c = SourceLease(m)) \/ (k = m.kind /\ c = n)
    BY <2>1 DEF Middle
  <2> QED BY <2>2, <1>4 DEF Base, Holders
<1>6. Holders'
  BY <1>5, SameReq DEF Holders, H
<1> QED BY <1>1, <1>3, <1>6

LEMMA BaseConfirms ==
    ASSUME FitsTheWire, Base, NEW m, Heard(m), NEW b, Confirms(m, b), UNCHANGED req
    PROVE  ReqOk' /\ SentOk' /\ Holders'
<1>1. ReqOk'
  BY DEF Base, ReqOk, Asks, OwnReq
<1> DEFINE p == Ack(m, m.lo, LastAsked(m), LifetimeLeft(b))
<1>2. AckOk(p)
  <2>1. /\ LifetimeLeft(b) \in Int /\ LifetimeLeft(b) <= Lifetime[m.kind] /\ 0 <= LifetimeLeft(b)
        /\ m.lo <= LastAsked(m)
    BY ConfirmsIs, HeardIs
  <2>2. Late \in Nat /\ Asks(m.ses) /\ m.src = req[m.ses].src /\ m.kind = Wants[m.ses]
    BY KindsAssumption DEF Heard
  <2>3. m \in Requests /\ LastAsked(m) \in Int /\ LastAsked(m) - m.lo + 1 <= AskedSize(m.ses)
    BY HeardIs
  <2> QED BY <2>1, <2>2, <2>3 DEF AckOk, Acks, Ack, Requests
<1>3. SentOk'
  BY <1>2, SameAck DEF Confirms, Base, SentOk
<1>4. Holders'
  BY SameReq DEF Confirms, Base, Holders, H
<1> QED BY <1>1, <1>3, <1>4

LEMMA BaseFrees ==
    ASSUME Base, NEW m, Frees(m)
    PROVE  ReqOk' /\ SentOk' /\ Holders'
<1>1. ReqOk'
  BY DEF Frees, Base, ReqOk, Asks, OwnReq
<1>2. SentOk'
  BY SameAck DEF Frees, Base, SentOk
<1>3. Holders'
  BY SameReq DEF Frees, Base, Holders, H
<1> QED BY <1>1, <1>2, <1>3

LEMMA BaseStep ==
    ASSUME FitsTheWire, Base, [Next]_vars
    PROVE  Base' /\ Step /\ UNCHANGED conf
<1>1. Databases' /\ Step /\ UNCHANGED conf /\ up' \in BOOLEAN
  BY NextIsStep
<1>2. Typed'
  BY <1>1 DEF Base, Typed, Step, Fades, Passes, Reserves, Decides, Frees, OwnReq, IsRequest
<1>3. ReqOk' /\ SentOk' /\ Holders'
  BY <1>1, BaseFades, BasePasses, BaseReserves, BaseDecides, BaseLeases, BaseConfirms, BaseFrees
     DEF Step
<1> QED BY <1>1, <1>2, <1>3 DEF Base

----------------------------------------------------------------------------
(* Whatever is in the databases is typed as the base says.                     *)
LEMMA BaseIsTyped ==
    ASSUME Base
    PROVE  TypeInvariant /\ PoolsTiled
<1>1. ASSUME NEW k \in Kinds, NEW b \in blocks[k]
      PROVE  /\ b.use \in {"free", "reserved", "assigned"} /\ b.left \in Nat
             /\ (b.use = "free") = (b.id = NoId)
             /\ b.use = "reserved" => \E s \in Sessions : b.id = ReservedId(s)
  <2>1. b \in BlockOf(SecurityIds) /\ b.left \in Nat /\ (IsFree(b) => b.id = NoId)
    BY BlocksAre DEF Base, Databases, Sound, SoundIn, WellFormed
  <2>2. CASE IsFree(b)
    BY <2>1, <2>2 DEF IsFree
  <2>3. CASE ~IsFree(b)
    <3>1. PICK s \in Sessions : ReservedBy(s, b) \/ LeaseOk(s, k, b)
      BY <1>1, <2>3 DEF Base, Holders, H, Held, HeldFor
    <3>2. LeaseOk(s, k, b) => req[s].src \in Int
      BY SteadyReq DEF LeaseOk, OwnReq, IsRequest, Requests
    <3>3. b.id # NoId
      BY <3>1, <3>2, IdsAre DEF ReservedBy, LeaseOk, AssignedTo
    <3> QED BY <2>1, <2>3, <3>1, <3>3 DEF ReservedBy, LeaseOk, AssignedTo, IsFree
  <2> QED BY <2>2, <2>3
<1>2. \A p \in sent : p.ses \in Sessions /\ p.left \in Int /\ p.left >= -Late
  BY KindsAssumption DEF Base, SentOk, OfferOk, AckOk, Offers, Acks
<1>3. DOMAIN req = Sessions /\ up \in BOOLEAN
  BY DEF Base, Typed
<1>4. PoolsTiled
  BY DEF Base, Databases, Sound, SoundIn, PoolsTiled
<1> QED BY <1>1, <1>2, <1>3, <1>4 DEF TypeInvariant

LEMMA BaseHolds ==
    ASSUME FitsTheWire
    PROVE  Spec => []Base
<1>1. Base /\ [Next]_vars => Base'
  BY BaseStep
<1> QED BY <1>1, BaseInit, PTL DEF Spec

(* The blocks are free, reserved or leased by a session, and what is sent goes *)
(* to one, whatever packets come to processClaim, processRequest and           *)
(* processRelease and whenever their timers fire.                              *)
THEOREM ServiceTyped ==
    ASSUME FitsTheWire
    PROVE  Spec => []TypeInvariant
<1>1. Base => TypeInvariant
  BY BaseIsTyped
<1> QED BY <1>1, BaseHolds, PTL

(* Claims, requests, releases, timeouts and the roll-back of a claim lose no   *)
(* address of a pool and give none to two blocks.                              *)
THEOREM ServiceTiles ==
    ASSUME FitsTheWire
    PROVE  Spec => []PoolsTiled
<1>1. Base => PoolsTiled
  BY BaseIsTyped
<1> QED BY <1>1, BaseHolds, PTL

----------------------------------------------------------------------------
(* What is reserved and what is offered: the offers of a session that has not  *)
(* asked yet are reserved for as long as they stand, and the other way round.  *)
Lies(b, lo, hi) == b.lo = lo /\ b.hi = hi
OfferBacked(p) ==
    /\ \E b \in H(p.kind) : ReservedBy(p.ses, b) /\ Lies(b, p.lo, p.hi) /\ p.left <= b.left
    /\ p.addr # 0 => \E b \in H("unicast") :
          ReservedBy(p.ses, b) /\ Lies(b, p.addr, p.addr) /\ p.left <= b.left
Standing(p) == p.type = "OFFER" /\ p.left > 0 /\ ~Asks(p.ses)
Backed == \A p \in sent : Standing(p) => OfferBacked(p)

OfferOf(p, k, b) == /\ p.type = "OFFER" /\ ReservedBy(p.ses, b) /\ b.left <= p.left
                    /\ (p.kind = k /\ p.lo = b.lo) \/ (k = "unicast" /\ p.addr = b.lo)
Offered == \A k \in Kinds : \A b \in H(k) : (b.use = "reserved" /\ b.left > 0) =>
               \E p \in sent : OfferOf(p, k, b)

(* Nobody but its session, once it asks, loses a reservation.                  *)
LEMMA KeptReserved ==
    ASSUME FitsTheWire, Base, Step, ~Passes, NEW s \in Sessions, ~Asks(s), NEW k \in Kinds,
           NEW b \in H(k), ReservedBy(s, b), b.left > 0
    PROVE  b \in Held(blocks'[k])
<1>1. CASE Fades
  BY <1>1 DEF Fades
<1>2. CASE \E m, n, g : Reserves(m, n, g)
  BY <1>2 DEF Reserves, Claims
<1>3. CASE \E t \in Sessions : \E r : Decides(t, r)
  BY <1>3 DEF Decides, H
<1>4. ASSUME NEW m, NEW c, NEW n, Heard(m), Leases(m, c, n) PROVE b \in Held(blocks'[k])
  <2>1. m.ses # s /\ m.ses \in Sessions
    BY <1>4, HeardIs DEF Heard
  <2>2. ~ReservedFor(m, b) /\ ~LeasedBy(m, b) /\ ~IsFree(b)
    BY <2>1 DEF ReservedFor, LeasedBy, ReservedBy, ReservedId, IsFree
  <2>3. b # c
    BY <2>2, <1>4 DEF Leases, MayTake
  <2>4. SourceApart(m) => b # SourceBlock(m)
    BY <2>2, <1>4, SourceIs DEF Leases, Heard, Base, SourceApart
  <2> QED BY <2>3, <2>4, <1>4 DEF Leases, Middle
<1>5. CASE \E m, c : Confirms(m, c)
  BY <1>5 DEF Confirms, H
<1>6. CASE \E m : Frees(m)
  BY <1>6 DEF Frees, LeasedBy, ReservedBy
<1> QED BY <1>1, <1>2, <1>3, <1>4, <1>5, <1>6 DEF Step

(* Until it is over an OFFER stays sent.                                       *)
LEMMA KeptOffer ==
    ASSUME Step, ~Passes, NEW p, p.type = "OFFER"
    PROVE  /\ p \in sent => p \in sent'
           /\ p \in sent' => p \in sent \/ \E m, n, g : Reserves(m, n, g) /\
                 p = Offer(m, n, IF NeedsAddr(m) THEN g.lo ELSE 0)
<1>1. ASSUME NEW m, NEW b, Confirms(m, b) PROVE p \in sent' <=> p \in sent
  BY <1>1 DEF Confirms, Ack
<1>2. ASSUME NEW m, NEW b, NEW n, Leases(m, b, n) PROVE p \in sent' <=> p \in sent
  BY <1>2 DEF Leases, Ack
<1>3. ASSUME NEW m, NEW n, NEW g, Reserves(m, n, g)
      PROVE  /\ p \in sent => p \in sent'
             /\ p \in sent' => p \in sent \/ p = Offer(m, n, IF NeedsAddr(m) THEN g.lo ELSE 0)
  BY <1>3 DEF Reserves, Claims
<1> QED BY <1>1, <1>2, <1>3 DEF Step, Fades, Decides, Frees

LEMMA BackedStep ==
    ASSUME FitsTheWire, Base, Step, Base', Backed
    PROVE  Backed'
<1>1. CASE Passes
  <2>1. ASSUME NEW p \in sent, Lasts(p), Standing(Earlier(p)) PROVE OfferBacked(Earlier(p))'
    <3>1. OfferOk(p)
      BY <2>1 DEF Base, SentOk, Standing, Earlier, AckOk, Acks
    <3>2. p.left \in Nat /\ Standing(p) /\ p.kind \in Kinds /\ "unicast" \in Kinds
      BY <2>1, <3>1, KindsAssumption DEF OfferOk, Offers, Standing, Earlier
    <3>3. /\ Earlier(p).ses = p.ses /\ Earlier(p).kind = p.kind /\ Earlier(p).lo = p.lo
          /\ Earlier(p).hi = p.hi /\ Earlier(p).addr = p.addr /\ Earlier(p).left = p.left - 1
      BY <3>1 DEF OfferOk, Offers, Earlier
    <3>4. ASSUME NEW k \in Kinds, NEW b \in H(k), NEW lo, NEW hi,
                 ReservedBy(p.ses, b), Lies(b, lo, hi), p.left <= b.left
          PROVE  \E c \in Held(blocks'[k]) :
                    ReservedBy(p.ses, c) /\ Lies(c, lo, hi) /\ p.left - 1 <= c.left
      <4>1. Later(b) \in Held(blocks'[k]) /\ b \in BlockOf(SecurityIds) /\ b.left > 0
        BY <1>1 DEF Passes
      <4>2. b.left \in Nat
        BY <4>1 DEF BlockOf
      <4> QED BY <4>1, <4>2, <3>2, <3>4, LaterIs DEF ReservedBy, Lies
    <3>5. OfferBacked(p)
      BY <2>1, <3>2 DEF Backed
    <3> QED BY <3>2, <3>3, <3>4, <3>5 DEF OfferBacked, H, ReservedBy, Lies
  <2>2. \A p \in sent : Standing(Earlier(p))' <=> Standing(Earlier(p))
    BY <1>1 DEF Passes, Standing, Asks
  <2> QED BY <1>1, <2>1, <2>2 DEF Passes, Backed
<1>2. ASSUME ~Passes, NEW p \in sent, Standing(p)' PROVE OfferBacked(p)'
  <2>1. OfferOk(p) /\ p.ses \in Sessions /\ p.left \in Nat /\ p.kind \in Kinds /\ "unicast" \in Kinds
    BY <1>2, KindsAssumption DEF Base, SentOk, Standing, AckOk, Acks, OfferOk, Offers
  <2>2. ~Asks(p.ses)
    <3>1. CASE UNCHANGED req
      BY <1>2, <3>1 DEF Standing, Asks
    <3>2. CASE \E s \in Sessions : \E r : Decides(s, r)
      <4>1. PICK s \in Sessions : \E r : Decides(s, r)
        BY <3>2
      <4>2. s # p.ses => req'[p.ses] = req[p.ses]
        BY <4>1, <2>1 DEF Decides, Base, Typed
      <4> QED BY <1>2, <4>1, <4>2 DEF Standing, Asks, Decides
    <3> QED BY <1>2, <3>1, <3>2 DEF Step, Fades, Reserves, Frees
  <2>3. OfferBacked(p)
    BY <1>2, <2>2 DEF Backed, Standing
  <2>4. \A k \in Kinds : \A b \in H(k) :
            ReservedBy(p.ses, b) /\ p.left <= b.left /\ b.left \in Nat => b \in Held(blocks'[k])
    BY <1>2, <2>1, <2>2, KeptReserved DEF Standing
  <2>5. \A k \in Kinds : \A b \in H(k) : b.left \in Nat
    BY BlocksAre DEF Base, Databases, H, Held
  <2> QED BY <2>1, <2>3, <2>4, <2>5 DEF OfferBacked, H, ReservedBy, Lies
<1>3. ASSUME ~Passes, NEW m, NEW n, NEW g, Reserves(m, n, g),
             NEW p, p = Offer(m, n, IF NeedsAddr(m) THEN g.lo ELSE 0)
      PROVE  OfferBacked(p)'
  <2>1. /\ p.ses = m.ses /\ p.kind = m.kind /\ p.lo = n.lo /\ p.hi = n.hi
        /\ p.addr = (IF NeedsAddr(m) THEN g.lo ELSE 0) /\ p.left = ReserveLife
    BY <1>3 DEF Offer
  <2>2. m.kind \in Kinds /\ "unicast" \in Kinds /\ ReserveLife \in Nat
    BY <1>3, KindsAssumption DEF Reserves, IsClaim
  <2>3. n \in Held(blocks'[m.kind]) /\ (NeedsAddr(m) => g \in Held(blocks'["unicast"]))
    BY <1>3, <2>2 DEF Reserves, Claims
  <2>4. ReservedBy(m.ses, n) /\ ReservedBy(m.ses, g) /\ n.left = ReserveLife /\ g.left = ReserveLife
        /\ g.lo = g.hi
    BY <1>3 DEF Reserves, Claims, Reservation, ReservedBy
  <2> QED BY <2>1, <2>2, <2>3, <2>4 DEF OfferBacked, H, ReservedBy, Lies
<1>4. CASE ~Passes
  BY <1>2, <1>3, <1>4, KeptOffer DEF Backed, Standing
<1> QED BY <1>1, <1>4

LEMMA OfferedStep ==
    ASSUME FitsTheWire, Base, Step, Offered
    PROVE  Offered'
<1>1. CASE Passes
  <2>1. ASSUME NEW k \in Kinds, NEW b \in H(k), Later(b).use = "reserved", Later(b).left > 0
        PROVE  \E p \in sent' : OfferOf(p, k, Later(b))
    <3>1. b.left > 0 /\ b \in BlockOf(SecurityIds) /\ b.left \in Nat
      BY <1>1 DEF Passes, BlockOf
    <3>2. /\ Later(b).lo = b.lo /\ Later(b).use = b.use /\ Later(b).id = b.id
          /\ Later(b).left = b.left - 1
      BY <3>1, LaterIs
    <3>3. PICK p \in sent : OfferOf(p, k, b)
      BY <2>1, <3>1, <3>2 DEF Offered
    <3>4. p \in Offers /\ p.left \in Nat
      BY <3>3 DEF Base, SentOk, OfferOk, AckOk, Acks, Offers, OfferOf
    <3>5. Lasts(p)
      BY <2>1, <3>1, <3>2, <3>3, <3>4 DEF Lasts, OfferOf
    <3>6. Earlier(p) \in sent'
      BY <1>1, <3>5 DEF Passes
    <3>7. OfferOf(Earlier(p), k, Later(b))
      BY <3>1, <3>2, <3>3, <3>4 DEF OfferOf, Earlier, ReservedBy, Offers
    <3> QED BY <3>6, <3>7
  <2> QED BY <1>1, <2>1 DEF Passes, Offered, H, OfferOf, ReservedBy
<1>2. ASSUME ~Passes, NEW k \in Kinds, NEW b \in Held(blocks'[k]), b.use = "reserved", b.left > 0
      PROVE  \E p \in sent' : OfferOf(p, k, b)
  <2>1. CASE b \in H(k)
    <3>1. PICK p \in sent : OfferOf(p, k, b)
      BY <1>2, <2>1 DEF Offered
    <3> QED BY <1>2, <3>1, KeptOffer DEF OfferOf
  <2>2. CASE b \notin H(k)
    <3>1. ASSUME NEW m, NEW c, NEW n, Heard(m), Leases(m, c, n), n \in BlockOf(SecurityIds) PROVE FALSE
      <4>1. b \in Middle(m, k) \/ b = n
        BY <1>2, <3>1 DEF Leases
      <4>2. b = n \/ b = SourceLease(m)
        BY <2>2, <4>1 DEF Middle
      <4> QED BY <1>2, <3>1, <4>2, LeasesIs, SourceLeaseIs
    <3>2. PICK m, n, g : Reserves(m, n, g)
      BY <1>2, <2>2, <3>1 DEF Step, Fades, Decides, Confirms, Frees, H
    <3> DEFINE p == Offer(m, n, IF NeedsAddr(m) THEN g.lo ELSE 0)
    <3>3. p \in sent'
      BY <3>2 DEF Reserves, Claims
    <3>4. (b = n /\ k = m.kind) \/ (b = g /\ k = "unicast" /\ NeedsAddr(m))
      BY <1>2, <2>2, <3>2 DEF Reserves, Claims
    <3>5. ReservedBy(m.ses, b) /\ b.left = ReserveLife /\ ReserveLife \in Nat
      BY <3>2, <3>4, KindsAssumption DEF Reserves, Claims, Reservation, ReservedBy
    <3>6. OfferOf(p, k, b)
      BY <3>4, <3>5 DEF OfferOf, Offer
    <3> QED BY <3>3, <3>6
  <2> QED BY <2>1, <2>2
<1>3. CASE ~Passes
  BY <1>2, <1>3 DEF Offered, H, OfferOf, ReservedBy
<1> QED BY <1>1, <1>3

LEMMA BackedIsKept ==
    ASSUME Base, Backed
    PROVE  OffersKept
<1> SUFFICES ASSUME NEW p \in sent, p.type = "OFFER", p.left > 0, req[p.ses] = NoReq
             PROVE  /\ \E b \in blocks[p.kind] :
                          ReservedFor(p, b) /\ b.lo = p.lo /\ b.hi = p.hi /\ b.left >= p.left
                    /\ p.addr # 0 => ReservedFor(p, BlockAt(blocks["unicast"], p.addr))
  BY DEF OffersKept
<1>1. OfferBacked(p) /\ p \in Offers
  BY DEF Backed, Standing, Asks, Base, SentOk, OfferOk, AckOk, Acks
<1>2. \E b \in blocks[p.kind] :
          ReservedFor(p, b) /\ b.lo = p.lo /\ b.hi = p.hi /\ b.left >= p.left
  <2>1. PICK b \in H(p.kind) : ReservedBy(p.ses, b) /\ Lies(b, p.lo, p.hi) /\ p.left <= b.left
    BY <1>1 DEF OfferBacked
  <2> QED BY <2>1, <1>1, BlocksAre DEF H, Held, ReservedBy, ReservedFor, Lies, Offers
<1>3. ASSUME p.addr # 0 PROVE ReservedFor(p, BlockAt(blocks["unicast"], p.addr))
  <2>1. PICK b \in H("unicast") : ReservedBy(p.ses, b) /\ Lies(b, p.addr, p.addr)
    BY <1>1, <1>3 DEF OfferBacked
  <2>2. b \in blocks["unicast"] /\ p.addr \in Addrs(b)
    BY <1>1, <2>1 DEF H, Held, Lies, Addrs, Offers
  <2>3. BlockAt(blocks["unicast"], p.addr) = b
    BY <2>2, BlockAtIs, KindsAssumption DEF Base, Databases
  <2> QED BY <2>1, <2>3 DEF ReservedBy, ReservedFor
<1> QED BY <1>2, <1>3

(* Until its session has asked, what an OFFER names stays reserved: no other   *)
(* client's packet takes it.                                                   *)
THEOREM OfferedIsReserved ==
    ASSUME FitsTheWire
    PROVE  Spec => []OffersKept
<1>1. Init => Backed
  BY DEF Init, ServerInit, Backed
<1>2. Base /\ Base' /\ Backed /\ [Next]_vars => Backed'
  BY BaseStep, BackedStep
<1>3. Base /\ Backed => OffersKept
  BY BackedIsKept
<1> QED BY <1>1, <1>2, <1>3, BaseHolds, PTL DEF Spec

(* processClaim reserves nothing that it does not offer.                       *)
THEOREM ReservedIsOffered ==
    ASSUME FitsTheWire
    PROVE  Spec => []ReservedWasOffered
<1>1. Init => Offered
  BY DEF Init, ServerInit, Offered, H, Held, FreeBlock, IsFree
<1>2. Base /\ Offered /\ [Next]_vars => Offered'
  BY BaseStep, OfferedStep
<1>3. Offered => ReservedWasOffered
  BY DEF Offered, ReservedWasOffered, OfferOf, H, Held, IsFree, ReservedBy, ReservedFor
<1> QED BY <1>1, <1>2, <1>3, BaseHolds, PTL DEF Spec

----------------------------------------------------------------------------
(* A session of the pool, one that wants unicast addresses and asks from an    *)
(* address of the pool: its source is in the set that it asks for, or apart.   *)
FromPool(s) == Asks(s) /\ Wants[s] = "unicast" /\ InPool(req[s].src, "unicast")
Inside(s) == FromPool(s) /\ req[s].src \in req[s].lo .. req[s].hi
Apart(s)  == FromPool(s) /\ req[s].src \notin req[s].lo .. req[s].hi

(* Inside, its leases are all of the set, and what is reserved for its source  *)
(* covers the set.                                                             *)
WholeSet(s) ==
    /\ \A p \in sent : p.type = "ACK" /\ p.ses = s => Lies(p, req[s].lo, LastAsked(req[s]))
    /\ \A b \in H("unicast") :
          /\ AssignedTo(s, b) => Lies(b, req[s].lo, LastAsked(req[s]))
          /\ ReservedBy(s, b) /\ req[s].src \in Addrs(b) =>
                b.lo <= req[s].lo /\ LastAsked(req[s]) <= b.hi /\ req[s].src <= LastAsked(req[s])

(* Apart, the source is leased alone, a block reserved for the set starts with *)
(* it, and nothing that an ACK has given is reserved still.                    *)
Unmixed(s, p) == /\ req[s].src \notin p.lo .. p.hi
                 /\ \A b \in H("unicast") : ReservedBy(s, b) => p.lo \notin Addrs(b)
ApartSet(s) ==
    /\ \A p \in sent : p.type = "ACK" /\ p.ses = s => Unmixed(s, p)
    /\ \A b \in H("unicast") :
          /\ AssignedTo(s, b) /\ req[s].src \in Addrs(b) => Lies(b, req[s].src, req[s].src)
          /\ ReservedBy(s, b) /\ req[s].lo \in Addrs(b) => b.lo = req[s].lo

PoolSet(s) == (Inside(s) => WholeSet(s)) /\ (Apart(s) => ApartSet(s))
PoolSets == \A s \in Sessions : PoolSet(s)

(* Nothing is reserved for a session that asks a known server.                 *)
Idle == \A s \in Sessions : Known[s] # {} => \A b \in H("unicast") : ~ReservedBy(s, b)

LEMMA Undecided ==
    ASSUME Base, Step, NEW s \in Sessions
    PROVE  req'[s] = req[s] \/ \E r : Decides(s, r) /\ req'[s] = r
BY DEF Base, Typed, Step, Fades, Passes, Reserves, Decides, Frees

LEMMA IdleStep ==
    ASSUME FitsTheWire, Base, Idle, Step
    PROVE  Idle'
<1> SUFFICES ASSUME NEW s \in Sessions, Known[s] # {}, NEW b \in Held(blocks'["unicast"])
             PROVE  ~ReservedBy(s, b)
  BY DEF Idle, H, ReservedBy
<1>1. "unicast" \in Kinds
  BY KindsAssumption
<1>2. CASE Fades \/ (\E t \in Sessions : \E r : Decides(t, r)) \/ (\E m, c : Confirms(m, c))
           \/ (\E m : Frees(m))
  BY <1>1, <1>2 DEF Fades, Decides, Confirms, Frees, Idle, H
<1>3. CASE Passes
  <2>1. PICK c \in H("unicast") : b = Later(c) /\ c.left > 0 /\ c \in BlockOf(SecurityIds)
    BY <1>1, <1>3 DEF Passes
  <2> QED BY <2>1, LaterIs DEF Idle, ReservedBy
<1>4. CASE \E m, n, g : Reserves(m, n, g)
  <2>1. PICK m, n, g : Reserves(m, n, g)
    BY <1>4
  <2>2. m.ses # s
    BY <2>1 DEF Reserves
  <2>3. ~ReservedBy(s, n) /\ ~ReservedBy(s, g)
    BY <2>1, <2>2 DEF Reserves, Claims, Reservation, ReservedBy, ReservedId
  <2>4. b \in H("unicast") \/ b = n \/ b = g
    BY <1>1, <2>1 DEF Reserves, Claims
  <2> QED BY <2>3, <2>4 DEF Idle
<1>5. ASSUME NEW m, NEW c, NEW n, Heard(m), Leases(m, c, n), n \in BlockOf(SecurityIds)
      PROVE  ~ReservedBy(s, b)
  <2>1. b \in H("unicast") \/ b = n \/ b = SourceLease(m)
    BY <1>1, <1>5, LeasesHold
  <2> QED BY <1>5, <2>1, LeasesIs, SourceLeaseIs DEF Idle, ReservedBy
<1> QED BY <1>2, <1>3, <1>4, <1>5 DEF Step

(* What such a session's packets name.                                         *)
LEMMA HeardPool ==
    ASSUME Base, NEW m, Heard(m), m.kind = "unicast", SourceInPool(m)
    PROVE  /\ m.ses \in Sessions /\ FromPool(m.ses) /\ m.src = req[m.ses].src
           /\ Inside(m.ses) \/ Apart(m.ses)
           /\ m.lo \in Int /\ m.hi \in Int /\ m.src \in Int /\ m.lo <= m.hi
           /\ LastAsked(m) \in Int /\ LastAsked(m) <= m.hi
           /\ m.lo <= LastAsked(m) \/ SourceRefused(m)
<1>1. m.ses \in Sessions /\ m \in Requests /\ m.lo <= m.hi /\ LastAsked(m) \in Int
      /\ LastAsked(m) <= m.hi /\ MaxAddr["unicast"] \in Nat
  BY HeardIs
<1>2. m.lo <= LastAsked(m) \/ SourceRefused(m)
  BY <1>1 DEF LastAsked, TooLarge, SourceRefused, Requests
<1>3. FromPool(m.ses) /\ m.src = req[m.ses].src
  BY <1>1 DEF Heard, FromPool, SourceInPool
<1> QED BY <1>1, <1>2, <1>3 DEF Inside, Apart, Requests

LEMMA HeardInside ==
    ASSUME Base, PoolSets, NEW m, Heard(m), m.kind = "unicast", SourceInPool(m),
           ~SourceRefused(m), Inside(m.ses)
    PROVE  /\ m.lo = req[m.ses].lo /\ LastAsked(m) = LastAsked(req[m.ses])
           /\ m.src \in m.lo .. LastAsked(m) /\ ~SourceApart(m)
           /\ SourceBlock(m) \in Asked(m) /\ ~Unavailable(m)
<1> DEFINE c == SourceBlock(m)
           r == req[m.ses]
<1>1. c \in blocks["unicast"] /\ m.src \in Addrs(c) /\ (ReservedFor(m, c) \/ LeasedBy(m, c)) /\ ~IsFree(c)
  BY SourceIs DEF Base, Heard
<1>2. /\ m.ses \in Sessions /\ m.src = r.src /\ WholeSet(m.ses) /\ r.src \in r.lo .. r.hi
      /\ m.lo \in Int /\ m.hi \in Int /\ m.src \in Int
  BY HeardPool DEF PoolSets, PoolSet, Inside
<1>3. r \in Requests /\ r.kind = "unicast" /\ MaxAddr["unicast"] \in Nat
  BY <1>2, SteadyReq, HeardIs DEF Inside, FromPool, OwnReq, IsRequest
<1>4. LastAsked(r) \in Int /\ r.lo \in Int /\ r.hi \in Int
  BY <1>3 DEF LastAsked, TooLarge, Requests
<1>5. m.lo = r.lo /\ LastAsked(m) = LastAsked(r) /\ (m.hi = r.hi \/ m.hi = LastAsked(r))
  <2>1. CASE m = r
    BY <2>1
  <2>2. CASE \E p \in sent : p.type = "ACK" /\ p.ses = m.ses /\ p.lo = m.lo /\ p.hi = m.hi
    <3>1. m.lo = r.lo /\ m.hi = LastAsked(r)
      BY <1>2, <2>2 DEF WholeSet, Lies
    <3> QED BY <3>1, <1>3, <1>4 DEF LastAsked, TooLarge
  <2> QED BY <2>1, <2>2 DEF Heard
<1>6. c \in H("unicast") /\ c.lo \in Int /\ c.hi \in Int
  BY <1>1, BlocksAre, KindsAssumption DEF H, Held, Base, Databases
<1> HIDE DEF c, r
<1>7. c.lo <= r.lo /\ LastAsked(r) <= c.hi /\ r.src <= LastAsked(r)
  <2>1. CASE ReservedFor(m, c)
    BY <1>1, <1>2, <1>6, <2>1 DEF ReservedFor, ReservedBy, WholeSet, r
  <2>2. CASE LeasedBy(m, c)
    <3>1. Lies(c, r.lo, LastAsked(r))
      BY <1>2, <1>6, <2>2 DEF LeasedBy, AssignedTo, WholeSet, r
    <3> QED BY <3>1, <1>1, <1>2, <1>4 DEF Lies, Addrs
  <2> QED BY <1>1, <2>1, <2>2
<1>8. m.src \in m.lo .. LastAsked(m) /\ m.src \in m.lo .. m.hi
  BY <1>2, <1>4, <1>5, <1>7
<1>9. m.lo \in Addrs(c)
  BY <1>2, <1>4, <1>5, <1>6, <1>7, <1>8 DEF Addrs
<1>10. c \in Asked(m)
  BY <1>1, <1>5, <1>7, <1>9 DEF Asked, Container
<1> QED BY <1>1, <1>5, <1>8, <1>10 DEF SourceApart, Unavailable, MayTake, c, r

LEMMA HeardApart ==
    ASSUME Base, PoolSets, NEW m, Heard(m), m.kind = "unicast", SourceInPool(m), Apart(m.ses)
    PROVE  SourceApart(m) /\ m.src \notin m.lo .. m.hi
<1>1. m.ses \in Sessions /\ m.src = req[m.ses].src /\ ApartSet(m.ses)
  BY HeardPool DEF PoolSets, PoolSet
<1>2. CASE m = req[m.ses]
  BY <1>2 DEF Apart, SourceApart
<1>3. CASE \E p \in sent : p.type = "ACK" /\ p.ses = m.ses /\ p.lo = m.lo /\ p.hi = m.hi
  BY <1>1, <1>3 DEF ApartSet, Unmixed, SourceApart
<1> QED BY <1>2, <1>3 DEF Heard

(* The set that is leased beside the source does not hold it, and the source's *)
(* lease is not cut up by it.                                                  *)
LEMMA LeasesApart ==
    ASSUME FitsTheWire, Base, PoolSets, NEW m, Heard(m), m.kind = "unicast", SourceInPool(m),
           Apart(m.ses), NEW b \in blocks["unicast"], NEW n \in BlockOf(SecurityIds), Leases(m, b, n)
    PROVE  /\ m.src \notin Addrs(n) /\ m.src \notin n.lo .. n.hi /\ b # SourceLease(m)
           /\ SourceLease(m) \in Held(blocks'["unicast"])
<1>1. /\ SourceApart(m) /\ m.src \notin m.lo .. m.hi /\ m.src \in Int /\ m.lo \in Int /\ m.hi \in Int
      /\ LastAsked(m) \in Int /\ LastAsked(m) <= m.hi /\ ~SourceRefused(m)
  BY HeardApart, HeardPool, HeardIs DEF Leases
<1>2. n.lo \in Int /\ n.hi \in Int /\ n.lo <= n.hi /\ b.lo <= n.lo /\ n.hi <= b.hi
  BY LeasesIs DEF Leases
<1>3. "unicast" \in Kinds /\ Sound("unicast", blocks["unicast"])
  BY KindsAssumption DEF Base, Databases
<1>4. b.lo \in Int /\ b.hi \in Int
  BY <1>3, BlocksAre
<1>5. m.src \notin n.lo .. n.hi
  <2>1. CASE MayTake(m, b) /\ n.lo = m.lo /\ n.hi = LastAsked(m)
    BY <1>1, <1>2, <2>1
  <2>2. CASE IsFree(b)
    <3>1. /\ SourceBlock(m) \in blocks["unicast"] /\ m.src \in Addrs(SourceBlock(m))
          /\ ~IsFree(SourceBlock(m))
      BY <1>1, SourceIs DEF Base, Heard
    <3>2. m.src \notin Addrs(b)
      BY <1>3, <2>2, <3>1, OneBlock
    <3> QED BY <1>1, <1>2, <1>4, <3>2 DEF Addrs
  <2> QED BY <2>1, <2>2 DEF Leases
<1>6. b # SourceLease(m)
  <2> SUFFICES ASSUME b = SourceLease(m) PROVE FALSE
    OBVIOUS
  <2>1. b.lo = m.src /\ b.hi = m.src
    BY SourceLeaseIs
  <2> QED BY <1>1, <1>2, <1>5, <2>1
<1>7. SourceLease(m) \in Middle(m, "unicast")
  BY <1>1 DEF Middle
<1> QED BY <1>3, <1>5, <1>6, <1>7 DEF Leases, Addrs

LEMMA PoolDecides ==
    ASSUME ReserveLife > 0, Base, Backed, Idle, NEW s \in Sessions, NEW r, Decides(s, r),
           req'[s] = r, FromPool(s)'
    PROVE  PoolSet(s)'
<1>1. \A p \in sent : p.type = "ACK" => p.ses # s
  BY DEF Base, SentOk, OfferOk, Offers, AckOk, Decides
<1>2. ASSUME NEW k \in Kinds, NEW b \in H(k), b.use = "assigned"
      PROVE  \A a : b.id # AssignedId(s, a)
  <2>1. PICK t \in Sessions : ReservedBy(t, b) \/ LeaseOk(t, k, b)
    BY <1>2 DEF Base, Holders, HeldFor
  <2> QED BY <1>2, <2>1 DEF ReservedBy, LeaseOk, AssignedTo, AssignedId, Decides
<1>3. "unicast" \in Kinds /\ UNCHANGED <<blocks, sent>>
  BY KindsAssumption DEF Decides
<1>4. r \in Requests /\ r.kind = "unicast" /\ MaxAddr["unicast"] \in Nat /\ r.hi \in Int
      /\ r.lo \in Int /\ r.src \in Int
  BY <1>3, KindsAssumption DEF Decides, OwnReq, IsRequest, Requests, FromPool
<1>5. ASSUME NEW b \in H("unicast"), ReservedBy(s, b), NEW a \in r.lo .. r.hi, a \in Addrs(b),
             a \in {r.lo, r.src}
      PROVE  b.lo = r.lo /\ r.hi <= b.hi /\ LastAsked(r) = r.hi
  <2>1. PICK o \in sent : o.type = "OFFER" /\ o.ses = s /\ r.lo = o.lo /\ r.hi <= o.hi
    BY <1>5 DEF Decides, Origin, Idle
  <2>2. OfferOk(o) /\ o \in Offers /\ o.kind = "unicast" /\ o.left > 0 /\ ~Asks(s)
    BY <2>1 DEF Base, SentOk, AckOk, Acks, OfferOk, Offers, Decides, FromPool
  <2>3. PICK c \in H("unicast") : Lies(c, o.lo, o.hi)
    BY <2>1, <2>2 DEF Backed, Standing, OfferBacked
  <2>4. o.lo \in Int /\ o.hi \in Int /\ o.hi - o.lo + 1 <= MaxAddr["unicast"]
    BY <2>2 DEF OfferOk, Offers
  <2>5. a \in Addrs(c) /\ c \in blocks["unicast"] /\ b \in blocks["unicast"]
    BY <1>4, <1>5, <2>1, <2>3, <2>4 DEF Lies, Addrs, H, Held
  <2>6. b = c
    BY <1>3, <1>5, <2>5, OneBlock DEF Base, Databases
  <2>7. ~TooLarge(r)
    BY <1>4, <2>1, <2>4 DEF TooLarge
  <2> QED BY <2>1, <2>3, <2>6, <2>7 DEF Lies, LastAsked
<1>6. Inside(s)' => WholeSet(s)'
  BY <1>1, <1>2, <1>3, <1>4, <1>5 DEF Inside, WholeSet, AssignedTo, ReservedBy, H
<1>7. r.lo \in r.lo .. r.hi
  BY <1>4 DEF Decides, OwnReq, IsRequest
<1>8. Apart(s)' => ApartSet(s)'
  BY <1>1, <1>2, <1>3, <1>4, <1>5, <1>7 DEF Apart, ApartSet, AssignedTo, ReservedBy, H
<1> QED BY <1>6, <1>8 DEF PoolSet

LEMMA PoolLeases ==
    ASSUME FitsTheWire, Base, Base', PoolSets, NEW s \in Sessions, FromPool(s),
           NEW m, Heard(m), NEW b \in blocks[m.kind], NEW n \in BlockOf(SecurityIds),
           Leases(m, b, n), UNCHANGED req
    PROVE  PoolSet(s)'
<1>1. m.ses = s => m.kind = "unicast" /\ SourceInPool(m) /\ ~SourceRefused(m) /\ m.src = req[s].src
  BY DEF Heard, FromPool, SourceInPool, Leases
<1>2. \A p \in sent' : p.type = "ACK" /\ p.ses = s =>
          p \in sent \/ (m.ses = s /\ Lies(p, n.lo, n.hi))
  BY DEF Leases, Ack, Lies
<1>3. \A c \in Held(blocks'["unicast"]) :
          \/ c \in H("unicast") \/ (c = n /\ m.kind = "unicast")
          \/ (c = SourceLease(m) /\ SourceApart(m))
  BY KindsAssumption, LeasesHold
<1>4. n.use = "assigned" /\ n.id = AssignedId(m.ses, m.src) /\ n.lo \in Int /\ n.hi \in Int
      /\ n.lo <= n.hi
  BY LeasesIs
<1>5. /\ SourceLease(m).use = "assigned" /\ SourceLease(m).id = AssignedId(m.ses, m.src)
      /\ Lies(SourceLease(m), m.src, m.src)
  BY SourceLeaseIs DEF Lies
<1>6. \A c : c = n \/ c = SourceLease(m) => ~ReservedBy(s, c) /\ (m.ses # s => ~AssignedTo(s, c))
  BY <1>4, <1>5 DEF ReservedBy, AssignedTo, AssignedId
<1>7. CASE Inside(s)
  <2>1. WholeSet(s) /\ ~Apart(s) /\ (Inside(s)' <=> Inside(s)) /\ (Apart(s)' <=> Apart(s))
    BY <1>7 DEF PoolSets, PoolSet, Inside, Apart, FromPool, Asks
  <2>2. ASSUME m.ses = s PROVE Lies(n, req[s].lo, LastAsked(req[s])) /\ ~SourceApart(m)
    BY <1>1, <1>7, <2>2, HeardInside DEF Leases, Lies
  <2>3. WholeSet(s)'
    BY <1>2, <1>3, <1>6, <2>1, <2>2 DEF WholeSet, AssignedTo, ReservedBy, H, Lies
  <2> QED BY <2>1, <2>3 DEF PoolSet
<1>8. CASE Apart(s)
  <2>1. ApartSet(s) /\ ~Inside(s) /\ (Inside(s)' <=> Inside(s)) /\ (Apart(s)' <=> Apart(s))
    BY <1>8 DEF PoolSets, PoolSet, Inside, Apart, FromPool, Asks
  <2>2. ASSUME m.ses = s PROVE m.src \notin Addrs(n) /\ m.src \notin n.lo .. n.hi
    BY <1>1, <1>8, <2>2, LeasesApart
  <2>3. ASSUME m.ses = s, NEW c \in Held(blocks'["unicast"]), ReservedBy(s, c)
        PROVE  n.lo \notin Addrs(c)
    <3>1. "unicast" \in Kinds /\ Sound("unicast", blocks'["unicast"]) /\ m.kind = "unicast"
      BY <1>1, <2>3, KindsAssumption DEF Base, Databases
    <3>2. n \in Held(blocks'["unicast"])
      BY <3>1 DEF Leases
    <3>3. n.lo \in Addrs(n)
      BY <1>4 DEF Addrs
    <3> QED BY <1>6, <2>3, <3>1, <3>2, <3>3, OneBlock DEF Held
  <2>4. ASSUME NEW p \in sent', p.type = "ACK", p.ses = s PROVE Unmixed(s, p)'
    <3>1. CASE p \in sent
      <4>1. Unmixed(s, p)
        BY <2>1, <2>4, <3>1 DEF ApartSet
      <4> QED BY <1>3, <1>6, <4>1 DEF Unmixed, ReservedBy, H
    <3>2. CASE m.ses = s /\ Lies(p, n.lo, n.hi)
      BY <1>1, <2>2, <2>3, <3>2 DEF Unmixed, ReservedBy, H, Lies
    <3> QED BY <1>2, <2>4, <3>1, <3>2
  <2>5. ASSUME NEW c \in Held(blocks'["unicast"])
        PROVE  /\ AssignedTo(s, c) /\ req[s].src \in Addrs(c) => Lies(c, req[s].src, req[s].src)
               /\ ReservedBy(s, c) /\ req[s].lo \in Addrs(c) => c.lo = req[s].lo
    <3>1. CASE c \in H("unicast")
      BY <2>1, <3>1 DEF ApartSet
    <3>2. CASE c = n \/ c = SourceLease(m)
      BY <1>1, <1>5, <1>6, <2>2, <3>2
    <3> QED BY <1>3, <3>1, <3>2
  <2>6. ApartSet(s)'
    BY <2>4, <2>5 DEF ApartSet, AssignedTo, ReservedBy, H
  <2> QED BY <2>1, <2>6 DEF PoolSet
<1> QED BY <1>7, <1>8 DEF Inside, Apart

LEMMA PoolConfirms ==
    ASSUME FitsTheWire, Base, PoolSets, NEW s \in Sessions, FromPool(s),
           NEW m, Heard(m), NEW b, Confirms(m, b), UNCHANGED req
    PROVE  PoolSet(s)'
<1>1. m.ses = s => m.kind = "unicast" /\ SourceInPool(m) /\ ~SourceRefused(m) /\ m.src = req[s].src
  BY DEF Heard, FromPool, SourceInPool, Confirms
<1>2. \A p \in sent' : p.type = "ACK" /\ p.ses = s =>
          p \in sent \/ (m.ses = s /\ Lies(p, m.lo, LastAsked(m)))
  BY DEF Confirms, Ack, Lies
<1>3. UNCHANGED blocks
  BY DEF Confirms
<1>4. CASE Inside(s)
  <2>1. WholeSet(s) /\ ~Apart(s) /\ (Inside(s)' <=> Inside(s)) /\ (Apart(s)' <=> Apart(s))
    BY <1>4 DEF PoolSets, PoolSet, Inside, Apart, FromPool, Asks
  <2>2. m.ses = s => m.lo = req[s].lo /\ LastAsked(m) = LastAsked(req[s])
    BY <1>1, <1>4, HeardInside
  <2>3. WholeSet(s)'
    BY <1>2, <1>3, <2>1, <2>2 DEF WholeSet, AssignedTo, ReservedBy, H, Lies
  <2> QED BY <2>1, <2>3 DEF PoolSet
<1>5. CASE Apart(s)
  <2>1. ApartSet(s) /\ ~Inside(s) /\ (Inside(s)' <=> Inside(s)) /\ (Apart(s)' <=> Apart(s))
    BY <1>5 DEF PoolSets, PoolSet, Inside, Apart, FromPool, Asks
  <2>2. ASSUME m.ses = s PROVE m.src \notin m.lo .. LastAsked(m)
    <3>1. m.src \notin m.lo .. m.hi
      BY <1>1, <1>5, <2>2, HeardApart
    <3>2. /\ m.lo \in Int /\ m.hi \in Int /\ m.src \in Int /\ LastAsked(m) \in Int
          /\ LastAsked(m) <= m.hi
      BY HeardIs DEF Requests
    <3> QED BY <3>1, <3>2
  <2>3. ASSUME m.ses = s, NEW c \in H("unicast"), ReservedBy(s, c) PROVE m.lo \notin Addrs(c)
    <3>1. b \in blocks["unicast"] /\ m.lo \in Addrs(b) /\ c \in blocks["unicast"]
      BY <1>1, <2>3, ConfirmsIs DEF H, Held
    <3>2. "unicast" \in Kinds /\ Sound("unicast", blocks["unicast"])
      BY KindsAssumption DEF Base, Databases
    <3>3. b # c
      BY <2>3 DEF Confirms, LeasedBy, ReservedBy
    <3> QED BY <3>1, <3>2, <3>3, OneBlock
  <2>4. ASSUME NEW p \in sent', p.type = "ACK", p.ses = s PROVE Unmixed(s, p)'
    <3>1. CASE p \in sent
      BY <1>3, <2>1, <2>4, <3>1 DEF ApartSet, Unmixed, ReservedBy, H
    <3>2. CASE m.ses = s /\ Lies(p, m.lo, LastAsked(m))
      BY <1>1, <1>3, <2>2, <2>3, <3>2 DEF Unmixed, ReservedBy, H, Lies
    <3> QED BY <1>2, <2>4, <3>1, <3>2
  <2>5. ApartSet(s)'
    BY <1>3, <2>1, <2>4 DEF ApartSet, AssignedTo, ReservedBy, Lies, H
  <2> QED BY <2>1, <2>5 DEF PoolSet
<1> QED BY <1>4, <1>5 DEF Inside, Apart

LEMMA PoolStep ==
    ASSUME FitsTheWire, ReserveLife > 0, Base, Base', Backed, Idle, PoolSets, Step
    PROVE  PoolSets'
<1> SUFFICES ASSUME NEW s \in Sessions, FromPool(s)' PROVE PoolSet(s)'
  BY DEF PoolSets, PoolSet, Inside, Apart
<1>1. CASE \E r : Decides(s, r) /\ req'[s] = r
  BY <1>1, PoolDecides
<1> SUFFICES ASSUME req'[s] = req[s] PROVE PoolSet(s)'
  BY <1>1, Undecided
<1>2. FromPool(s) /\ PoolSet(s) /\ "unicast" \in Kinds
  BY KindsAssumption DEF FromPool, Asks, PoolSets
<1>3. (Inside(s)' <=> Inside(s)) /\ (Apart(s)' <=> Apart(s))
  BY DEF Inside, Apart, FromPool, Asks
(* Nothing new is held for the session, and no ACK is sent to it.              *)
<1>4. ASSUME \A b \in Held(blocks'["unicast"]) :
                 \/ ~AssignedTo(s, b) /\ ~ReservedBy(s, b)
                 \/ \E c \in H("unicast") : /\ c.lo = b.lo /\ c.hi = b.hi
                                            /\ c.use = b.use /\ c.id = b.id,
             \A p \in sent' : p.type = "ACK" /\ p.ses = s =>
                 \E q \in sent : q.type = "ACK" /\ q.ses = s /\ q.lo = p.lo /\ q.hi = p.hi
      PROVE  PoolSet(s)'
  <2>1. WholeSet(s) => WholeSet(s)'
    BY <1>4 DEF WholeSet, AssignedTo, ReservedBy, Lies, Addrs, H
  <2>2. ApartSet(s) => ApartSet(s)'
    BY <1>4 DEF ApartSet, Unmixed, AssignedTo, ReservedBy, Lies, Addrs, H
  <2> QED BY <1>2, <1>3, <2>1, <2>2 DEF PoolSet
<1>5. CASE Fades \/ (\E t \in Sessions : \E r : Decides(t, r)) \/ (\E m : Frees(m))
  BY <1>2, <1>4, <1>5 DEF Fades, Decides, Frees, H
<1>6. CASE Passes
  <2>1. \A b \in H("unicast") : /\ Later(b).lo = b.lo /\ Later(b).hi = b.hi
                               /\ Later(b).use = b.use /\ Later(b).id = b.id
    BY <1>2, <1>6, LaterIs DEF Passes
  <2>2. \A p \in sent : /\ Earlier(p).type = p.type /\ Earlier(p).ses = p.ses
                        /\ Earlier(p).lo = p.lo /\ Earlier(p).hi = p.hi
    BY DEF Base, SentOk, OfferOk, AckOk, Offers, Acks, Earlier
  <2> QED BY <1>2, <1>4, <1>6, <2>1, <2>2 DEF Passes
<1>7. CASE \E m, n, g : Reserves(m, n, g)
  <2>1. PICK m, n, g : Reserves(m, n, g)
    BY <1>7
  <2>2. m.ses # s
    BY <1>2, <2>1 DEF Reserves, FromPool
  <2>3. \A b : b = n \/ b = g => ~AssignedTo(s, b) /\ ~ReservedBy(s, b)
    BY <2>1, <2>2 DEF Reserves, Claims, Reservation, ReservedBy, ReservedId, AssignedTo
  <2>4. \A p \in sent' : p.type = "ACK" => p \in sent
    BY <2>1 DEF Reserves, Claims, Offer
  <2>5. \A b \in Held(blocks'["unicast"]) : b \in H("unicast") \/ b = n \/ b = g
    BY <1>2, <2>1 DEF Reserves, Claims
  <2> QED BY <1>4, <2>3, <2>4, <2>5
<1>8. ASSUME NEW m, NEW b, NEW n, Heard(m) /\ Leases(m, b, n) /\ b \in blocks[m.kind]
                                  /\ n \in BlockOf(SecurityIds) /\ UNCHANGED req
      PROVE  PoolSet(s)'
  BY <1>2, <1>8, PoolLeases
<1>9. ASSUME NEW m, NEW b, Heard(m) /\ Confirms(m, b) /\ UNCHANGED req
      PROVE  PoolSet(s)'
  BY <1>2, <1>9, PoolConfirms
<1> QED BY <1>5, <1>6, <1>7, <1>8, <1>9 DEF Step

(* All that the sessions of the pool rest on.                                  *)
PoolInv == Base /\ Backed /\ Idle /\ PoolSets

LEMMA PoolInvHolds ==
    ASSUME FitsTheWire, ReserveLife > 0
    PROVE  Spec => []PoolInv
<1>1. ASSUME Init PROVE PoolInv
  <2>1. \A k \in Kinds : H(k) = {}
    BY <1>1 DEF Init, ServerInit, H, Held, FreeBlock, IsFree
  <2>2. sent = {} /\ \A s \in Sessions : ~Asks(s)
    BY <1>1 DEF Init, ServerInit, Asks
  <2>3. Backed /\ Idle /\ PoolSets
    BY <2>1, <2>2, KindsAssumption DEF Backed, Idle, PoolSets, PoolSet, Inside, Apart, FromPool
  <2> QED BY <1>1, <2>3, BaseInit DEF PoolInv
<1>2. ASSUME PoolInv, [Next]_vars PROVE PoolInv'
  <2>1. Base' /\ Step
    BY <1>2, BaseStep DEF PoolInv
  <2>2. Backed'
    BY <1>2, <2>1, BackedStep DEF PoolInv
  <2>3. Idle'
    BY <1>2, <2>1, IdleStep DEF PoolInv
  <2>4. PoolSets'
    BY <1>2, <2>1, PoolStep DEF PoolInv
  <2> QED BY <2>1, <2>2, <2>3, <2>4 DEF PoolInv
<1> QED BY <1>1, <1>2, PTL DEF Spec

LEMMA PendingHeard ==
    ASSUME Base, NEW m \in Pending
    PROVE  Heard(m)
<1>1. CASE \E s \in Sessions : req[s] # NoReq /\ m = req[s]
  BY <1>1, SteadyReq DEF Asks
<1>2. CASE \E p \in sent : p.type = "ACK" /\ m = Renewal(p)
  BY <1>2, AckHeard DEF Renewal
<1> QED BY <1>1, <1>2 DEF Pending

(* Where a REQUEST has its source and its set in one block, what processRequest *)
(* has left of that block, once it has leased the source, holds the set.       *)
THEOREM ContainersHold ==
    ASSUME FitsTheWire, ReserveLife > 0
    PROVE  Spec => []ContainerHolds
<1>1. ASSUME PoolInv, NEW m \in Pending, ~SourceRefused(m), StaleContainer(m)
      PROVE  LastAsked(m) < m.src
  <2> DEFINE c == SourceBlock(m)
             s == m.ses
  <2>1. Heard(m) /\ m.kind = "unicast" /\ SourceApart(m) /\ SourceInPool(m) /\ c \in Asked(m) /\ Base
    BY <1>1, PendingHeard DEF PoolInv, StaleContainer, SourceApart
  <2>2. Apart(s)
    BY <1>1, <2>1, HeardPool, HeardInside DEF PoolInv
  <2>3. s \in Sessions /\ ApartSet(s) /\ m.src = req[s].src /\ m.src \notin m.lo .. m.hi
    BY <1>1, <2>1, <2>2, HeardPool, HeardApart DEF PoolInv, PoolSets, PoolSet
  <2>4. /\ c \in H("unicast") /\ m.src \in Addrs(c) /\ (ReservedFor(m, c) \/ LeasedBy(m, c))
        /\ m.lo \in Addrs(c)
    BY <1>1, <2>1, SourceIs DEF Base, Heard, H, Held, Asked, Container
  <2>5. /\ m.lo \in Int /\ m.hi \in Int /\ m.src \in Int /\ m.lo <= m.hi /\ LastAsked(m) \in Int
        /\ LastAsked(m) <= m.hi
    BY <2>1, HeardIs DEF Requests
  <2> HIDE DEF c
  <2>6. ~LeasedBy(m, c)
    <3> SUFFICES ASSUME LeasedBy(m, c) PROVE FALSE
      OBVIOUS
    <3>1. Lies(c, m.src, m.src)
      BY <2>3, <2>4 DEF ApartSet, LeasedBy, AssignedTo
    <3> QED BY <2>3, <2>4, <2>5, <3>1 DEF Lies, Addrs
  <2>7. ReservedBy(s, c)
    BY <2>4, <2>6 DEF ReservedFor, ReservedBy
  <2>8. m = req[s]
    BY <2>1, <2>3, <2>4, <2>7 DEF Heard, ApartSet, Unmixed
  <2>9. c.lo = m.lo
    BY <2>3, <2>4, <2>7, <2>8 DEF ApartSet
  <2>10. m.lo <= m.src
    BY <2>4, <2>5, <2>9 DEF Addrs
  <2> QED BY <2>3, <2>5, <2>10
<1>2. PoolInv => ContainerHolds
  BY <1>1 DEF ContainerHolds, StillHolds
<1> QED BY <1>2, PoolInvHolds, PTL

----------------------------------------------------------------------------
(* The source's lease outlives every ACK under it.                             *)
Leads(s) ==
    \A b \in H(Wants[s]), c \in H("unicast") :
        AssignedTo(s, b) /\ req[s].src \in Addrs(c) =>
            ~ReservedBy(s, c) /\ (AssignedTo(s, c) => b.left <= c.left)
SourcesLead == \A s \in Sessions : (Asks(s) /\ Wants[s] # "unicast") \/ Apart(s) => Leads(s)

SourceHeld(p) ==
    \E c \in H("unicast") : p.src \in Addrs(c) /\ LeasedBy(p, c) /\ p.left < c.left
SourcesHeld == \A p \in sent : LiveAck(p) /\ SourceInPool(p) => SourceHeld(p)

(* A REQUEST that is answered with a lease leases its source.                  *)
LEMMA LeasesSource ==
    ASSUME FitsTheWire, Base, PoolSets, NEW m, Heard(m), SourceInPool(m),
           NEW b \in blocks[m.kind], NEW n \in BlockOf(SecurityIds), Leases(m, b, n)
    PROVE  \E c \in Held(blocks'["unicast"]) :
              m.src \in Addrs(c) /\ LeasedBy(m, c) /\ c.left = Lifetime[m.kind] + 1
<1>1. "unicast" \in Kinds /\ ~SourceRefused(m)
  BY KindsAssumption DEF Leases
<1>2. LeasedBy(m, SourceLease(m)) /\ m.src \in Addrs(SourceLease(m))
      /\ SourceLease(m).left = Lifetime[m.kind] + 1
  BY SourceLeaseIs DEF LeasedBy
<1>3. CASE m.kind = "unicast" /\ Inside(m.ses)
  <2>1. n \in Held(blocks'["unicast"]) /\ LeasedBy(m, n) /\ n.left = Lifetime[m.kind] + 1
    BY <1>1, <1>3, LeasesIs DEF Leases, LeasedBy
  <2>2. m.src \in m.lo .. LastAsked(m) /\ n.lo = m.lo /\ n.hi = LastAsked(m)
    BY <1>1, <1>3, HeardInside DEF Leases
  <2> QED BY <2>1, <2>2 DEF Addrs
<1>4. CASE m.kind = "unicast" /\ Apart(m.ses)
  <2>1. SourceLease(m) \in Held(blocks'["unicast"])
    BY <1>4, LeasesApart
  <2> QED BY <1>2, <2>1
<1>5. CASE m.kind # "unicast"
  <2>1. SourceApart(m)
    BY <1>5 DEF SourceApart
  <2>2. SourceLease(m) \in Held(blocks'["unicast"])
    BY <1>1, <1>5, <2>1 DEF Leases, Middle
  <2> QED BY <1>2, <2>2
<1> QED BY <1>3, <1>4, <1>5, HeardPool

LEMMA LeadsStep ==
    ASSUME FitsTheWire, Base, Base', PoolSets, SourcesLead, Step
    PROVE  SourcesLead'
<1> SUFFICES ASSUME NEW s \in Sessions, Asks(s)', (Wants[s] # "unicast" \/ Apart(s))',
                    NEW b \in Held(blocks'[Wants[s]]), NEW c \in Held(blocks'["unicast"]),
                    AssignedTo(s, b)', req'[s].src \in Addrs(c)
             PROVE  ~ReservedBy(s, c) /\ (AssignedTo(s, c)' => b.left <= c.left)
  BY DEF SourcesLead, Leads, H, ReservedBy, Apart, FromPool
<1>1. "unicast" \in Kinds /\ Wants[s] \in Kinds
  BY KindsAssumption, ClientsAssumption
<1>2. CASE \E r : Decides(s, r) /\ req'[s] = r
  <2>1. PICK r : Decides(s, r)
    BY <1>2
  <2>2. b \in H(Wants[s]) /\ b.use = "assigned" /\ b.id[1] = s
    BY <2>1 DEF Decides, H, AssignedTo, AssignedId
  <2>3. PICK t \in Sessions : ReservedBy(t, b) \/ LeaseOk(t, Wants[s], b)
    BY <1>1, <2>2 DEF Base, Holders, HeldFor
  <2> QED BY <2>1, <2>2, <2>3 DEF ReservedBy, LeaseOk, AssignedTo, AssignedId, Decides
<1> SUFFICES ASSUME req'[s] = req[s]
             PROVE  ~ReservedBy(s, c) /\ (AssignedTo(s, c)' => b.left <= c.left)
  BY <1>2, Undecided
<1>3. Asks(s) /\ AssignedTo(s, b) /\ req[s].src \in Addrs(c) /\ (AssignedTo(s, c)' <=> AssignedTo(s, c))
  BY DEF Asks, AssignedTo
<1>4. Leads(s)
  BY <1>3 DEF SourcesLead, Apart, FromPool, Asks
<1>5. CASE b \in H(Wants[s]) /\ c \in H("unicast")
  BY <1>3, <1>4, <1>5 DEF Leads
<1>6. CASE Fades \/ (\E t \in Sessions : \E r : Decides(t, r)) \/ (\E m, d : Confirms(m, d))
           \/ (\E m : Frees(m))
  BY <1>1, <1>5, <1>6 DEF Fades, Decides, Confirms, Frees, H
<1>7. CASE Passes
  <2>1. PICK x \in H(Wants[s]), y \in H("unicast") : b = Later(x) /\ c = Later(y)
    BY <1>1, <1>7 DEF Passes
  <2>2. /\ x \in BlockOf(SecurityIds) /\ x.left > 0 /\ x.left \in Nat
        /\ y \in BlockOf(SecurityIds) /\ y.left > 0 /\ y.left \in Nat
    BY <1>1, <1>7 DEF Passes, BlockOf
  <2>3. /\ b.use = x.use /\ b.id = x.id /\ b.left = x.left - 1
        /\ c.use = y.use /\ c.id = y.id /\ c.left = y.left - 1 /\ Addrs(c) = Addrs(y)
    BY <2>1, <2>2, LaterIs
  <2> QED BY <1>3, <1>4, <2>2, <2>3 DEF Leads, AssignedTo, ReservedBy
<1>8. ASSUME NEW m, NEW n, NEW g, Reserves(m, n, g)
      PROVE  ~ReservedBy(s, c) /\ (AssignedTo(s, c)' => b.left <= c.left)
  <2>1. m.ses # s
    BY <1>3, <1>8 DEF Reserves
  <2>2. \A d : d = n \/ d = g => ~ReservedBy(s, d) /\ d.use # "assigned"
    BY <1>8, <2>1 DEF Reserves, Claims, Reservation, ReservedBy, ReservedId
  <2>3. b \in H(Wants[s]) /\ (c \in H("unicast") \/ c = n \/ c = g)
    BY <1>1, <1>3, <1>8, <2>2 DEF Reserves, Claims, AssignedTo
  <2> QED BY <1>3, <1>5, <2>2, <2>3 DEF AssignedTo
<1>9. ASSUME NEW m, NEW d, NEW n, Heard(m), Leases(m, d, n), d \in blocks[m.kind],
             n \in BlockOf(SecurityIds), UNCHANGED req
      PROVE  ~ReservedBy(s, c) /\ (AssignedTo(s, c)' => b.left <= c.left)
  <2>1. \/ b \in H(Wants[s]) \/ (m.kind = Wants[s] /\ b = n)
        \/ (SourceApart(m) /\ b = SourceLease(m))
    BY <1>1, <1>9, LeasesHold
  <2>2. \/ c \in H("unicast") \/ (m.kind = "unicast" /\ c = n)
        \/ (SourceApart(m) /\ c = SourceLease(m))
    BY <1>1, <1>9, LeasesHold
  <2>3. n.use = "assigned" /\ n.id = AssignedId(m.ses, m.src) /\ n.left = Lifetime[m.kind] + 1
    BY <1>9, LeasesIs
  <2>4. SourceLease(m).use = "assigned" /\ SourceLease(m).id = AssignedId(m.ses, m.src)
    BY <1>9, SourceLeaseIs
  <2>5. CASE m.ses # s
    BY <1>3, <1>5, <2>1, <2>2, <2>3, <2>4, <2>5 DEF AssignedTo, AssignedId, ReservedBy
  <2>6. CASE m.ses = s
    <3>1. m.src = req[s].src /\ m.kind = Wants[s]
      BY <1>9, <2>6 DEF Heard
    <3>2. c \in blocks'["unicast"] /\ Sound("unicast", blocks'["unicast"])
      BY <1>1 DEF Held, Base, Databases
    <3>3. c.lo \in Int /\ c.hi \in Int /\ Pool["unicast"][1] <= c.lo /\ c.hi <= Pool["unicast"][2]
      BY <1>1, <3>2, BlocksAre DEF Sound, SoundIn, Tiles
    <3>4. SourceInPool(m)
      BY <1>1, <1>3, <3>1, <3>3, PoolIs DEF SourceInPool, InPool, Addrs
    <3>5. PICK e \in Held(blocks'["unicast"]) :
              m.src \in Addrs(e) /\ LeasedBy(m, e) /\ e.left = Lifetime[m.kind] + 1
      BY <1>9, <3>4, LeasesSource
    <3>6. e = c
      BY <1>1, <1>3, <3>1, <3>2, <3>5, OneBlock DEF Held
    <3>7. b.left <= Lifetime[m.kind] + 1
      <4>1. CASE b \in H(Wants[s])
        <5>1. PICK t \in Sessions : ReservedBy(t, b) \/ LeaseOk(t, Wants[s], b)
          BY <1>1, <4>1 DEF Base, Holders, HeldFor
        <5>2. t = s /\ LeaseOk(s, Wants[s], b)
          BY <1>3, <5>1 DEF ReservedBy, LeaseOk, AssignedTo, AssignedId
        <5> QED BY <3>1, <5>2 DEF LeaseOk
      <4>2. CASE b = n \/ b = SourceLease(m)
        BY <1>9, <2>3, <4>2, HeardIs, SourceLeaseIs
      <4> QED BY <2>1, <4>1, <4>2
    <3> QED BY <3>5, <3>6, <3>7 DEF LeasedBy, ReservedBy
  <2> QED BY <2>5, <2>6
<1> QED BY <1>6, <1>7, <1>8, <1>9 DEF Step

LEMMA HeldStep ==
    ASSUME FitsTheWire, Base, PoolSets, SourcesLead, SourcesHeld, Step
    PROVE  SourcesHeld'
<1>1. "unicast" \in Kinds
  BY KindsAssumption
<1>2. CASE Fades \/ (\E m, n, g : Reserves(m, n, g)) \/ (\E s \in Sessions : \E r : Decides(s, r))
           \/ (\E m : Frees(m))
  <2> SUFFICES ASSUME NEW p \in sent', LiveAck(p), SourceInPool(p) PROVE SourceHeld(p)'
    BY DEF SourcesHeld, LiveAck, SourceInPool, InPool
  <2>1. p \in sent
    BY <1>2 DEF Fades, Reserves, Claims, Offer, Decides, Frees, LiveAck
  <2>2. PICK c \in H("unicast") : p.src \in Addrs(c) /\ LeasedBy(p, c) /\ p.left < c.left
    BY <2>1 DEF SourcesHeld, SourceHeld
  <2>3. c \in BlockOf(SecurityIds) /\ c.left \in Nat /\ AckOk(p) /\ p.left \in Int
    BY <1>1, <2>1, BlocksAre DEF H, Held, Base, Databases, SentOk, LiveAck, OfferOk, Offers, AckOk, Acks
  <2>4. c.left # 0
    BY <2>2, <2>3 DEF LiveAck
  <2>5. c \in Held(blocks'["unicast"])
    <3>1. CASE Fades \/ (\E m, n, g : Reserves(m, n, g)) \/ (\E s \in Sessions : \E r : Decides(s, r))
      BY <1>1, <2>4, <3>1 DEF Fades, Reserves, Claims, Decides, H
    <3>2. CASE \E m : Frees(m)
      BY <1>1, <2>2, <3>2 DEF Frees, LeasedBy, AssignedId, LiveAck
    <3> QED BY <1>2, <3>1, <3>2
  <2> QED BY <2>2, <2>5 DEF SourceHeld, H, LeasedBy
<1>3. CASE Passes
  <2>1. ASSUME NEW p \in sent, LiveAck(Earlier(p)), SourceInPool(Earlier(p))
        PROVE  SourceHeld(Earlier(p))'
    <3>1. p \in Acks
      BY <2>1 DEF Base, SentOk, OfferOk, AckOk, Offers, LiveAck, Earlier
    <3>2. /\ Earlier(p).src = p.src /\ Earlier(p).ses = p.ses /\ Earlier(p).type = p.type
          /\ Earlier(p).left = p.left - 1 /\ p.left \in Int
      BY <3>1 DEF Acks, Earlier
    <3>3. PICK c \in H("unicast") : p.src \in Addrs(c) /\ LeasedBy(p, c) /\ p.left < c.left
      BY <2>1, <3>2 DEF SourcesHeld, SourceHeld, LiveAck, SourceInPool
    <3>4. c \in BlockOf(SecurityIds) /\ c.left \in Nat /\ c.left > 0 /\ Later(c) \in Held(blocks'["unicast"])
      BY <1>1, <1>3 DEF Passes, BlockOf
    <3> QED BY <3>2, <3>3, <3>4, LaterIs DEF SourceHeld, LeasedBy, H
  <2> QED BY <1>3, <2>1 DEF Passes, SourcesHeld, LiveAck, SourceInPool, InPool
<1>4. ASSUME NEW m, NEW b, NEW n, Heard(m), Leases(m, b, n), b \in blocks[m.kind],
             n \in BlockOf(SecurityIds), UNCHANGED req
      PROVE  SourcesHeld'
  <2>1. ASSUME NEW p \in sent', LiveAck(p), SourceInPool(p) PROVE SourceHeld(p)'
    <3>1. CASE p.ses = m.ses /\ p.src = m.src
      <4>1. SourceInPool(m)
        BY <2>1, <3>1 DEF SourceInPool
      <4>2. PICK c \in Held(blocks'["unicast"]) :
                m.src \in Addrs(c) /\ LeasedBy(m, c) /\ c.left = Lifetime[m.kind] + 1
        BY <1>4, <4>1, LeasesSource
      <4>3. p.left \in Int /\ p.left <= Lifetime[m.kind] /\ Lifetime[m.kind] \in Nat
        <5>1. AckOk(p) \/ p = Ack(m, n.lo, n.hi, Lifetime[m.kind])
          BY <1>4, <2>1 DEF Leases, Base, SentOk, OfferOk, Offers, LiveAck
        <5> QED BY <1>4, <3>1, <5>1, HeardIs DEF AckOk, Acks, Ack, Heard
      <4> QED BY <3>1, <4>2, <4>3 DEF SourceHeld, LeasedBy, H
    <3>2. CASE p.ses # m.ses \/ p.src # m.src
      <4>1. p \in sent
        BY <1>4, <3>2 DEF Leases, Ack
      <4>2. PICK c \in H("unicast") : p.src \in Addrs(c) /\ LeasedBy(p, c) /\ p.left < c.left
        BY <2>1, <4>1 DEF SourcesHeld, SourceHeld
      <4>3. ~LeasedBy(m, c) /\ ~ReservedFor(m, c) /\ ~IsFree(c)
        BY <3>2, <4>2 DEF LeasedBy, ReservedFor, IsFree, AssignedId
      <4>4. c # b
        BY <1>4, <4>3 DEF Leases, MayTake
      <4>5. SourceApart(m) => c # SourceBlock(m)
        BY <1>4, <4>3, SourceIs DEF SourceApart, Leases, Base, Heard
      <4>6. c \in Held(blocks'["unicast"])
        BY <1>1, <1>4, <4>4, <4>5 DEF Leases, Middle
      <4> QED BY <4>2, <4>6 DEF SourceHeld, LeasedBy, H
    <3> QED BY <3>1, <3>2
  <2> QED BY <2>1 DEF SourcesHeld, LiveAck, SourceInPool, InPool
<1>5. ASSUME NEW m, NEW b, Heard(m), Confirms(m, b), UNCHANGED req
      PROVE  SourcesHeld'
  <2> DEFINE q == Ack(m, m.lo, LastAsked(m), LifetimeLeft(b))
  <2>1. ASSUME LiveAck(q), SourceInPool(m) PROVE SourceHeld(q)
    <3> DEFINE c == SourceBlock(m)
    <3>1. c \in blocks["unicast"] /\ m.src \in Addrs(c) /\ (ReservedFor(m, c) \/ LeasedBy(m, c)) /\ ~IsFree(c)
      BY <1>5, <2>1, SourceIs DEF Base, Heard, Confirms
    <3>2. c \in H("unicast")
      BY <3>1 DEF H, Held
    <3> HIDE DEF c
    <3>3. /\ b \in H(m.kind) /\ b \in blocks[m.kind] /\ m.lo \in Addrs(b) /\ b.left \in Nat
          /\ LifetimeLeft(b) = (IF b.left > 0 THEN b.left - 1 ELSE 0) /\ LeasedBy(m, b)
      BY <1>5, ConfirmsIs DEF Confirms
    <3>4. q.left = LifetimeLeft(b) /\ q.src = m.src /\ q.ses = m.ses /\ q.left < b.left
      BY <2>1, <3>3 DEF LiveAck, Ack
    <3>5. LeasedBy(m, c) /\ b.left <= c.left
      <4>1. CASE m.kind = "unicast" /\ Inside(m.ses)
        <5>1. m.src \in m.lo .. LastAsked(m) /\ b.lo <= m.lo /\ LastAsked(m) <= b.hi
          BY <1>5, <2>1, <4>1, HeardInside, ConfirmsIs DEF Confirms
        <5>2. /\ b.lo \in Int /\ b.hi \in Int /\ m.lo \in Int /\ LastAsked(m) \in Int
              /\ "unicast" \in Kinds
          BY <1>1, <1>5, <3>3, HeardIs, BlocksAre DEF Base, Databases, Requests
        <5>3. m.src \in Addrs(b)
          BY <5>1, <5>2 DEF Addrs
        <5>4. b = c
          BY <1>1, <3>1, <3>3, <4>1, <5>3, OneBlock DEF Base, Databases
        <5> QED BY <3>3, <5>4
      <4>2. CASE m.kind # "unicast" \/ Apart(m.ses)
        <5>1. Leads(m.ses) /\ m.kind = Wants[m.ses] /\ m.src = req[m.ses].src
          BY <1>5, <4>2, HeardIs DEF SourcesLead, Heard
        <5>2. AssignedTo(m.ses, b)
          BY <3>3, <5>1 DEF AssignedTo, LeasedBy
        <5>3. ~ReservedBy(m.ses, c) /\ (AssignedTo(m.ses, c) => b.left <= c.left)
          BY <3>1, <3>2, <3>3, <5>1, <5>2 DEF Leads
        <5> QED BY <3>1, <5>1, <5>3 DEF AssignedTo, LeasedBy, ReservedBy, ReservedFor
      <4>3. m.kind = "unicast" => Inside(m.ses) \/ Apart(m.ses)
        BY <1>5, <2>1, HeardPool
      <4> QED BY <4>1, <4>2, <4>3
    <3>6. c.left \in Nat
      BY <1>1, <3>1, BlocksAre DEF Base, Databases
    <3>7. q.left \in Int
      BY <3>3, <3>4
    <3>8. q.left < c.left
      BY <3>3, <3>4, <3>5, <3>6, <3>7
    <3> QED BY <3>1, <3>2, <3>4, <3>5, <3>8 DEF SourceHeld, LeasedBy
  <2>2. \A p : SourceHeld(p) => SourceHeld(p)'
    BY <1>5 DEF Confirms, SourceHeld, LeasedBy, H
  <2>3. sent' = sent \cup {q} /\ SourceInPool(q) = SourceInPool(m)
    BY <1>5 DEF Confirms, SourceInPool, Ack
  <2> QED BY <2>1, <2>2, <2>3 DEF SourcesHeld, LiveAck, SourceInPool, InPool
<1> QED BY <1>2, <1>3, <1>4, <1>5 DEF Step

(* All that the source's lease rests on.                                       *)
SourceInv == PoolInv /\ SourcesLead /\ SourcesHeld

LEMMA SourceInvHolds ==
    ASSUME FitsTheWire, ReserveLife > 0
    PROVE  Spec => []SourceInv
<1>1. Init => SourcesLead /\ SourcesHeld
  BY DEF Init, ServerInit, SourcesLead, SourcesHeld, Asks, Apart, FromPool
<1>2. PoolInv /\ PoolInv' /\ SourcesLead /\ SourcesHeld /\ [Next]_vars
      => SourcesLead' /\ SourcesHeld'
  BY BaseStep, LeadsStep, HeldStep DEF PoolInv
<1> QED BY <1>1, <1>2, PoolInvHolds, PTL DEF Spec, SourceInv

(* The address a client was given beside its set stays leased for longer than  *)
(* any ACK under it promises: who has the set has his address too.             *)
THEOREM SourcesAreKept ==
    ASSUME FitsTheWire, ReserveLife > 0
    PROVE  Spec => []SourcesKept
<1>1. ASSUME Base, SourcesHeld, NEW p \in sent, LiveAck(p), SourceInPool(p)
      PROVE  LeasedBy(p, SourceBlock(p)) /\ SourceBlock(p).left > p.left
  <2>1. PICK c \in H("unicast") : p.src \in Addrs(c) /\ LeasedBy(p, c) /\ p.left < c.left
    BY <1>1 DEF SourcesHeld, SourceHeld
  <2>2. "unicast" \in Kinds /\ c \in blocks["unicast"] /\ Sound("unicast", blocks["unicast"])
    BY <1>1, KindsAssumption DEF H, Held, Base, Databases
  <2>3. SourceBlock(p) = c
    BY <2>1, <2>2, BlockAtIs DEF SourceBlock
  <2>4. p.left \in Int /\ c.left \in Nat
    BY <1>1, <2>2, BlocksAre DEF Base, SentOk, OfferOk, AckOk, Offers, Acks
  <2> QED BY <2>1, <2>3, <2>4
<1>2. SourceInv => SourcesKept
  BY <1>1 DEF SourceInv, PoolInv, SourcesKept
<1> QED BY <1>2, SourceInvHolds, PTL

----------------------------------------------------------------------------
(* What an ACK promises is leased, all of it in one block, or another ACK has  *)
(* taken its place.                                                            *)
Keeps(p, b) == /\ LeasedBy(p, b) /\ b.lo <= p.lo /\ p.hi <= b.hi /\ p.left < b.left
               /\ conf.renewal => Lies(b, p.lo, p.hi)
Kept(p) == \E b \in H(p.kind) : Keeps(p, b)
Promised == \A p \in sent : LiveAck(p) => Superseded(p) \/ Kept(p)

LEMMA LiveIsAck ==
    ASSUME Base, NEW p \in sent, LiveAck(p)
    PROVE  /\ AckOk(p) /\ p \in Acks /\ p.kind \in Kinds /\ p.kind = Wants[p.ses]
           /\ p.left \in Int /\ p.left > 0 /\ p.lo \in Int /\ p.hi \in Int /\ p.lo <= p.hi
BY DEF Base, SentOk, OfferOk, AckOk, Offers, Acks, LiveAck

(* Where ACKs are only added, what supersedes does so still.                   *)
LEMMA StaysSuperseded ==
    ASSUME sent \subseteq sent', NEW p, Superseded(p)
    PROVE  Superseded(p)'
BY DEF Superseded, LiveAck

LEMMA PromisedPasses ==
    ASSUME Base, Promised, Passes, UNCHANGED conf
    PROVE  Promised'
<1> SUFFICES ASSUME NEW p \in sent, LiveAck(Earlier(p))
             PROVE  (Superseded(Earlier(p)) \/ Kept(Earlier(p)))'
  BY DEF Promised, Passes, LiveAck
<1>1. p \in Acks /\ AckOk(p)
  BY DEF Base, SentOk, OfferOk, AckOk, Offers, LiveAck, Earlier
<1>2. \A q \in Acks : /\ Earlier(q).ses = q.ses /\ Earlier(q).src = q.src /\ Earlier(q).kind = q.kind
                      /\ Earlier(q).lo = q.lo /\ Earlier(q).hi = q.hi /\ Earlier(q).type = q.type
                      /\ Earlier(q).left = q.left - 1 /\ q.left \in Int
  BY DEF Acks, Earlier
<1>3. LiveAck(p) /\ p.left > 1 /\ p.left \in Int
  BY <1>1, <1>2 DEF LiveAck
<1>4. CASE Superseded(p)
  <2>1. PICK q \in sent \ {p} :
            /\ LiveAck(q) /\ q.ses = p.ses /\ q.src = p.src /\ q.kind = p.kind
            /\ p.left <= q.left /\ (p.lo .. p.hi) \cap (q.lo .. q.hi) # {}
    BY <1>4 DEF Superseded
  <2>2. q \in Acks /\ q.type = "ACK"
    BY <2>1, LiveIsAck DEF LiveAck
  <2>3. Lasts(q)
    BY <1>2, <1>3, <2>1, <2>2, KindsAssumption DEF Lasts
  <2>4. Earlier(q) \in sent'
    BY <2>3 DEF Passes
  <2>5. Earlier(q) # Earlier(p)
    <3>1. q # p /\ q.type = p.type
      BY <2>1, <2>2, <1>3 DEF LiveAck
    <3>2. ~(/\ q.ses = p.ses /\ q.src = p.src /\ q.kind = p.kind /\ q.lo = p.lo /\ q.hi = p.hi
            /\ q.left = p.left)
      BY <1>1, <2>2, <3>1 DEF Acks
    <3> QED BY <1>1, <1>2, <2>1, <2>2, <3>2
  <2>6. LiveAck(Earlier(q))
    BY <1>2, <1>3, <2>1, <2>2 DEF LiveAck
  <2> QED BY <1>1, <1>2, <2>1, <2>2, <2>4, <2>5, <2>6 DEF Superseded, LiveAck
<1>5. CASE Kept(p)
  <2>1. PICK b \in H(p.kind) : Keeps(p, b)
    BY <1>5 DEF Kept
  <2>2. /\ b \in BlockOf(SecurityIds) /\ b.left \in Nat /\ b.left > 0
        /\ Later(b) \in Held(blocks'[p.kind])
    BY <1>1 DEF Passes, BlockOf, Acks
  <2>3. Keeps(Earlier(p), Later(b))'
    BY <1>1, <1>2, <2>1, <2>2, LaterIs DEF Keeps, LeasedBy, Lies
  <2> QED BY <1>1, <1>2, <2>2, <2>3 DEF Kept, H
<1> QED BY <1>3, <1>4, <1>5 DEF Promised

(* A REQUEST leases the set again: its ACK takes the place of the one before.  *)
LEMMA PromisedLeases ==
    ASSUME FitsTheWire, Base, PoolSets, Promised, UNCHANGED <<conf, req>>,
           NEW m, Heard(m), NEW b \in blocks[m.kind], NEW n \in BlockOf(SecurityIds), Leases(m, b, n)
    PROVE  Promised'
<1> DEFINE q == Ack(m, n.lo, n.hi, Lifetime[m.kind])
<1>1. sent' = sent \cup {q} /\ q \in sent' /\ sent \subseteq sent'
  BY DEF Leases
<1>2. /\ q.type = "ACK" /\ q.ses = m.ses /\ q.src = m.src /\ q.kind = m.kind
      /\ q.lo = n.lo /\ q.hi = n.hi /\ q.left = Lifetime[m.kind]
  BY DEF Ack
<1> HIDE DEF q
<1>3. m.kind \in Kinds /\ Lifetime[m.kind] \in Nat /\ m.kind = Wants[m.ses]
  BY HeardIs DEF Heard
<1>4. Kept(q)'
  <2>1. n \in Held(blocks'[m.kind])
    BY <1>3 DEF Leases
  <2>2. Keeps(q, n)'
    BY <1>2, <1>3, LeasesIs DEF Keeps, LeasedBy, Lies
  <2> QED BY <1>2, <2>1, <2>2 DEF Kept, H
<1>5. ASSUME NEW p \in sent, p # q, LiveAck(p), Kept(p) PROVE (Superseded(p) \/ Kept(p))'
  <2>1. PICK c \in H(p.kind) : Keeps(p, c)
    BY <1>5 DEF Kept
  <2>2. Keeps(p, c)' /\ p.kind \in Kinds /\ LeasedBy(p, c)
    BY <1>5, <2>1, LiveIsAck DEF Keeps, LeasedBy
  <2>3. CASE c \in Held(blocks'[p.kind])
    BY <2>2, <2>3 DEF Kept, H
  <2>4. CASE c \notin Held(blocks'[p.kind])
    <3>1. (c = b /\ p.kind = m.kind) \/ (c = SourceBlock(m) /\ SourceApart(m) /\ p.kind = "unicast")
      BY <2>1, <2>2, <2>4 DEF Leases, Middle
    <3>2. ~IsFree(c) /\ ~ReservedFor(m, c)
      BY <2>2 DEF LeasedBy, IsFree, ReservedFor
    <3>3. SourceApart(m) => ReservedFor(m, SourceBlock(m)) \/ LeasedBy(m, SourceBlock(m))
      BY SourceIs DEF SourceApart, Leases, Base, Heard
    <3>4. LeasedBy(m, c)
      BY <3>1, <3>2, <3>3 DEF Leases, MayTake
    <3>5. p.ses = m.ses /\ p.src = m.src /\ p.kind = m.kind
      BY <1>3, <1>5, <2>2, <3>4, LiveIsAck DEF LeasedBy, AssignedId
    <3>6. c = b
      <4> SUFFICES ASSUME c = SourceBlock(m), SourceApart(m), p.kind = "unicast" PROVE FALSE
        BY <3>1
      <4>1. SourceInPool(m) /\ m.kind = "unicast" /\ ~SourceRefused(m)
        BY <3>5 DEF SourceApart, Leases
      <4>2. Apart(m.ses) /\ m.ses \in Sessions /\ m.src = req[m.ses].src
        BY <4>1, HeardPool, HeardInside
      <4>3. ApartSet(m.ses)
        BY <4>2 DEF PoolSets, PoolSet
      <4>4. m.src \in Addrs(c) /\ AssignedTo(m.ses, c)
        BY <3>4, <4>1, <4>2, SourceIs DEF Base, Heard, LeasedBy, AssignedTo
      <4>5. Lies(c, m.src, m.src)
        BY <2>1, <1>5, <4>2, <4>3, <4>4 DEF ApartSet
      <4>6. m.src \notin p.lo .. p.hi
        BY <1>5, <3>5, <4>2, <4>3 DEF ApartSet, Unmixed, LiveAck
      <4>7. p.lo \in Int /\ p.hi \in Int /\ p.lo <= p.hi /\ m.src \in Int
        BY <1>5, <4>1, LiveIsAck, HeardPool
      <4>8. m.src <= p.lo /\ p.hi <= m.src
        BY <2>1, <4>5 DEF Keeps, Lies
      <4> QED BY <4>6, <4>7, <4>8
    <3>7. conf.renewal /\ b \in Asked(m) /\ n.lo = m.lo
      BY <3>2, <3>6 DEF Leases, MayTake
    <3>8. Lies(c, p.lo, p.hi) /\ m.lo \in Addrs(c)
      BY <2>1, <3>6, <3>7 DEF Keeps, Asked, Container
    <3>9. m.lo \in (p.lo .. p.hi) \cap (q.lo .. q.hi)
      <4>1. n.lo \in n.lo .. n.hi
        BY LeasesIs
      <4> QED BY <1>2, <3>7, <3>8, <4>1 DEF Lies, Addrs
    <3>10. p.left > 0 /\ p.left <= Lifetime[m.kind] /\ p.left \in Int
      BY <1>5, <3>5, LiveIsAck DEF AckOk
    <3>11. LiveAck(q) /\ p.left <= q.left
      BY <1>2, <1>3, <3>10 DEF LiveAck
    <3> QED BY <1>1, <1>2, <1>5, <3>5, <3>9, <3>11 DEF Superseded, LiveAck
  <2> QED BY <2>3, <2>4
<1>6. ASSUME NEW p \in sent', LiveAck(p)' PROVE (Superseded(p) \/ Kept(p))'
  <2>1. CASE p = q
    BY <1>4, <2>1
  <2>2. CASE p # q
    <3>1. p \in sent /\ LiveAck(p)
      BY <1>1, <1>6, <2>2 DEF LiveAck
    <3> QED BY <1>1, <1>5, <2>2, <3>1, StaysSuperseded DEF Promised
  <2> QED BY <2>1, <2>2
<1> QED BY <1>6 DEF Promised

LEMMA PromisedConfirms ==
    ASSUME FitsTheWire, Base, Promised, UNCHANGED <<conf, req>>,
           NEW m, Heard(m), NEW b, Confirms(m, b)
    PROVE  Promised'
<1> DEFINE q == Ack(m, m.lo, LastAsked(m), LifetimeLeft(b))
<1>1. sent' = sent \cup {q} /\ sent \subseteq sent' /\ UNCHANGED blocks
  BY DEF Confirms
<1>2. /\ q.type = "ACK" /\ q.ses = m.ses /\ q.src = m.src /\ q.kind = m.kind
      /\ q.lo = m.lo /\ q.hi = LastAsked(m) /\ q.left = LifetimeLeft(b)
  BY DEF Ack
<1> HIDE DEF q
<1>3. /\ b \in H(m.kind) /\ b.lo <= m.lo /\ LastAsked(m) <= b.hi /\ m.lo <= LastAsked(m)
      /\ b.lo \in Int /\ b.hi \in Int /\ b.left \in Nat /\ Size(b) <= AskedSize(m.ses)
      /\ LifetimeLeft(b) = (IF b.left > 0 THEN b.left - 1 ELSE 0)
  BY ConfirmsIs DEF BlockOf
<1>4. ASSUME LiveAck(q)' PROVE Kept(q)'
  <2>1. q.left < b.left
    BY <1>2, <1>3, <1>4 DEF LiveAck
  <2>2. LeasedBy(q, b)
    BY <1>2 DEF Confirms, LeasedBy
  <2>3. ASSUME conf.renewal PROVE Lies(b, q.lo, q.hi)
    <3>1. ~m.renewal
      BY <2>3 DEF Confirms, MayTake
    <3>2. m = req[m.ses]
      BY <3>1 DEF Heard
    <3>3. LastAsked(m) \in Int /\ m.lo \in Int /\ AskedSize(m.ses) = LastAsked(m) - m.lo + 1
      BY <3>2, HeardIs DEF AskedSize, Requests
    <3> QED BY <1>2, <1>3, <3>3 DEF Lies, Size
  <2>4. Keeps(q, b)'
    BY <1>2, <1>3, <2>1, <2>2, <2>3 DEF Keeps, LeasedBy, Lies
  <2> QED BY <1>1, <1>2, <1>3, <2>4 DEF Kept, H
<1>5. ASSUME NEW p \in sent, LiveAck(p)' PROVE (Superseded(p) \/ Kept(p))'
  <2>1. Superseded(p) \/ Kept(p)
    BY <1>5 DEF Promised, LiveAck
  <2>2. Kept(p) => Kept(p)'
    BY <1>1 DEF Kept, Keeps, LeasedBy, Lies, H
  <2> QED BY <1>1, <2>1, <2>2, StaysSuperseded
<1> QED BY <1>1, <1>4, <1>5 DEF Promised

LEMMA PromisedStep ==
    ASSUME FitsTheWire, Base, PoolSets, Promised, Step, UNCHANGED conf
    PROVE  Promised'
<1>1. CASE Passes
  BY <1>1, PromisedPasses
<1>2. ASSUME NEW m, NEW b, NEW n, Heard(m) /\ Leases(m, b, n) /\ b \in blocks[m.kind]
                                  /\ n \in BlockOf(SecurityIds) /\ UNCHANGED req
      PROVE  Promised'
  BY <1>2, PromisedLeases
<1>3. ASSUME NEW m, NEW b, Heard(m) /\ Confirms(m, b) /\ UNCHANGED req
      PROVE  Promised'
  BY <1>3, PromisedConfirms
<1>4. CASE Fades \/ (\E m, n, g : Reserves(m, n, g)) \/ (\E s \in Sessions : \E r : Decides(s, r))
  <2>1. sent \subseteq sent' /\ \A p \in sent' : p.type = "ACK" => p \in sent
    BY <1>4 DEF Fades, Reserves, Claims, Offer, Decides
  <2>2. ASSUME NEW p \in sent, LiveAck(p), Kept(p) PROVE Kept(p)'
    <3>1. PICK c \in H(p.kind) : Keeps(p, c)
      BY <2>2 DEF Kept
    <3>2. p.kind \in Kinds /\ p.left \in Int /\ p.left > 0 /\ c.left \in Nat /\ p.left < c.left
      BY <2>2, <3>1, LiveIsAck, BlocksAre DEF H, Held, Base, Databases, Keeps
    <3>3. c \in Held(blocks'[p.kind])
      BY <1>4, <3>2 DEF Fades, Reserves, Claims, Decides, H
    <3> QED BY <3>1, <3>3 DEF Kept, Keeps, LeasedBy, Lies, H
  <2> QED BY <2>1, <2>2, StaysSuperseded DEF Promised, LiveAck
<1>5. ASSUME NEW m, Frees(m) PROVE Promised'
  <2> SUFFICES ASSUME NEW p \in sent, LiveAck(p), p.ses # m.ses \/ p.src # m.src
               PROVE  (Superseded(p) \/ Kept(p))'
    BY <1>5 DEF Frees, Promised, LiveAck
  <2>1. CASE Superseded(p)
    BY <1>5, <2>1 DEF Superseded, LiveAck, Frees
  <2>2. CASE Kept(p)
    <3>1. PICK c \in H(p.kind) : Keeps(p, c)
      BY <2>2 DEF Kept
    <3>2. p.kind \in Kinds /\ ~LeasedBy(m, c)
      BY <3>1, LiveIsAck DEF Keeps, LeasedBy, AssignedId
    <3>3. c \in Held(blocks'[p.kind])
      BY <1>5, <3>2 DEF Frees
    <3> QED BY <3>1, <3>3 DEF Kept, Keeps, LeasedBy, Lies, H
  <2> QED BY <2>1, <2>2 DEF Promised
<1> QED BY <1>1, <1>2, <1>3, <1>4, <1>5 DEF Step

(* The server keeps the promise of every ACK, through retries, renewals,       *)
(* releases and other clients' packets.                                        *)
THEOREM PromisesAreKept ==
    ASSUME FitsTheWire, ReserveLife > 0
    PROVE  Spec => []PromisesKept
<1>1. Init => Promised
  BY DEF Init, ServerInit, Promised
<1>2. SourceInv /\ Promised /\ [Next]_vars => Promised'
  BY BaseStep, PromisedStep DEF SourceInv, PoolInv
<1>3. ASSUME Base, NEW p \in sent, LiveAck(p), Kept(p)
      PROVE  \E b \in blocks[p.kind] :
                 LeasedBy(p, b) /\ b.lo <= p.lo /\ p.hi <= b.hi /\ b.left > p.left
  <2>1. PICK b \in H(p.kind) : Keeps(p, b)
    BY <1>3 DEF Kept
  <2>2. p.kind \in Kinds /\ p.left \in Int /\ b \in blocks[p.kind]
    BY <1>3, LiveIsAck DEF H, Held
  <2>3. b.left \in Nat
    BY <1>3, <2>2, BlocksAre DEF Base, Databases
  <2> QED BY <2>1, <2>2, <2>3 DEF Keeps
<1>4. SourceInv /\ Promised => PromisesKept
  BY <1>3 DEF SourceInv, PoolInv, Promised, PromisesKept
<1> QED BY <1>1, <1>2, <1>4, SourceInvHolds, PTL DEF Spec
=============================================================================
