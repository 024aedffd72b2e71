---------------------------- MODULE PalmaClient ----------------------------
(* A client (src/client/states.cpp, palma-client.cpp): its five states, their  *)
(* timers and retries, the memberships of its interface, the sets it hears     *)
(* of, and the conflicts between clients that assign themselves a set.  Each   *)
(* handler is an operator from the client's record to those it may leave.      *)
(* Servers are what packets they may send: those with another token or from    *)
(* another server are dropped by every handler and not modelled.  A set is the *)
(* set of its addresses; AddrSet() is {} here, no packet is about address 0.   *)
EXTENDS AddressPool

CONSTANTS Clients,
          SelfRange,          \* AUTOASSIGN_UNICAST, or the other three
          Multicast,          \* the kind of CLAIM_SET
          MinClaim, MaxClaim, \* MIN_ADDR_CLAIM, MAX_ADDR_CLAIM
          SelfMax,            \* MAX_AUTOASSIGN_UNICAST, else any size
          RandomAssign, Renewal,
          Preassigned,        \* Preassigned[c]: PREASSIGNED_ADDR or 0
          Known,              \* the clients with a KNOWN_SERVER_ADDR
          Probes,             \* DISCOVER_SOURCE_ADDR_RANGE
          Mcast,              \* PALMA_MCAST
          LowBits,            \* 16: the bits of an address that fillMreq loses
          CardFilters,        \* does the card drop what no membership is for?
          Offers, Acks,       \* what servers may send
          Retries,            \* DISCOVER_DSC_COUNT, REQUEST_REQ_COUNT
          MaxInFlight,        \* bound: packets between clients under way
          MaxMember           \* bound: how often a membership is counted

ASSUME ClientAssumption ==
    /\ First \in Nat \ {0} /\ Last \in Nat /\ First <= Last
    /\ MinClaim \in Nat \ {0} /\ MaxClaim \in MinClaim .. WireMax /\ Last < 2 ^ AddrBits
    /\ SelfMax \in Nat \ {0} /\ Retries \in Nat \ {0} /\ MaxInFlight \in Nat
    /\ MaxMember \in Nat \ {0}
    /\ Preassigned \in [Clients -> Nat] /\ \A c \in Known : Preassigned[c] # 0
    /\ 2 ^ AddrBits \in Nat /\ CardFilters \in BOOLEAN
    /\ 0 \notin Probes /\ \A o \in Offers : o.set \subseteq Nat \ {0}

VARIABLES client,  \* client[c]: the members of PalmaClient and its states
          net      \* packets of clients under way, one for each other client

vars == <<client, net>>

NoOffer == [set |-> {}, addr |-> 0, life |-> 0]
Filtered == (Probes \cup (First .. Last) \cup {Preassigned[c] : c \in Clients}
             \cup {o.addr : o \in Offers} \cup UNION {o.set : o \in Offers}) \ {0}

(* id: who it is; state: m_curstate; own, assigned, mcast: m_src_addr,         *)
(* m_assigned_set, m_mcast_on; src, claim, tries: m_src_addr, the set asked    *)
(* for and the count of the state; filter: how often the interface has each    *)
(* membership (netitf.cpp); timers: those that run; out: packets sent.         *)
(* fillMreq takes the first 6 of the 8 bytes of an address in network order,   *)
(* and a packet the last 6: the membership of 48 bits is the address without   *)
(* its last two bytes, and addresses that differ in these alone share one.     *)
Member(a) == a \div 2 ^ LowBits
Memberships == {Member(a) : a \in Filtered}

Fresh(c) ==
    [id |-> c, state |-> "start", own |-> Preassigned[c], assigned |-> {}, mcast |-> FALSE,
     src |-> 0, claim |-> {}, tries |-> 0, offer |-> NoOffer, change |-> FALSE,
     filter |-> [a \in Memberships |->
                    IF Preassigned[c] # 0 /\ a = Member(Preassigned[c]) THEN 1 ELSE 0],
     timers |-> {}, db |-> WholePool, out |-> {}]

Roams(r) == Preassigned[r.id] = 0

(* The kernel drops a membership it does not have without complaint, and most  *)
(* callers ask first whether there is an address.  Above the bound additions   *)
(* are forgotten: the model has fewer memberships than the interface.          *)
AddAddr(f, a) == [f EXCEPT ![Member(a)] = AtMost(@ + 1, MaxMember)]
DelAddr(f, a) ==
    IF Member(a) \in DOMAIN f /\ f[Member(a)] > 0 THEN [f EXCEPT ![Member(a)] = @ - 1] ELSE f
DropAddr(f, a) == IF a # 0 THEN DelAddr(f, a) ELSE f

(* The addresses that the card has been given, and what it lets in.  The cards *)
(* of the virtual networks in test/ let everything in.                         *)
Joined(r) == {a \in Memberships : r.filter[a] > 0}
             \cup (IF r.mcast THEN {Member(Mcast)} ELSE {})
LetsIn(r, a) == CardFilters => a \in Joined(r)

----------------------------------------------------------------------------
(* adjustSet; MaxClaim is a size that travels as a count.                      *)
Trim(S, n) == {a \in S : a < Least(S) + n}

(* A set too large for a count is aligned to a mask.                           *)
OnWire(S) ==
    IF Cardinality(S) <= WireMax THEN S
    ELSE LET run == AlignedRun(Least(S), Greatest(S)) IN run[1] .. run[1] + run[2] - 1

(* RandomAddrSet: n addresses of S; the modulus never lets it end with S.      *)
RandomSets(S, n) ==
    IF Cardinality(S) <= n THEN {S}
    ELSE {a .. a + n - 1 : a \in Least(S) .. Greatest(S) - n}

(* exclude of a set that others use, cut to the total set.                     *)
Hear(r, S) ==
    LET in == S \cap First .. Last
    IN  IF in = {} THEN r ELSE [r EXCEPT !.db = Exclude(@, Least(in), Greatest(in), 1)]

Packet(type, sa, da, S) == [to |-> NoId, type |-> type, sa |-> sa, da |-> da, set |-> S]

----------------------------------------------------------------------------
CleanDiscovery(r) ==
    [r EXCEPT !.filter = IF Roams(r) THEN DropAddr(@, r.src) ELSE @,
              !.src = IF Roams(r) THEN 0 ELSE @,
              !.offer = NoOffer, !.claim = {}, !.change = FALSE, !.timers = @ \ {"discovery"}]

(* A slip: the timer is not stopped.                                           *)
CleanRequestingOnly(r) == [r EXCEPT !.filter = DropAddr(@, r.src), !.src = 0, !.claim = {}]

CleanRequesting(r) ==
    [r EXCEPT !.filter = DropAddr(@, r.src), !.src = 0, !.claim = {}, !.timers = @ \ {"request"}]

(* A slip: the next ANNOUNCE is not called off.                                *)
CleanDefendingLoud(r) ==
    [r EXCEPT !.filter = IF Roams(r) THEN DelAddr(@, r.own) ELSE @,
              !.own = IF Roams(r) THEN 0 ELSE @,
              !.assigned = {}, !.timers = @ \ {"lifetime"}]

CleanDefending(r) ==
    [r EXCEPT !.filter = IF Roams(r) THEN DelAddr(@, r.own) ELSE @,
              !.own = IF Roams(r) THEN 0 ELSE @,
              !.assigned = {}, !.timers = @ \ {"announcement", "lifetime"}]

CleanBound(r) == [r EXCEPT !.timers = @ \ {"lease"}]

Clean(r) == CASE r.state = "discovery"  -> CleanDiscovery(r)
              [] r.state = "requesting" -> CleanRequesting(r)
              [] r.state = "defending"  -> CleanDefending(r)
              [] r.state = "bound"      -> CleanBound(r)

----------------------------------------------------------------------------
(* A slip: the old address is deleted after the new one is stored.             *)
SendDiscoverSwapped(r) ==
    {[r EXCEPT !.src = a,
               !.filter = IF Roams(r) THEN DelAddr(AddAddr(@, a), a) ELSE @,
               !.timers = @ \cup {"discovery"},
               !.out = {Packet("DISCOVER", a, Mcast, r.claim)}] :
        a \in IF Roams(r) THEN Probes ELSE {r.own}}

(* sendDiscover: from an address of its own or from another random one.        *)
SendDiscover(r) ==
    {[r EXCEPT !.src = a,
               !.filter = IF Roams(r) THEN AddAddr(DropAddr(@, r.src), a) ELSE @,
               !.timers = @ \cup {"discovery"},
               !.out = {Packet("DISCOVER", a, Mcast, r.claim)}] :
        a \in IF Roams(r) THEN Probes ELSE {r.own}}

(* getFreeSet finds the whole free block, or none: a DISCOVER without a set.   *)
Discoverable(r) ==
    LET free == {OnWire(Addrs(b)) : b \in GetFreeSet(r.db, MinClaim, MaxClaim)}
    IN  IF free = {} THEN {{}} ELSE free

StartDiscovery(r) ==
    UNION {SendDiscover([r EXCEPT !.state = "discovery", !.tries = Retries, !.src = 0,
                                  !.claim = S, !.offer = NoOffer, !.change = FALSE,
                                  !.mcast = TRUE]) : S \in Discoverable(r)}

(* A slip: the client goes on listening to the other clients.                  *)
StartRequestingLoud(r, src, S, renewal) ==
    {[r EXCEPT !.state = "requesting", !.tries = Retries, !.src = src,
               !.claim = Trim(S, MaxClaim),
               !.filter = IF ~renewal /\ Roams(r) THEN AddAddr(@, src) ELSE @,
               !.timers = @ \cup {"request"}]}

(* A renewal asks for m_assigned_set itself, and cuts it if it is too large.   *)
StartRequesting(r, src, S, renewal) ==
    {[r EXCEPT !.state = "requesting", !.mcast = FALSE, !.tries = Retries, !.src = src,
               !.claim = Trim(S, MaxClaim),
               !.assigned = IF renewal THEN Trim(S, MaxClaim) ELSE @,
               !.filter = IF ~renewal /\ Roams(r) THEN AddAddr(@, src) ELSE @,
               !.timers = @ \cup {"request"}]}

(* begin, and restart once it has cleaned up.                                  *)
Begin(r) ==
    IF r.id \in Known THEN StartRequesting(r, r.own, First .. Last, FALSE) ELSE StartDiscovery(r)

Restart(r) ==
    LET q == Clean(r)
    IN  Begin([q EXCEPT !.filter = IF Roams(q) THEN DropAddr(@, q.own) ELSE @,
                        !.own = IF Roams(q) THEN 0 ELSE @, !.assigned = {}])

SendAnnounce(r) == [r EXCEPT !.timers = @ \cup {"announcement"},
                             !.out = {Packet("ANNOUNCE", r.own, Mcast, r.assigned)}]

(* A client without an address takes one of its set.                           *)
StartDefending(r, S) ==
    {SendAnnounce([r EXCEPT !.state = "defending", !.assigned = S, !.own = a,
                            !.filter = IF Roams(r) THEN AddAddr(@, a) ELSE @,
                            !.timers = @ \cup {"lifetime"}]) :
        a \in IF Roams(r) THEN UNION RandomSets(S, 1) ELSE {r.own}}

(* A slip: the set of an ACK is not validated.                                 *)
StartBoundAnyway(r) == {[r EXCEPT !.state = "bound", !.timers = @ \cup {"lease"}]}

(* What the client does not want goes back with a RELEASE.                     *)
StartBound(r) ==
    LET q == [r EXCEPT !.state = "bound"]
    IN  IF Cardinality(q.assigned) >= MinClaim
        THEN {[q EXCEPT !.timers = @ \cup {"lease"}]}
        ELSE Restart(q)

----------------------------------------------------------------------------
(* Packets.  checkSet: what others use is not free, and not to be discovered.  *)
CheckSetOnly(r, S) == Hear(r, S)  \* a slip: m_change_discovery is not set
CheckSet(r, S) == [Hear(r, S) EXCEPT !.change = @ \/ S \cap r.claim # {}]

ValidOffer(r, o) ==
    /\ Cardinality(o.set) >= MinClaim
    /\ Multicast => ~Roams(r) \/ o.addr # 0

(* storeOffer compares what it could take of this one with all of the other.   *)
Better(o, old) ==
    LET size == AtMost(Cardinality(o.set), MaxClaim)
    IN  \/ old = NoOffer \/ Cardinality(old.set) < size
        \/ Cardinality(old.set) = size /\ old.life < o.life

StoreOffer(r, o) ==
    {IF ValidOffer(r, o) /\ Better(o, r.offer) THEN [r EXCEPT !.offer = o] ELSE r}

(* The source that comes with an offer, or the first address of its set.       *)
SourceOf(r, o) ==
    IF ~Roams(r) THEN r.own
    ELSE IF o.addr = 0 /\ ~Multicast THEN Least(o.set) ELSE o.addr

(* DefendingState::handlePacket forgets its address before it cleans up.       *)
AcceptOffer(r, o) ==
    IF ~ValidOffer(r, o) THEN {r}
    ELSE StartRequesting(CleanDefending([r EXCEPT !.own = IF Roams(r) THEN 0 ELSE @]),
                         SourceOf(r, o), o.set, FALSE)

HandleAck(r, k) ==
    IF k.ok
    THEN StartBound(CleanRequesting([r EXCEPT !.own = r.src, !.src = 0, !.assigned = k.set]))
    ELSE Restart(r)

(* sendDefend, with what m asks for of the client's set.                       *)
SendDefend(r, m) ==
    [r EXCEPT !.out = {Packet("DEFEND", r.own, m.sa, m.set \cap r.assigned)}]

(* processConflict: the difference of the first addresses has AddrBits bits.   *)
LeftCount(r, conflict) == (Least(r.assigned) - Least(conflict)) % 2 ^ AddrBits

(* A slip: the client shrinks even when it has no address to spare.            *)
ProcessConflictSoftly(r, m) ==
    {SendDefend([r EXCEPT !.assigned = Trim(@, AtMost(MinClaim, Cardinality(@) - 1))], m)}

(* A slip: the client defends all of its set.                                  *)
ProcessConflictStubbornly(r, m) ==
    IF MinClaim < Cardinality(r.assigned) THEN {SendDefend(r, m)} ELSE Restart(r)

ProcessConflict(r, m) ==
    LET left == LeftCount(r, m.set \cap r.assigned)
    IN  IF left >= MinClaim THEN {[r EXCEPT !.assigned = Trim(@, left)]}
        ELSE IF MinClaim < Cardinality(r.assigned)
             THEN {SendDefend([r EXCEPT !.assigned = Trim(@, MinClaim)], m)}
             ELSE Restart(r)

(* An ANNOUNCE, or a DEFEND, of what others use.                               *)
HandleUsed(r, m) ==
    CASE r.state = "discovery" -> {CheckSet(r, m.set)}
      [] r.state = "defending" /\ m.set \cap r.assigned # {} -> ProcessConflict(Hear(r, m.set), m)
      [] r.state = "defending" /\ m.set \cap r.assigned = {} -> {Hear(r, m.set)}
      [] OTHER -> {r}

HandleDiscover(r, m) ==
    {IF r.state = "defending" /\ m.set \cap r.assigned # {} THEN SendDefend(r, m) ELSE r}

----------------------------------------------------------------------------
(* Timeouts; check has taken the timer off the list.                           *)
Rings(r, timer) == timer \in r.timers
Rung(r, timer) == [r EXCEPT !.timers = @ \ {timer}]

(* A client without an address cannot assign itself a multicast set.           *)
MayAssignItself(r) == r.claim \cap SelfRange # {} /\ (~Multicast \/ ~Roams(r))

SelfSize == IF Multicast THEN MaxClaim ELSE AtMost(MaxClaim, SelfMax)
SelfSets(r) ==
    IF RandomAssign THEN RandomSets(r.claim, SelfSize) ELSE {Trim(r.claim, SelfSize)}

(* A slip: the retries are not counted.                                        *)
DiscoveryTimeoutAgain(r) == SendDiscover(r)

DiscoveryTimeout(r) ==
    IF r.offer # NoOffer
    THEN StartRequesting(CleanDiscovery(r), SourceOf(r, r.offer), r.offer.set, FALSE)
    ELSE IF r.change THEN Restart(r)
    ELSE IF r.tries > 1 THEN SendDiscover([r EXCEPT !.tries = @ - 1])
    ELSE IF MayAssignItself(r)
         THEN UNION {StartDefending(CleanDiscovery(r), S) : S \in SelfSets(r)}
         ELSE Restart(r)

(* A slip: one retry too many.                                                 *)
RequestTimeoutOnce(r) ==
    IF r.tries > 0 THEN {[r EXCEPT !.tries = @ - 1, !.timers = @ \cup {"request"}]} ELSE Restart(r)

RequestTimeout(r) ==
    IF r.tries > 1 THEN {[r EXCEPT !.tries = @ - 1, !.timers = @ \cup {"request"}]} ELSE Restart(r)

LeaseTimeout(r) ==
    IF Renewal THEN StartRequesting(CleanBound(r), r.own, r.assigned, TRUE) ELSE Restart(r)

----------------------------------------------------------------------------
Init == client = [c \in Clients |-> Fresh(c)] /\ net = {}

(* Client c becomes one of results; what it sends may fill the net.            *)
Sent(c, r) == {[p EXCEPT !.to = d] : d \in Clients \ {c}, p \in r.out}
Become(c, results, rest) ==
    \E r \in results :
        /\ client' = [client EXCEPT ![c] = [r EXCEPT !.out = {}]]
        /\ net' = IF Cardinality(rest \cup Sent(c, r)) <= MaxInFlight
                  THEN rest \cup Sent(c, r) ELSE rest

Start(c) == client[c].state = "start" /\ Become(c, Begin(client[c]), net)

(* handlePacket: what is sent to everybody, or to the address that the client  *)
(* sends from.                                                                 *)
Talks(r) == IF r.state \in {"bound", "defending"} THEN r.own ELSE r.src
Receives(c, m) ==
    /\ m.to = c /\ LetsIn(client[c], m.da)
    /\ m.da \in {Mcast, Talks(client[c])}

HearUsed(c) == \E m \in net :
    /\ m.type \in {"ANNOUNCE", "DEFEND"} /\ Receives(c, m)
    /\ Become(c, HandleUsed(client[c], m), net \ {m})
HearDiscover(c) == \E m \in net :
    /\ m.type = "DISCOVER" /\ Receives(c, m)
    /\ Become(c, HandleDiscover(client[c], m), net \ {m})

(* The network loses a packet, or its receiver does not listen.                *)
Lose == \E m \in net : net' = net \ {m} /\ UNCHANGED client

GetOffer(c) == \E o \in Offers :
    /\ LetsIn(client[c], Talks(client[c]))
    /\ \/ client[c].state = "discovery" /\ Become(c, StoreOffer(client[c], o), net)
       \/ client[c].state = "defending" /\ Become(c, AcceptOffer(client[c], o), net)

GetAck(c) == \E k \in Acks :
    /\ client[c].state = "requesting" /\ LetsIn(client[c], Talks(client[c]))
    /\ Become(c, HandleAck(client[c], k), net)

Ring(c, timer, results) ==
    Rings(client[c], timer) /\ Become(c, results, net)

DiscoveryEnds(c) == Ring(c, "discovery", DiscoveryTimeout(Rung(client[c], "discovery")))
RequestEnds(c) == Ring(c, "request", RequestTimeout(Rung(client[c], "request")))
AnnouncementEnds(c) ==
    Ring(c, "announcement", {SendAnnounce(Rung(client[c], "announcement"))})
SelfAssignmentEnds(c) == Ring(c, "lifetime", Restart(Rung(client[c], "lifetime")))
LeaseEnds(c) == Ring(c, "lease", LeaseTimeout(Rung(client[c], "lease")))

(* A set that others use is not heard of any more.                             *)
ExclusionEnds(c) == \E b \in Held(client[c].db) :
    Become(c, {[client[c] EXCEPT !.db = Timeout(@, b)]}, net)

(* onExit, when a signal arrives: a RELEASE of what a server gave, and clean.  *)
Exit(c) ==
    /\ client[c].state \notin {"start", "ended"}
    /\ Become(c, {[Clean(client[c]) EXCEPT !.state = "ended"]}, net)

TimeoutOf(c) == DiscoveryEnds(c) \/ RequestEnds(c) \/ AnnouncementEnds(c)
                \/ SelfAssignmentEnds(c) \/ LeaseEnds(c)
Next == \/ Lose
        \/ \E c \in Clients : \/ Start(c) \/ TimeoutOf(c) \/ ExclusionEnds(c) \/ Exit(c)
                              \/ HearUsed(c) \/ HearDiscover(c) \/ GetOffer(c) \/ GetAck(c)

(* check runs in every round of the loop: a timer that runs fires.             *)
Fairness == \A c \in Clients : WF_vars(Start(c)) /\ WF_vars(DiscoveryEnds(c)) /\ WF_vars(RequestEnds(c))
Spec == Init /\ [][Next]_vars /\ Fairness

----------------------------------------------------------------------------
Sets == {lo .. hi : lo, hi \in First .. Last} \cup {o.set : o \in Offers} \cup {k.set : k \in Acks}
States == {"start", "discovery", "requesting", "bound", "defending", "ended"}

(* Members fit their use; a state that asks has tries left.                    *)
TypeInvariant ==
    \A c \in Clients : LET r == client[c] IN
        /\ r.state \in States /\ r.own \in Filtered \cup {0} /\ r.src \in Filtered \cup {0}
        /\ r.assigned \subseteq UNION Sets /\ r.claim \subseteq UNION Sets
        /\ r.tries \in 0 .. Retries /\ r.mcast \in BOOLEAN /\ r.change \in BOOLEAN
        /\ r.offer \in Offers \cup {NoOffer} /\ r.filter \in [Memberships -> 0 .. MaxMember]
        /\ r.state \in {"discovery", "requesting"} => r.tries > 0

(* Through every way out of a state, also the one through BOUND into the next  *)
(* DISCOVERY, exactly the timers of the present state run: a client is never   *)
(* left without one, and none fires into another state.                        *)
TimersOfState ==
    \A c \in Clients : client[c].timers =
        CASE client[c].state = "discovery"  -> {"discovery"}
          [] client[c].state = "requesting" -> {"request"}
          [] client[c].state = "bound"      -> {"lease"}
          [] client[c].state = "defending"  -> {"announcement", "lifetime"}
          [] OTHER -> {}

(* A client that assigns itself a set is a member of PALMA_MCAST and one that  *)
(* a server serves is not.  The membership of the address that a client        *)
(* without a preassigned one talks from stands, across offers, alternates,     *)
(* renewals and refusals, though addresses that come and go may share it.      *)
MembershipsStand ==
    \A c \in Clients : LET r == client[c] IN
        /\ r.state \in {"discovery", "defending"} => r.mcast
        /\ r.state \in {"requesting", "bound"} => ~r.mcast
        /\ (Roams(r) /\ r.state \notin {"start", "ended"}) => r.filter[Member(Talks(r))] > 0

(* PALMA.pdf p. 17: the card dismisses what is sent to an address that the     *)
(* client has left; what is sent to the one that it talks from comes in.       *)
HearsWhereItTalks ==
    \A c \in Clients : client[c].state \notin {"start", "ended"} =>
        LetsIn(client[c], Talks(client[c]))

(* What a client still asks for in DISCOVERY touches nothing that it knows to  *)
(* be used, unless it has noted that it must ask for another set.              *)
ClaimIsFree ==
    \A c \in Clients : LET r == client[c] IN
        (r.state = "discovery" /\ ~r.change) => \A b \in Held(r.db) : Addrs(b) \cap r.claim = {}

(* A client that gives addresses up in conflicts never keeps fewer than it     *)
(* needs, and one with a lease never has fewer.                                *)
NeverTooFew ==
    \A c \in Clients : client[c].state \in {"bound", "defending"} =>
        Cardinality(client[c].assigned) >= MinClaim

(* PALMA.pdf p. 28-29: a client that hears of a conflict resolves it, or sends *)
(* a DEFEND (or goes back to START).                                           *)
Settled(c, m) ==
    \/ client'[c].state # "defending" \/ client'[c].assigned \cap m.set = {}
    \/ \E p \in net' \ net : p.type = "DEFEND" /\ p.da = m.sa
ConflictsAreSettled ==
    [][\A c \in Clients, m \in net :
          (/\ HearUsed(c) /\ m \notin net'
           /\ client[c].state = "defending" /\ m.set \cap client[c].assigned # {})
          => Settled(c, m)]_vars

(* Clients do not send each other DEFENDs for ever (states.cpp:424): who       *)
(* answers an ANNOUNCE or a DEFEND by a DEFEND has given up a part of its own  *)
(* set first, and does not ask the other for what it gave up.                  *)
DefendsGiveWay ==
    [][\A c \in Clients : \A p \in net' \ net :
          (HearUsed(c) /\ p.type = "DEFEND" /\ p.to # c) =>
             /\ client'[c].assigned \subseteq client[c].assigned
             /\ client'[c].assigned # client[c].assigned
             /\ p.set \subseteq client'[c].assigned]_vars

(* Whatever servers answer, a client that may assign itself a set does not ask *)
(* for ever: it goes on to what comes after its retries.                       *)
AsksNotForEver ==
    \A c \in Clients :
        /\ client[c].state = "discovery" ~> client[c].state # "discovery"
        /\ client[c].state = "requesting" ~> client[c].state # "requesting"
=============================================================================
