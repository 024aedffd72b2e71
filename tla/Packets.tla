------------------------------- MODULE Packets -------------------------------
(* class Packet (src/common/packet.cpp), the senders of the client and of the  *)
(* server that fill it, the receiver that parses and checks it, and the        *)
(* Wireshark dissector that reads it on the line.  What a packet says of the   *)
(* database or of a timer is a choice here; how it says it is the module.      *)
EXTENDS AddressBlocks, Sequences

CONSTANTS Ranges,      \* <<first, size>> of the sets that a database may name
          Kinds,       \* [bits, mcast, slap] of an address
          Stations, Networks, Vendors,  \* configured strings, or None
          Letters,     \* how many characters each string has
          Lifetimes,   \* LIFETIME values
          MaxClaim,    \* MaxAddressesPerClaim
          None

MaxPar     == 6                                          \* MAX_PAR
HeaderSize == 8
MinSize    == 14 + HeaderSize                            \* MIN_PKT_SIZE
MaxSize    == MinSize + 4 + 18 + 2 * 255 + 10 + 255      \* MAX_PKT_SIZE

(* An AddrSet; its form is m_type.                                             *)
Sets == [lo : Nat, size : Nat, form : {"count", "mask"}, kind : Kinds]
SetOf(lo, size, form, kind) == [lo |-> lo, size |-> size, form |-> form, kind |-> kind]
Span(s) == s.lo .. s.lo + s.size - 1

(* What is configured or found in a database.  A text is not so long that its  *)
(* parameter takes more than the 255 bytes that MAX_PKT_SIZE, and the buffer   *)
(* of netsend with it, have for it.                                            *)
Texts == (Stations \cup Networks \cup Vendors) \ {None}

MsgTypes    == {"DISCOVER", "OFFER", "REQUEST", "ACK", "RELEASE", "DEFEND", "ANNOUNCE"}
StatusCodes == {"NO_CODE", "ASSIGN_OK", "ALTERNATE_SET", "FAIL_CONFLICT", "FAIL_DISALLOWED",
                "FAIL_TOO_LARGE", "FAIL_OTHER"}
ParTypes    == {"STATION_ID", "NETWORK_ID", "VENDOR", "MAC_ADDR_SET", "LIFETIME", "CLIENT_ADDR"}
SlapBits    == {"AAI", "ELI", "SAI", "MAC64", "MCAST"}
ControlBits == SlapBits \cup {"SERVER", "SETPROV", "STATIONID", "NETWORKID", "CODEFIELD",
                              "VENDOR", "RENEWAL"}

(* A parameter, a Packet and the bytes that toBuffer makes of it.  cw is       *)
(* m_control_word, len and length are m_length.                                *)
Pars       == [id : ParTypes, len : Nat, val : Texts \cup Nat \cup Sets]
PacketType == [type : MsgTypes, status : StatusCodes, cw : SUBSET ControlBits, length : Nat,
               pars : Seq(Pars)]
FrameType  == [type : MsgTypes, status : StatusCodes, cw : SUBSET ControlBits, length : Nat,
               bytes : Nat, pars : Seq(Pars)]

ASSUME PacketAssumption ==
    /\ Ranges \subseteq Nat \X (Nat \ {0})
    /\ Kinds \subseteq [bits : {48, 64}, mcast : BOOLEAN, slap : {"AAI", "ELI", "SAI"}]
    /\ \A t \in Texts : Letters[t] \in Nat /\ Letters[t] % 256 <= 253
    /\ Lifetimes \subseteq Nat /\ MaxClaim \in Nat

ASSUME NoneAssumption ==
    None \notin Nat /\ None \notin Sets /\ None \notin PacketType /\ None \notin FrameType

VARIABLES conf,   \* the strings of both sides, and what slapType leaves
          sent,   \* the last Packet that was sent
          wire,   \* it in the buffer, until it is received, or None
          heard   \* the Packet the receiver then handles, or None

vars == <<conf, sent, wire, heard>>

(* alignToMask(MASK), adjustSet, and checkConflict, whose result is a count.   *)
Aligned(s) ==
    LET r == AlignedRun(s.lo, s.lo + s.size - 1)
    IN  IF s.form = "mask" THEN s ELSE SetOf(r[1], r[2], "mask", s.kind)
Prepared(s) == IF s.size > WireMax THEN Aligned(s) ELSE s
(* A slip: a set too large for a count stays one.                              *)
AdjustedAsCount(s, max) == SetOf(s.lo, AtMost(s.size, max), "count", s.kind)
Adjusted(s, max) == Prepared(SetOf(s.lo, AtMost(s.size, max), "count", s.kind))
Conflicts(s, t) == s.kind.bits = t.kind.bits /\ Span(s) \cap Span(t) # {}
Conflict(s, t) ==
    LET both == Span(s) \cap Span(t)
    IN  SetOf(Least(both), Cardinality(both), "count", s.kind)

(* slapType has no return statement: with the makefile's g++ -g the caller     *)
(* finds what the last line computed, which is its operand or, where the       *)
(* result shares the register, the value that was meant.                       *)
slapType(s) ==
    (IF s.kind.mcast THEN {"MCAST"} ELSE {})
        \cup (IF conf.build = "operand" THEN {}
              ELSE {s.kind.slap} \cup (IF s.kind.bits = 64 THEN {"MAC64"} ELSE {}))

----------------------------------------------------------------------------
(* A Packet, and the parameters as the add... calls put them into it.          *)
NewPacket(type, status) ==
    [type |-> type, status |-> status, length |-> HeaderSize, pars |-> <<>>,
     cw |-> (IF type \in {"OFFER", "ACK"} THEN {"SERVER"} ELSE {})
              \cup (IF status = "NO_CODE" THEN {} ELSE {"CODEFIELD"})]

ParOf(id, len, val) == [id |-> id, len |-> len, val |-> val]
addPar(p, par, flags) ==
    IF Len(p.pars) < MaxPar
    THEN [p EXCEPT !.cw = @ \cup flags, !.pars = Append(@, par), !.length = @ + par.len + 2]
    ELSE [p EXCEPT !.cw = @ \cup flags]

addStation(p, id) ==
    IF id = None THEN p ELSE addPar(p, ParOf("STATION_ID", Letters[id] % 256, id), {"STATIONID"})
addNetwork(p, id) ==
    IF id = None THEN p ELSE addPar(p, ParOf("NETWORK_ID", Letters[id] % 256, id), {"NETWORKID"})
addVendor(p, id) ==
    IF id = None THEN p ELSE addPar(p, ParOf("VENDOR", Letters[id] % 256, id), {"VENDOR"})
addLifetime(p, life) == addPar(p, ParOf("LIFETIME", 2, life), {})
addClientAddr(p, a)  == IF a = 0 THEN p ELSE addPar(p, ParOf("CLIENT_ADDR", 6, a), {})
MacSetLength(s) ==
    LET len == s.kind.bits \div 8 IN IF s.form = "count" THEN len + 2 ELSE len * 2
addMacSet(p, s, flags) == addPar(p, ParOf("MAC_ADDR_SET", MacSetLength(s), s), flags)
addOwnSet(p, s)        == addMacSet(p, s, {"SETPROV"} \cup slapType(s))

----------------------------------------------------------------------------
(* toBuffer: a count travels in 16 bits, a length in 8, m_length in 12.        *)
OnLine(par) ==
    [id |-> par.id, len |-> (par.len + 2) % 256,
     val |-> IF par.id = "MAC_ADDR_SET" /\ par.val.form = "count"
             THEN [par.val EXCEPT !.size = @ % (WireMax + 1)] ELSE par.val]
ParBytes(pars, i) == IF i <= Len(pars) THEN pars[i].len + 2 ELSE 0
Bytes(pars) == ParBytes(pars, 1) + ParBytes(pars, 2) + ParBytes(pars, 3)
                   + ParBytes(pars, 4) + ParBytes(pars, 5) + ParBytes(pars, MaxPar)
ToBuffer(p) ==
    [type |-> p.type, status |-> p.status, cw |-> p.cw,
     length |-> p.length % 2 ^ 12, bytes |-> MinSize + Bytes(p.pars),
     pars |-> [i \in 1 .. Len(p.pars) |-> OnLine(p.pars[i])]]

(* parsePar: the length decides how a set is read, and an unfit one fails.     *)
BodyLen(par) == (par.len - 2) % 256
Readable(par) ==
    CASE par.id \in {"STATION_ID", "NETWORK_ID", "VENDOR"} -> BodyLen(par) > 1
      [] par.id = "MAC_ADDR_SET" -> BodyLen(par) \in {8, 10, 12, 16}
      [] par.id = "CLIENT_ADDR"  -> BodyLen(par) \in {6, 8}
      [] par.id = "LIFETIME"     -> BodyLen(par) = 2
SetIn(par) ==
    LET counted == BodyLen(par) < 12
        len     == IF counted THEN BodyLen(par) - 2 ELSE BodyLen(par) \div 2
    IN  [par.val EXCEPT !.form = IF counted THEN "count" ELSE "mask",
                        !.kind.bits = IF len = 6 THEN 48 ELSE 64]
ReadPar(par) ==
    ParOf(par.id, BodyLen(par), IF par.id = "MAC_ADDR_SET" THEN SetIn(par) ELSE par.val)

(* parse: nothing may be left when six parameters or all the bytes are read.   *)
Parses(w) ==
    /\ w.bytes \in MinSize .. MaxSize
    /\ w.bytes - MinSize = w.length - HeaderSize
    /\ Len(w.pars) <= MaxPar
    /\ \A i \in 1 .. Len(w.pars) : Readable(w.pars[i])
Parsed(w) ==
    [type |-> w.type, status |-> w.status, cw |-> w.cw, length |-> w.length,
     pars |-> [i \in 1 .. Len(w.pars) |-> ReadPar(w.pars[i])]]

----------------------------------------------------------------------------
(* check: a parameter has its flag, a set its kind in the control word, and    *)
(* each message what it may not and must have.  A word & X != X there is       *)
(* word & 0, so that a missing flag is never noticed.                          *)
ParsOf(p, id)  == {i \in 1 .. Len(p.pars) : p.pars[i].id = id}
SetsOf(p)      == ParsOf(p, "MAC_ADDR_SET")
Count(p, id)   == Cardinality(ParsOf(p, id))
FlagOf == [STATION_ID |-> "STATIONID", NETWORK_ID |-> "NETWORKID", VENDOR |-> "VENDOR"]
Flagged(p) ==
    /\ \A id \in DOMAIN FlagOf : Count(p, id) > 0 => FlagOf[id] \in p.cw
    /\ \A i \in SetsOf(p) :
          p.cw \cap ({"SETPROV"} \cup SlapBits) = {"SETPROV"} \cup slapType(p.pars[i].val)
Forbidden(type) ==
    CASE type = "OFFER"   -> {"CODEFIELD", "RENEWAL"}
      [] type = "REQUEST" -> {"SERVER", "NETWORKID", "CODEFIELD"}
      [] type = "ACK"     -> {"RENEWAL"}
      [] OTHER            -> {"SERVER", "NETWORKID", "CODEFIELD", "RENEWAL"}

(* A slip: two sets are one too many, in a DEFEND too.                         *)
CheckOneSet(p) ==
    /\ Flagged(p)
    /\ Count(p, "MAC_ADDR_SET") <= 1
    /\ p.cw \cap Forbidden(p.type) = {}

Check(p) ==
    /\ Flagged(p)
    /\ Count(p, "MAC_ADDR_SET") <= (IF p.type = "DEFEND" THEN 2 ELSE 1)
    /\ \A id \in ParTypes \ {"MAC_ADDR_SET"} : Count(p, id) <= 1
    /\ p.cw \cap Forbidden(p.type) = {}
    /\ p.type \in {"DISCOVER", "REQUEST", "RELEASE"} => Count(p, "LIFETIME") = 0
    /\ p.type \in {"OFFER", "DEFEND", "ANNOUNCE"}    => Count(p, "LIFETIME") = 1
    /\ p.type \notin {"DISCOVER", "OFFER"}           => Count(p, "CLIENT_ADDR") = 0
    /\ p.type = "DEFEND" => Count(p, "MAC_ADDR_SET") = 2

(* The getters: the first parameter of its kind, if the flag is there.         *)
First(p, id, none) ==
    IF ParsOf(p, id) = {} THEN none ELSE p.pars[Least(ParsOf(p, id))].val
getStationId(p)  == IF "STATIONID" \in p.cw THEN First(p, "STATION_ID", None) ELSE None
getNetworkId(p)  == IF "NETWORKID" \in p.cw THEN First(p, "NETWORK_ID", None) ELSE None
getVendorVar(p)  == IF "VENDOR" \in p.cw THEN First(p, "VENDOR", None) ELSE None
getLifetime(p)   == First(p, "LIFETIME", 0)
getClientAddr(p) == First(p, "CLIENT_ADDR", 0)
getSet(p) == IF "SETPROV" \in p.cw THEN First(p, "MAC_ADDR_SET", None) ELSE None
(* A slip: the search for the second set stops at the first.                   *)
getFirstAgain(p) == getSet(p)
LaterSets(p) == {i \in SetsOf(p) : \E j \in SetsOf(p) : j < i}
getSecondSet(p) ==       \* getSet(false)
    IF "SETPROV" \notin p.cw \/ LaterSets(p) = {} THEN None
    ELSE p.pars[Least(LaterSets(p))].val

----------------------------------------------------------------------------
(* The sets that a database names: counts, of any size.                        *)
Blocks == {SetOf(r[1], r[2], "count", k) : r \in Ranges, k \in Kinds}

Send(p) == wire = None /\ sent' = p /\ wire' = ToBuffer(p) /\ heard' = None /\ UNCHANGED conf
Hears(types) == wire = None /\ heard # None /\ heard.type \in types

(* sendDiscover, with the set that DiscoveryState::start found, or none.       *)
Discover ==
    \E s \in {Prepared(b) : b \in Blocks} \cup {None} :
        LET p == NewPacket("DISCOVER", "NO_CODE")
        IN  Send(addVendor(addStation(IF s = None THEN p ELSE addOwnSet(p, s), conf.station),
                           conf.vendor))

(* sendOffer, for a DISCOVER or an ANNOUNCE: it names its asker's station.     *)
Offered(b, life, station, a) ==
    addVendor(addClientAddr(addNetwork(addStation(addOwnSet(addLifetime(
        NewPacket("OFFER", "NO_CODE"), life), Prepared(b)), station), conf.network), a),
        conf.vendor)
Offer ==
    /\ Hears({"DISCOVER", "ANNOUNCE"})
    /\ \E b \in Blocks, life \in Lifetimes, a \in {0, 1} :
          /\ getSet(heard) # None => b.kind = getSet(heard).kind
          /\ (b.kind.bits = 48 /\ ~b.kind.mcast) => a = 0
          /\ Send(Offered(b, life, getStationId(heard), a))

(* RequestingState::start: of an OFFER, of a lease to renew, or of the claim.  *)
Requested(s, renewal) ==
    LET p == addStation(addOwnSet(NewPacket("REQUEST", "NO_CODE"), Adjusted(s, MaxClaim)),
                        conf.station)
    IN  IF renewal THEN [p EXCEPT !.cw = @ \cup {"RENEWAL"}] ELSE p
Request ==
    \/ Hears({"OFFER"}) /\ Send(Requested(getSet(heard), FALSE))
    \/ Hears({"ACK"}) /\ getSet(heard) # None /\ Send(Requested(getSet(heard), TRUE))
    \/ \E b \in Blocks : heard = None /\ Send(Requested(b, FALSE))

(* sendAck.  The set is the one requested, that cut to Max..., or an alternate *)
(* that the database found: the last two are counts, whatever their size.  (A  *)
(* slip: the ACK does not name its asker.)                                     *)
AcknowledgedToAll(status, station, s, life) ==
    LET p == NewPacket("ACK", status)
    IN  IF s = None THEN p ELSE addLifetime(addOwnSet(p, s), life)
Acknowledged(status, station, s, life) ==
    LET p == addStation(NewPacket("ACK", status), station)
    IN  IF s = None THEN p ELSE addLifetime(addOwnSet(p, s), life)
Ack ==
    /\ Hears({"REQUEST"})
    /\ LET asked == getSet(heard)
           id    == getStationId(heard)
       IN  \/ \E status \in {"FAIL_CONFLICT", "FAIL_TOO_LARGE", "FAIL_OTHER"} :
                 Send(Acknowledged(status, id, None, 0))
           \/ \E life \in Lifetimes : Send(Acknowledged("ASSIGN_OK", id, asked, life))
           \/ \E life \in Lifetimes, b \in Blocks :
                 /\ b.kind = asked.kind /\ b.size <= asked.size
                 /\ Send(Acknowledged("ALTERNATE_SET", id, b, life))

Release ==
    /\ Hears({"ACK"}) /\ getSet(heard) # None
    /\ Send(addStation(addOwnSet(NewPacket("RELEASE", "NO_CODE"), getSet(heard)), conf.station))

(* sendAnnounce of a set from adjustSet or RandomAddrSet.                      *)
Announce ==
    \E b \in Blocks, life \in Lifetimes :
        /\ heard = None
        /\ Send(addStation(addLifetime(addOwnSet(NewPacket("ANNOUNCE", "NO_CODE"),
                                                 Adjusted(b, MaxClaim)), life), conf.station))

(* sendDefend: the set that was heard, and what conflicts of it with the own.  *)
Defended(station, life, original, conflict) ==
    addMacSet(addOwnSet(addLifetime(addStation(NewPacket("DEFEND", "NO_CODE"), station), life),
                        original), conflict, {})
Defend ==
    \E b \in Blocks, life \in Lifetimes :
        LET own == Adjusted(b, MaxClaim)
            set == IF heard.type = "DEFEND" THEN getSecondSet(heard) ELSE getSet(heard)
        IN  /\ Hears({"DISCOVER", "ANNOUNCE", "DEFEND"})
            /\ set # None /\ set.size > 0 /\ Conflicts(set, own)
            /\ Send(Defended(IF heard.type = "DEFEND" THEN None ELSE getStationId(heard), life,
                             set, Conflict(set, own)))

(* NetItf::onInput: what does not parse or pass check is not handled.          *)
Receive ==
    /\ wire # None
    /\ heard' = IF Parses(wire) /\ Check(Parsed(wire)) THEN Parsed(wire) ELSE None
    /\ wire' = None
    /\ UNCHANGED <<conf, sent>>

Init ==
    /\ conf \in [station : Stations, network : Networks, vendor : Vendors,
                 build : {"operand", "result"}]
    /\ sent = None /\ wire = None /\ heard = None
Next == Discover \/ Offer \/ Request \/ Ack \/ Release \/ Announce \/ Defend \/ Receive
Spec == Init /\ [][Next]_vars

----------------------------------------------------------------------------
(* PalmaClient::checkStationId, of the client whose configured id is own.      *)
checkStationId(id, own) == id = None \/ (own # None /\ id = own)

TextsOf(p)  == {i \in 1 .. Len(p.pars) : p.pars[i].id \in DOMAIN FlagOf}
Received    == wire = None /\ sent # None

(* Whatever a client or a server sends, the other side parses and its check    *)
(* accepts, in each of the builds; only a packet with a text of one character  *)
(* is lost, every time it is sent (parsePar, packet.cpp:260 and 280).          *)
Understood ==
    Received => (heard = None <=> \E i \in TextsOf(sent) : sent.pars[i].len < 2)

(* The getters give the handler what the sender put in, and each of the two    *)
(* sets of a DEFEND as itself: the flags that guard them agree with the        *)
(* parameters, whose order differs from message to message.                    *)
ReadBack ==
    Received /\ heard # None =>
        /\ getStationId(heard) = First(sent, "STATION_ID", None)
        /\ getNetworkId(heard) = First(sent, "NETWORK_ID", None)
        /\ getVendorVar(heard) = First(sent, "VENDOR", None)
        /\ getLifetime(heard) = First(sent, "LIFETIME", 0)
        /\ getClientAddr(heard) = First(sent, "CLIENT_ADDR", 0)
        /\ ("RENEWAL" \in heard.cw) = ("RENEWAL" \in sent.cw)
        /\ LET In(places) == IF places = {} THEN None ELSE OnLine(sent.pars[Least(places)]).val
           IN  getSet(heard) = In(SetsOf(sent)) /\ getSecondSet(heard) = In(LaterSets(sent))

(* A set arrives with the addresses it had: who sends one makes it a mask when *)
(* it is too large for the 16 bits of a count.  Two calls do not, and cut it:  *)
(* sendDefend with the conflict and sendAck with an alternate set.             *)
MayBeCut(p, i) ==
    \/ p.type = "DEFEND" /\ i \in LaterSets(p)
    \/ p.type = "ACK" /\ p.status = "ALTERNATE_SET"
SetsArrive ==
    Received /\ heard # None =>
        \A i \in SetsOf(sent) :
            LET was == sent.pars[i].val
                is  == heard.pars[i].val
            IN  Span(is) # Span(was) =>
                    MayBeCut(sent, i) /\ was.size > WireMax /\ is.size < was.size

(* An answer is taken by the client that asked and by no other that listens to *)
(* the same address: an OFFER and an ACK name the station of their asker       *)
(* (a client may have none, and then any client takes them).                   *)
TakenByItsAsker ==
    Received /\ heard # None /\ heard.type \in {"OFFER", "ACK", "DEFEND"} =>
        /\ checkStationId(getStationId(heard), conf.station)
        /\ \A other \in Stations \ {conf.station} :
              heard.type # "DEFEND" /\ conf.station # None =>
                  ~checkStationId(getStationId(heard), other)
=============================================================================
