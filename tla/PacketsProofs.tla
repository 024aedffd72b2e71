----------------------------- MODULE PacketsProofs -----------------------------
(* Every packet of every sender is understood, and read as it was meant, for   *)
(* any texts that fit their parameter, any sets, kinds, lifetimes and limits,  *)
(* in both builds of slapType.  A packet implements a content: one value for   *)
(* every parameter it may have.  The add... calls put a value into the content *)
(* they are given, parse keeps it, check accepts the contents that the senders *)
(* make, and the getters return it.  The dissector (PacketDissector) keeps in  *)
(* step with every such packet, round by round.                                *)
EXTENDS PacketDissector, AddressBlockProofs, FiniteSetTheorems

TextIds == {"STATION_ID", "NETWORK_ID", "VENDOR"}

----------------------------------------------------------------------------
(* Parameters, each as the senders make it, and the sets in them.              *)
TextPar(par) == \E t \in Texts, id \in TextIds : par = ParOf(id, Letters[t] % 256, t)
SetPar(par)  == \E s \in Sets : par = ParOf("MAC_ADDR_SET", MacSetLength(s), s)
TimePar(par) == \E n \in Nat : par = ParOf("LIFETIME", 2, n)
AddrPar(par) == \E n \in Nat : par = ParOf("CLIENT_ADDR", 6, n)
GoodPar(par) == TextPar(par) \/ SetPar(par) \/ TimePar(par) \/ AddrPar(par)

(* What is left of a set on the line.                                          *)
Cut(s)      == IF s.form = "count" THEN [s EXCEPT !.size = @ % (WireMax + 1)] ELSE s
CutPar(par) == IF par.id = "MAC_ADDR_SET" THEN [par EXCEPT !.val = Cut(@)] ELSE par
Large(s)    == s.form = "count" /\ s.size > WireMax

LEMMA CutIs ==
    ASSUME NEW s \in Sets
    PROVE  /\ Cut(s) \in Sets /\ Cut(s).kind = s.kind /\ Cut(s).form = s.form
           /\ Cut(s).lo = s.lo /\ MacSetLength(Cut(s)) = MacSetLength(s) /\ ~Large(Cut(s))
           /\ ~Large(s) => Cut(s) = s
           /\ Large(s) => Cut(s).size < s.size
<1>1. s.size \in Nat /\ WireMax \in Nat \ {0} /\ s.size % (WireMax + 1) \in 0 .. WireMax
      /\ (s.size <= WireMax => s.size % (WireMax + 1) = s.size)
  BY SizesAssumption DEF Sets
<1>2. s = [lo |-> s.lo, size |-> s.size, form |-> s.form, kind |-> s.kind]
  BY DEF Sets
<1>3. CASE s.form = "count"
  <2>1. Cut(s) = [lo |-> s.lo, size |-> s.size % (WireMax + 1), form |-> s.form, kind |-> s.kind]
    BY <1>2, <1>3 DEF Cut
  <2>2. s.size % (WireMax + 1) \in Nat
    BY <1>1
  <2> QED BY <1>1, <1>2, <1>3, <2>1, <2>2 DEF Large, Sets, MacSetLength
<1>4. CASE s.form # "count"
  BY <1>4 DEF Cut, Large
<1> QED BY <1>3, <1>4

LEMMA SetLength ==
    ASSUME NEW s \in Sets
    PROVE  /\ MacSetLength(s) = IF s.form = "count" THEN (IF s.kind.bits = 48 THEN 8 ELSE 10)
                                ELSE (IF s.kind.bits = 48 THEN 12 ELSE 16)
           /\ s.kind.bits \in {48, 64} /\ s.form \in {"count", "mask"}
<1>1. s.kind \in Kinds /\ s.form \in {"count", "mask"}
  BY DEF Sets
<1>2. s.kind.bits \in {48, 64}
  BY <1>1, PacketAssumption
<1>3. 48 \div 8 = 6 /\ 64 \div 8 = 8
  OBVIOUS
<1> QED BY <1>1, <1>2, <1>3 DEF MacSetLength

LEMMA ParType ==
    ASSUME NEW id \in ParTypes, NEW len \in Nat, NEW val \in Texts \cup Nat \cup Sets
    PROVE  [id |-> id, len |-> len, val |-> val] \in Pars
BY DEF Pars

LEMMA TextLength ==
    ASSUME NEW t \in Texts
    PROVE  Letters[t] % 256 \in 0 .. 253
BY PacketAssumption

(* Every parameter comes through toBuffer and parsePar as it went in, but for  *)
(* a count that is cut, and a text of less than two characters is refused.     *)
LEMMA ParComesThrough ==
    ASSUME NEW par, GoodPar(par)
    PROVE  /\ ReadPar(OnLine(par)) = CutPar(par) /\ GoodPar(CutPar(par))
           /\ par \in Pars /\ OnLine(par) \in Pars
           /\ par.len \in 0 .. 253 /\ CutPar(par).len = par.len /\ CutPar(par).id = par.id
           /\ Readable(OnLine(par)) <=> ~(par.id \in TextIds /\ par.len < 2)
<1> DEFINE l == OnLine(par)
<1>1. l = [id |-> par.id, len |-> (par.len + 2) % 256,
           val |-> IF par.id = "MAC_ADDR_SET" THEN Cut(par.val) ELSE par.val]
  BY Zenon DEF OnLine, Cut
<1> HIDE DEF l
<1>2. ASSUME par.len \in 0 .. 253
      PROVE  l.len = par.len + 2 /\ BodyLen(l) = par.len
  <2>1. (par.len + 2) % 256 = par.len + 2 /\ par.len % 256 = par.len
    BY <1>2
  <2>2. l.len = par.len + 2
    BY <1>1, <2>1
  <2>3. (par.len + 2) - 2 = par.len
    BY <1>2
  <2> QED BY <2>1, <2>2, <2>3 DEF BodyLen
<1>3. CASE TextPar(par)
  <2>1. PICK t \in Texts, id \in TextIds : par = ParOf(id, Letters[t] % 256, t)
    BY <1>3 DEF TextPar
  <2>2. par.id = id /\ par.len = Letters[t] % 256 /\ par.val = t /\ id # "MAC_ADDR_SET"
        /\ par.len \in 0 .. 253 /\ par = [id |-> id, len |-> par.len, val |-> t]
    BY <2>1, TextLength DEF ParOf, TextIds
  <2>3. l.val = t /\ BodyLen(l) = par.len /\ l.id = id /\ l.len = par.len + 2
    BY <1>1, <1>2, <2>2
  <2>4. CutPar(par) = par /\ ReadPar(l) = par
    BY <2>2, <2>3 DEF CutPar, ReadPar, ParOf
  <2>5. Readable(l) <=> ~(par.len < 2)
    <3>1. Readable(l) <=> BodyLen(l) > 1
      BY <2>3, Zenon DEF Readable, TextIds
    <3> QED BY <2>2, <2>3, <3>1
  <2>6. par \in Pars /\ l \in Pars
    <3>1. id \in ParTypes /\ par.len \in Nat /\ par.len + 2 \in Nat
      BY <2>2 DEF TextIds, ParTypes
    <3>2. l = [id |-> id, len |-> par.len + 2, val |-> t]
      BY <1>1, <2>3
    <3> QED BY <2>2, <3>1, <3>2, ParType
  <2> QED BY <1>3, <2>2, <2>4, <2>5, <2>6 DEF l, GoodPar
<1>4. CASE SetPar(par)
  <2>1. PICK s \in Sets : par = ParOf("MAC_ADDR_SET", MacSetLength(s), s)
    BY <1>4 DEF SetPar
  <2>2. par.id = "MAC_ADDR_SET" /\ par.len = MacSetLength(s) /\ par.val = s
        /\ par = [id |-> "MAC_ADDR_SET", len |-> MacSetLength(s), val |-> s]
    BY <2>1 DEF ParOf
  <2>3. par.len \in {8, 10, 12, 16}
    BY <2>2, SetLength
  <2>4. l.val = Cut(s) /\ BodyLen(l) = par.len /\ l.id = "MAC_ADDR_SET" /\ l.len = par.len + 2
    BY <1>1, <1>2, <2>2, <2>3
  <2>5. SetIn(l) = Cut(s)
    <3> DEFINE r == Cut(s)
    <3>1. r \in Sets /\ r.kind = s.kind /\ r.form = s.form
      BY CutIs
    <3>2. r.kind \in [bits : {48, 64}, mcast : BOOLEAN, slap : {"AAI", "ELI", "SAI"}]
      BY <3>1, PacketAssumption DEF Sets
    <3>3. par.len = IF r.form = "count" THEN (IF r.kind.bits = 48 THEN 8 ELSE 10)
                    ELSE (IF r.kind.bits = 48 THEN 12 ELSE 16)
      BY <2>2, <3>1, SetLength
    <3>4. (par.len < 12) <=> r.form = "count"
      BY <3>3, <3>2
    <3>5. (IF par.len < 12 THEN par.len - 2 ELSE par.len \div 2) = IF r.kind.bits = 48 THEN 6 ELSE 8
      <4>1. 12 \div 2 = 6 /\ 16 \div 2 = 8
        OBVIOUS
      <4> QED BY <3>2, <3>3, <4>1
    <3>6. SetIn(l) = [r EXCEPT !.form = IF par.len < 12 THEN "count" ELSE "mask",
                              !.kind.bits = IF (IF par.len < 12 THEN par.len - 2
                                                ELSE par.len \div 2) = 6 THEN 48 ELSE 64]
      BY <2>4 DEF SetIn
    <3> HIDE DEF r
    <3>7. SetIn(l) = [r EXCEPT !.form = r.form, !.kind.bits = r.kind.bits]
      <4>1. (IF par.len < 12 THEN "count" ELSE "mask") = r.form
        BY <3>1, <3>4 DEF Sets
      <4>2. (IF (IF par.len < 12 THEN par.len - 2 ELSE par.len \div 2) = 6 THEN 48 ELSE 64)
                = r.kind.bits
        <5>1. CASE r.kind.bits = 48
          BY <3>5, <5>1
        <5>2. CASE r.kind.bits = 64
          BY <3>5, <5>2
        <5> QED BY <3>2, <5>1, <5>2
      <4> QED BY <3>6, <4>1, <4>2
    <3>8. [r EXCEPT !.form = r.form, !.kind.bits = r.kind.bits] = r
      BY <3>1, <3>2 DEF Sets
    <3> QED BY <3>7, <3>8 DEF r
  <2>6. ReadPar(l) = ParOf("MAC_ADDR_SET", MacSetLength(s), Cut(s))
    BY <2>2, <2>4, <2>5 DEF ReadPar
  <2>7. CutPar(par) = ParOf("MAC_ADDR_SET", MacSetLength(s), Cut(s))
    BY <2>2 DEF CutPar, ParOf
  <2>8. SetPar(CutPar(par))
    BY <2>7, CutIs DEF SetPar
  <2>9. Readable(l)
    BY <2>3, <2>4 DEF Readable
  <2>10. par \in Pars /\ l \in Pars
    <3>1. par.len \in Nat /\ par.len + 2 \in Nat /\ Cut(s) \in Sets
          /\ "MAC_ADDR_SET" \in ParTypes
      BY <2>3, CutIs DEF ParTypes
    <3>2. l = [id |-> "MAC_ADDR_SET", len |-> par.len + 2, val |-> Cut(s)]
      BY <1>1, <2>4
    <3> QED BY <2>2, <3>1, <3>2, ParType
  <2>11. CutPar(par).len = par.len /\ CutPar(par).id = par.id
    BY <2>2, <2>7 DEF ParOf
  <2> QED BY <2>2, <2>3, <2>6, <2>7, <2>8, <2>9, <2>10, <2>11 DEF l, GoodPar, TextIds
<1>5. CASE TimePar(par) \/ AddrPar(par)
  <2>1. PICK n \in Nat : par = ParOf("LIFETIME", 2, n) \/ par = ParOf("CLIENT_ADDR", 6, n)
    BY <1>5 DEF TimePar, AddrPar
  <2>2. (par.id = "LIFETIME" /\ par.len = 2) \/ (par.id = "CLIENT_ADDR" /\ par.len = 6)
    BY <2>1 DEF ParOf
  <2>3. par.val = n /\ par = [id |-> par.id, len |-> par.len, val |-> n]
    BY <2>1 DEF ParOf
  <2>4. l.val = n /\ BodyLen(l) = par.len /\ l.id = par.id /\ l.len = par.len + 2
    BY <1>1, <1>2, <2>2, <2>3
  <2>5. CutPar(par) = par /\ ReadPar(l) = par /\ Readable(l)
    BY <2>2, <2>3, <2>4 DEF CutPar, ReadPar, ParOf, Readable
  <2>6. par \in Pars /\ l \in Pars
    <3>1. par.id \in ParTypes /\ par.len \in Nat /\ par.len + 2 \in Nat
      BY <2>2 DEF ParTypes
    <3>2. l = [id |-> par.id, len |-> par.len + 2, val |-> n]
      BY <1>1, <2>4
    <3> QED BY <2>3, <3>1, <3>2, ParType
  <2> QED BY <1>5, <2>2, <2>5, <2>6 DEF l, GoodPar, TextIds
<1> QED BY <1>3, <1>4, <1>5 DEF GoodPar, l

----------------------------------------------------------------------------
(* The sets that are sent: those of a database, and what the senders make of   *)
(* them, which no longer exceed a count.                                       *)
LEMMA SetOfType ==
    ASSUME NEW lo \in Nat, NEW size \in Nat, NEW form \in {"count", "mask"}, NEW kind \in Kinds
    PROVE  SetOf(lo, size, form, kind) \in Sets /\ SetOf(lo, size, form, kind).kind = kind
           /\ SetOf(lo, size, form, kind).form = form /\ SetOf(lo, size, form, kind).size = size
           /\ SetOf(lo, size, form, kind).lo = lo
BY DEF SetOf, Sets

LEMMA BlocksAreSets == Blocks \subseteq Sets
<1>1. ASSUME NEW r \in Ranges, NEW k \in Kinds PROVE SetOf(r[1], r[2], "count", k) \in Sets
  <2>1. r[1] \in Nat /\ r[2] \in Nat
    BY PacketAssumption
  <2> QED BY <2>1, SetOfType
<1> QED BY <1>1 DEF Blocks

LEMMA PreparedFits ==
    ASSUME NEW s \in Sets
    PROVE  Prepared(s) \in Sets /\ Prepared(s).kind = s.kind /\ ~Large(Prepared(s))
<1>1. s.size \in Nat /\ s.lo \in Nat /\ s.kind \in Kinds /\ s.form \in {"count", "mask"}
  BY DEF Sets
<1>2. CASE ~(s.size > WireMax)
  BY <1>1, <1>2 DEF Prepared, Large
<1>3. CASE s.size > WireMax /\ s.form = "mask"
  BY <1>3 DEF Prepared, Aligned, Large
<1>4. CASE s.size > WireMax /\ s.form = "count"
  <2> DEFINE r == AlignedRun(s.lo, s.lo + s.size - 1)
  <2>1. s.lo + s.size - 1 \in Nat /\ s.lo <= s.lo + s.size - 1
    BY <1>1, <1>4, SizesAssumption
  <2>2. r[1] \in Int /\ r[2] \in Int /\ s.lo <= r[1] /\ 1 <= r[2]
    BY <1>1, <2>1, AlignedRunInside
  <2> HIDE DEF r
  <2>3. r[1] \in Nat /\ r[2] \in Nat
    BY <1>1, <2>2
  <2>4. Prepared(s) = SetOf(r[1], r[2], "mask", s.kind)
    BY <1>4 DEF Prepared, Aligned, r
  <2>5. SetOf(r[1], r[2], "mask", s.kind) \in Sets
        /\ SetOf(r[1], r[2], "mask", s.kind).kind = s.kind
        /\ SetOf(r[1], r[2], "mask", s.kind).form = "mask"
    BY <1>1, <2>3, SetOfType
  <2> QED BY <2>4, <2>5 DEF Large
<1> QED BY <1>1, <1>2, <1>3, <1>4

LEMMA AdjustedFits ==
    ASSUME NEW s \in Sets
    PROVE  /\ Adjusted(s, MaxClaim) \in Sets /\ Adjusted(s, MaxClaim).kind = s.kind
           /\ ~Large(Adjusted(s, MaxClaim))
<1>1. s.size \in Nat /\ s.lo \in Nat /\ s.kind \in Kinds /\ AtMost(s.size, MaxClaim) \in Nat
  BY PacketAssumption DEF Sets, AtMost
<1> DEFINE t == SetOf(s.lo, AtMost(s.size, MaxClaim), "count", s.kind)
<1>2. t \in Sets /\ t.kind = s.kind
  BY <1>1, SetOfType
<1> HIDE DEF t
<1>3. Adjusted(s, MaxClaim) = Prepared(t)
  BY DEF Adjusted, t
<1> QED BY <1>2, <1>3, PreparedFits

LEMMA ConflictIsSet ==
    ASSUME NEW s \in Sets, NEW t \in Sets, Conflicts(s, t)
    PROVE  Conflict(s, t) \in Sets /\ Conflict(s, t).kind = s.kind
<1> DEFINE both == Span(s) \cap Span(t)
<1>1. s.size \in Nat /\ s.lo \in Nat /\ s.kind \in Kinds
  BY DEF Sets
<1>2. both \in SUBSET Nat /\ both # {} /\ both \subseteq s.lo .. s.lo + s.size - 1
  BY <1>1 DEF Conflicts, Span
<1>3. Cardinality(both) \in Nat
  <2>1. IsFiniteSet(s.lo .. s.lo + s.size - 1)
    <3>1. s.lo \in Int /\ s.lo + s.size - 1 \in Int
      BY <1>1
    <3> QED BY <3>1, FS_Interval
  <2> QED BY <1>2, <2>1, FS_Subset, FS_CardinalityType
<1>4. Least(both) \in Nat
  <2>1. PICK x \in both : \A y \in both : x <= y
    BY <1>2, LeastExists
  <2> QED BY <1>2, <2>1, LeastIs
<1>5. Conflict(s, t) = SetOf(Least(both), Cardinality(both), "count", s.kind)
  BY DEF Conflict
<1> HIDE DEF both
<1> QED BY <1>1, <1>3, <1>4, <1>5, SetOfType

----------------------------------------------------------------------------
(* addPar: a packet that has room keeps its parameters and gets one more; its  *)
(* running length is that of the bytes that toBuffer writes.                   *)
Shaped(p) == /\ p \in PacketType /\ p.length = HeaderSize + Bytes(p.pars)
             /\ \A i \in 1 .. Len(p.pars) : GoodPar(p.pars[i])
Grown(p, q, par, flags) ==
    /\ q.type = p.type /\ q.status = p.status /\ q.cw = p.cw \cup flags
    /\ Len(q.pars) = Len(p.pars) + 1 /\ q.length = p.length + par.len + 2
    /\ \A i \in 1 .. Len(p.pars) : q.pars[i] = p.pars[i]
    /\ q.pars[Len(p.pars) + 1] = par

LEMMA ParBytesType ==
    ASSUME NEW ps \in Seq(Pars), NEW i \in Nat \ {0}
    PROVE  ParBytes(ps, i) \in Nat
<1>1. CASE i <= Len(ps)
  <2>1. i \in 1 .. Len(ps)
    BY <1>1
  <2>2. ps[i] \in Pars
    BY <2>1
  <2>3. ps[i].len \in Nat
    BY <2>2 DEF Pars
  <2> QED BY <1>1, <2>3 DEF ParBytes
<1>2. CASE ~(i <= Len(ps))
  BY <1>2 DEF ParBytes
<1> QED BY <1>1, <1>2

LEMMA BytesType ==
    ASSUME NEW ps \in Seq(Pars)
    PROVE  Bytes(ps) \in Nat
<1> DEFINE P(i) == ParBytes(ps, i)
<1>1. P(1) \in Nat /\ P(2) \in Nat /\ P(3) \in Nat /\ P(4) \in Nat /\ P(5) \in Nat /\ P(6) \in Nat
  BY ParBytesType
<1>2. Bytes(ps) = P(1) + P(2) + P(3) + P(4) + P(5) + P(6)
  BY DEF Bytes, MaxPar
<1> HIDE DEF P
<1>3. PICK a \in Nat : a = P(1)
  BY <1>1
<1>4. PICK b \in Nat : b = P(2)
  BY <1>1
<1>5. PICK c \in Nat : c = P(3)
  BY <1>1
<1>6. PICK d \in Nat : d = P(4)
  BY <1>1
<1>7. PICK e \in Nat : e = P(5)
  BY <1>1
<1>8. PICK f \in Nat : f = P(6)
  BY <1>1
<1>9. Bytes(ps) = a + b + c + d + e + f
  BY <1>2, <1>3, <1>4, <1>5, <1>6, <1>7, <1>8
<1> QED BY <1>9

LEMMA AppendBytes ==
    ASSUME NEW ps \in Seq(Pars), NEW par \in Pars, Len(ps) < MaxPar
    PROVE  Bytes(Append(ps, par)) = Bytes(ps) + par.len + 2
<1> DEFINE q == Append(ps, par)
<1>1. Len(q) = Len(ps) + 1 /\ Len(ps) \in Nat /\ q[Len(ps) + 1] = par
      /\ (\A i \in 1 .. Len(ps) : q[i] = ps[i]) /\ \A i \in 1 .. Len(ps) : ps[i] \in Pars
  OBVIOUS
<1> HIDE DEF q
<1>2. par.len \in Nat /\ \A i \in 1 .. Len(ps) : ps[i].len \in Nat
  BY <1>1 DEF Pars
<1>3. \A i \in 1 .. Len(ps) : ParBytes(q, i) = ParBytes(ps, i)
  BY <1>1 DEF ParBytes
<1>4. ParBytes(q, Len(ps) + 1) = par.len + 2 /\ ParBytes(ps, Len(ps) + 1) = 0
  BY <1>1 DEF ParBytes
<1>5. \A i \in Nat : i > Len(ps) + 1 => ParBytes(q, i) = 0 /\ ParBytes(ps, i) = 0
  BY <1>1 DEF ParBytes
<1>6. \A i \in Nat \ {0} : ParBytes(ps, i) \in Nat
  BY ParBytesType
<1>7. \A i \in 1 .. 6 : ParBytes(q, i) = ParBytes(ps, i)
                                         + (IF i = Len(ps) + 1 THEN par.len + 2 ELSE 0)
  <2> TAKE i \in 1 .. 6
  <2>1. CASE i <= Len(ps)
    BY <1>1, <1>2, <1>3, <1>6, <2>1
  <2>2. CASE i = Len(ps) + 1
    BY <1>2, <1>4, <2>2
  <2>3. CASE i > Len(ps) + 1
    BY <1>1, <1>5, <2>3
  <2> QED BY <1>1, <2>1, <2>2, <2>3
<1>8. Len(ps) + 1 \in 1 .. 6
  BY <1>1 DEF MaxPar
<1>9. Bytes(q) = Bytes(ps) + (par.len + 2)
  <2> DEFINE P(i) == ParBytes(ps, i)
             Q(i) == ParBytes(q, i)
             n    == Len(ps) + 1
             m    == par.len + 2
  <2>1. P(1) \in Nat /\ P(2) \in Nat /\ P(3) \in Nat /\ P(4) \in Nat /\ P(5) \in Nat /\ P(6) \in Nat
    BY ParBytesType
  <2>2. \A i \in 1 .. 6 : Q(i) = P(i) + (IF i = n THEN m ELSE 0)
    BY <1>7
  <2>3. Bytes(ps) = P(1) + P(2) + P(3) + P(4) + P(5) + P(6)
    BY DEF Bytes, MaxPar
  <2>4. Bytes(q) = Q(1) + Q(2) + Q(3) + Q(4) + Q(5) + Q(6)
    BY DEF Bytes, MaxPar
  <2>5. n \in 1 .. 6 /\ m \in Nat
    BY <1>2, <1>8
  <2> HIDE DEF P, Q, n, m
  <2>6. PICK a \in Nat : a = P(1)
    BY <2>1
  <2>7. PICK b \in Nat : b = P(2)
    BY <2>1
  <2>8. PICK c \in Nat : c = P(3)
    BY <2>1
  <2>9. PICK d \in Nat : d = P(4)
    BY <2>1
  <2>10. PICK e \in Nat : e = P(5)
    BY <2>1
  <2>11. PICK f \in Nat : f = P(6)
    BY <2>1
  <2>12. Bytes(ps) = a + b + c + d + e + f
    BY <2>3, <2>6, <2>7, <2>8, <2>9, <2>10, <2>11
  <2>13. Bytes(q) = (a + (IF 1 = n THEN m ELSE 0)) + (b + (IF 2 = n THEN m ELSE 0))
                        + (c + (IF 3 = n THEN m ELSE 0)) + (d + (IF 4 = n THEN m ELSE 0))
                        + (e + (IF 5 = n THEN m ELSE 0)) + (f + (IF 6 = n THEN m ELSE 0))
    <3>1. Q(1) = a + (IF 1 = n THEN m ELSE 0)
      BY <2>2, <2>6
    <3>2. Q(2) = b + (IF 2 = n THEN m ELSE 0)
      BY <2>2, <2>7
    <3>3. Q(3) = c + (IF 3 = n THEN m ELSE 0)
      BY <2>2, <2>8
    <3>4. Q(4) = d + (IF 4 = n THEN m ELSE 0)
      BY <2>2, <2>9
    <3>5. Q(5) = e + (IF 5 = n THEN m ELSE 0)
      BY <2>2, <2>10
    <3>6. Q(6) = f + (IF 6 = n THEN m ELSE 0)
      BY <2>2, <2>11
    <3> QED BY <2>4, <3>1, <3>2, <3>3, <3>4, <3>5, <3>6
  <2>14. Bytes(q) = Bytes(ps) + m
    BY <2>5, <2>12, <2>13
  <2> QED BY <2>14 DEF m
<1> QED BY <1>2, <1>9, BytesType DEF q

LEMMA AddParGrows ==
    ASSUME NEW p, Shaped(p), Len(p.pars) < MaxPar, NEW par, GoodPar(par),
           NEW flags \in SUBSET ControlBits
    PROVE  Shaped(addPar(p, par, flags)) /\ Grown(p, addPar(p, par, flags), par, flags)
<1> DEFINE q == addPar(p, par, flags)
<1>1. p \in PacketType /\ par \in Pars
  BY ParComesThrough DEF Shaped
<1>2. p.pars \in Seq(Pars) /\ p.length \in Nat /\ p.cw \in SUBSET ControlBits /\ par.len \in Nat
      /\ p.type \in MsgTypes /\ p.status \in StatusCodes
  BY <1>1 DEF PacketType, Pars
<1>3. q = [type |-> p.type, status |-> p.status, cw |-> p.cw \cup flags,
           length |-> p.length + par.len + 2, pars |-> Append(p.pars, par)]
  BY <1>1 DEF addPar, PacketType
<1> HIDE DEF q
<1>4. Append(p.pars, par) \in Seq(Pars) /\ p.length + par.len + 2 \in Nat
      /\ p.cw \cup flags \in SUBSET ControlBits
  BY <1>1, <1>2
<1>5. q \in PacketType
  BY <1>2, <1>3, <1>4 DEF PacketType
<1>6. /\ Len(q.pars) = Len(p.pars) + 1 /\ q.pars[Len(p.pars) + 1] = par
      /\ \A i \in 1 .. Len(p.pars) : q.pars[i] = p.pars[i]
  BY <1>1, <1>2, <1>3
<1>7. q.length = HeaderSize + Bytes(q.pars)
  <2>1. p.length = HeaderSize + Bytes(p.pars)
    BY DEF Shaped
  <2>2. Bytes(q.pars) = Bytes(p.pars) + par.len + 2
    BY <1>1, <1>2, <1>3, AppendBytes
  <2>3. Bytes(p.pars) \in Int
    BY <1>2, BytesType
  <2>4. q.length = p.length + par.len + 2
    BY <1>3
  <2> DEFINE m == par.len
             x == Bytes(p.pars)
  <2>5. m \in Nat /\ x \in Int /\ q.length = (8 + x) + m + 2 /\ Bytes(q.pars) = x + m + 2
    BY <1>2, <2>1, <2>2, <2>3, <2>4 DEF HeaderSize
  <2> HIDE DEF m, x
  <2> QED BY <2>5 DEF HeaderSize
<1>8. \A i \in 1 .. Len(q.pars) : GoodPar(q.pars[i])
  <2> TAKE i \in 1 .. Len(q.pars)
  <2>1. i \in 1 .. Len(p.pars) \/ i = Len(p.pars) + 1
    BY <1>2, <1>6
  <2> QED BY <1>6, <2>1 DEF Shaped
<1>9. Shaped(q)
  BY <1>5, <1>7, <1>8 DEF Shaped
<1>10. Grown(p, q, par, flags)
  BY <1>3, <1>6 DEF Grown
<1> QED BY <1>9, <1>10 DEF q

(* Where the parameters of a kind are.                                         *)
Slot(p, id, v, none) ==
    IF v = none THEN ParsOf(p, id) = {}
    ELSE \E i \in 1 .. Len(p.pars) : ParsOf(p, id) = {i} /\ p.pars[i].val = v
SetSlots(p, s, t) ==
    IF s = None THEN t = None /\ SetsOf(p) = {}
    ELSE \E i \in 1 .. Len(p.pars) :
            /\ p.pars[i].val = s
            /\ IF t = None THEN SetsOf(p) = {i}
               ELSE \E j \in 1 .. Len(p.pars) :
                       SetsOf(p) = {i, j} /\ i < j /\ p.pars[j].val = t

LEMMA PlacesGrow ==
    ASSUME NEW p \in PacketType, NEW q, NEW par, NEW flags, Grown(p, q, par, flags)
    PROVE  /\ ParsOf(q, par.id) = ParsOf(p, par.id) \cup {Len(p.pars) + 1}
           /\ \A id : id # par.id => ParsOf(q, id) = ParsOf(p, id)
           /\ Len(p.pars) \in Nat
<1>1. Len(p.pars) \in Nat
  BY DEF PacketType
<1>2. \A i : i \in 1 .. Len(q.pars) <=> i \in 1 .. Len(p.pars) \/ i = Len(p.pars) + 1
  BY <1>1 DEF Grown
<1>3. \A id, i : i \in ParsOf(q, id)
                   <=> (i \in ParsOf(p, id)) \/ (i = Len(p.pars) + 1 /\ par.id = id)
  <2> TAKE id, i
  <2>1. CASE i \in 1 .. Len(p.pars)
    <3>1. q.pars[i] = p.pars[i] /\ i # Len(p.pars) + 1 /\ i \in 1 .. Len(q.pars)
      BY <1>1, <1>2, <2>1 DEF Grown
    <3>2. i \in ParsOf(q, id) <=> p.pars[i].id = id
      BY <3>1 DEF ParsOf
    <3>3. i \in ParsOf(p, id) <=> p.pars[i].id = id
      BY <2>1 DEF ParsOf
    <3> QED BY <3>1, <3>2, <3>3
  <2>2. CASE i = Len(p.pars) + 1
    <3>1. q.pars[i] = par /\ i \notin 1 .. Len(p.pars) /\ i \in 1 .. Len(q.pars)
      BY <1>1, <1>2, <2>2 DEF Grown
    <3> QED BY <2>2, <3>1 DEF ParsOf
  <2>3. CASE i \notin 1 .. Len(p.pars) /\ i # Len(p.pars) + 1
    BY <1>2, <2>3 DEF ParsOf
  <2> QED BY <2>1, <2>2, <2>3
<1>4. ParsOf(q, par.id) = ParsOf(p, par.id) \cup {Len(p.pars) + 1}
  BY <1>3
<1>5. ASSUME NEW id, id # par.id PROVE ParsOf(q, id) = ParsOf(p, id)
  <2>1. \A i : i \in ParsOf(q, id) <=> i \in ParsOf(p, id)
    BY <1>3, <1>5, Zenon
  <2> QED BY <2>1, Zenon
<1> QED BY <1>1, <1>4, <1>5

Keeps(p, q, par) ==
    /\ \A id, v, none : id # par.id /\ Slot(p, id, v, none) => Slot(q, id, v, none)
    /\ \A none : ParsOf(p, par.id) = {} /\ par.val # none => Slot(q, par.id, par.val, none)
    /\ \A s, t : par.id # "MAC_ADDR_SET" /\ SetSlots(p, s, t) => SetSlots(q, s, t)

LEMMA SlotsGrow ==
    ASSUME NEW p \in PacketType, NEW q, NEW par, NEW flags, Grown(p, q, par, flags)
    PROVE  Keeps(p, q, par)
<1>1. Len(p.pars) \in Nat /\ \A i \in 1 .. Len(p.pars) : i \in 1 .. Len(q.pars)
  BY PlacesGrow DEF Grown
<1>2. Len(p.pars) + 1 \in 1 .. Len(q.pars) /\ q.pars[Len(p.pars) + 1] = par
      /\ (\A i \in 1 .. Len(p.pars) : q.pars[i] = p.pars[i])
      /\ ParsOf(q, par.id) = ParsOf(p, par.id) \cup {Len(p.pars) + 1}
      /\ \A id : id # par.id => ParsOf(q, id) = ParsOf(p, id)
  <2>1. /\ ParsOf(q, par.id) = ParsOf(p, par.id) \cup {Len(p.pars) + 1}
        /\ \A id : id # par.id => ParsOf(q, id) = ParsOf(p, id)
    BY PlacesGrow
  <2> QED BY <1>1, <2>1 DEF Grown
<1>3. ASSUME NEW id, NEW v, NEW none, id # par.id, Slot(p, id, v, none)
      PROVE  Slot(q, id, v, none)
  <2>1. ParsOf(q, id) = ParsOf(p, id)
    BY <1>2, <1>3
  <2> QED BY <1>1, <1>2, <1>3, <2>1 DEF Slot
<1>4. ASSUME NEW none, ParsOf(p, par.id) = {}, par.val # none
      PROVE  Slot(q, par.id, par.val, none)
  <2>1. ParsOf(q, par.id) = {Len(p.pars) + 1} /\ q.pars[Len(p.pars) + 1].val = par.val
    BY <1>2, <1>4
  <2> QED BY <1>2, <1>4, <2>1 DEF Slot
<1>5. ASSUME NEW s, NEW t, par.id # "MAC_ADDR_SET", SetSlots(p, s, t)
      PROVE  SetSlots(q, s, t)
  <2>1. SetsOf(q) = SetsOf(p)
    BY <1>2, <1>5 DEF SetsOf
  <2> QED BY <1>1, <1>2, <1>5, <2>1 DEF SetSlots
<1> QED BY <1>3, <1>4, <1>5 DEF Keeps

LEMMA SetSlotsGrow ==
    ASSUME NEW p \in PacketType, NEW q, NEW par, NEW flags, Grown(p, q, par, flags),
           par.id = "MAC_ADDR_SET", par.val # None
    PROVE  /\ SetSlots(p, None, None) => SetSlots(q, par.val, None)
           /\ \A s : s # None /\ SetSlots(p, s, None) => SetSlots(q, s, par.val)
           /\ \A id : id # "MAC_ADDR_SET" => ParsOf(q, id) = ParsOf(p, id)
<1> DEFINE n == Len(p.pars) + 1
<1>1. /\ SetsOf(q) = SetsOf(p) \cup {n}
      /\ \A id : id # "MAC_ADDR_SET" => ParsOf(q, id) = ParsOf(p, id)
      /\ Len(p.pars) \in Nat
  BY PlacesGrow DEF SetsOf
<1>2. n \in 1 .. Len(q.pars) /\ q.pars[n] = par
      /\ \A i \in 1 .. Len(p.pars) : i \in 1 .. Len(q.pars) /\ q.pars[i] = p.pars[i] /\ i < n
  BY <1>1 DEF Grown
<1> HIDE DEF n
<1>3. SetSlots(p, None, None) => SetSlots(q, par.val, None)
  BY <1>1, <1>2 DEF SetSlots
<1>4. ASSUME NEW s, s # None, SetSlots(p, s, None) PROVE SetSlots(q, s, par.val)
  <2>1. PICK i \in 1 .. Len(p.pars) : p.pars[i].val = s /\ SetsOf(p) = {i}
    BY <1>4 DEF SetSlots
  <2>2. SetsOf(q) = {i, n} /\ q.pars[i].val = s /\ q.pars[n].val = par.val /\ i < n
    BY <1>1, <1>2, <2>1
  <2> QED BY <1>2, <1>4, <2>2 DEF SetSlots
<1> QED BY <1>1, <1>3, <1>4

----------------------------------------------------------------------------
(* A content has one value, or none, for every parameter that a packet may     *)
(* have; only a DEFEND has a second set.                                       *)
Contents == [text : [TextIds -> Texts \cup {None}], life : Nat \cup {None}, client : Nat,
             first : Sets \cup {None}, second : Sets \cup {None}, renewal : BOOLEAN]
Nothing == [text |-> [x \in TextIds |-> None], life |-> None, client |-> 0,
            first |-> None, second |-> None, renewal |-> FALSE]
WithText(c, id, t) ==
    [text |-> [x \in TextIds |-> IF x = id THEN t ELSE c.text[x]], life |-> c.life,
     client |-> c.client, first |-> c.first, second |-> c.second, renewal |-> c.renewal]
WithNumbers(c, life, client) ==
    [text |-> c.text, life |-> life, client |-> client, first |-> c.first,
     second |-> c.second, renewal |-> c.renewal]
WithSets(c, first, second) ==
    [text |-> c.text, life |-> c.life, client |-> c.client, first |-> first,
     second |-> second, renewal |-> c.renewal]
WithRenewal(c) ==
    [text |-> c.text, life |-> c.life, client |-> c.client, first |-> c.first,
     second |-> c.second, renewal |-> TRUE]

(* What its parameters may take, in number and in bytes.                       *)
Takes(v, none, n) == IF v = none THEN 0 ELSE n
Total(c, text, life, client, set) ==
    Takes(c.text["STATION_ID"], None, text) + Takes(c.text["NETWORK_ID"], None, text)
        + Takes(c.text["VENDOR"], None, text) + Takes(c.life, None, life)
        + Takes(c.client, 0, client) + Takes(c.first, None, set) + Takes(c.second, None, set)
Used(c) == Total(c, 1, 1, 1, 1)
Room(c) == Total(c, 255, 4, 8, 18)

Slap(build, s) ==
    (IF s.kind.mcast THEN {"MCAST"} ELSE {})
        \cup (IF build = "operand" THEN {}
              ELSE {s.kind.slap} \cup (IF s.kind.bits = 64 THEN {"MAC64"} ELSE {}))
FlagsOf(build, type, status, c) ==
    (IF type \in {"OFFER", "ACK"} THEN {"SERVER"} ELSE {})
        \cup (IF status = "NO_CODE" THEN {} ELSE {"CODEFIELD"})
        \cup {FlagOf[id] : id \in {x \in TextIds : c.text[x] # None}}
        \cup (IF c.first = None THEN {} ELSE {"SETPROV"} \cup Slap(build, c.first))
        \cup (IF c.renewal THEN {"RENEWAL"} ELSE {})

Carries(build, p, c) ==
    /\ Shaped(p) /\ c \in Contents
    /\ p.cw = FlagsOf(build, p.type, p.status, c)
    /\ \A id \in TextIds : Slot(p, id, c.text[id], None)
    /\ Slot(p, "LIFETIME", c.life, None) /\ Slot(p, "CLIENT_ADDR", c.client, 0)
    /\ SetSlots(p, c.first, c.second)
    /\ Len(p.pars) = Used(c) /\ p.length <= HeaderSize + Room(c)

LEMMA SlapIsFlag ==
    ASSUME NEW s \in Sets, NEW build
    PROVE  Slap(build, s) \subseteq SlapBits
<1>1. s.kind.slap \in {"AAI", "ELI", "SAI"}
  BY PacketAssumption DEF Sets
<1> QED BY <1>1 DEF Slap, SlapBits

LEMMA FlagNames ==
    /\ DOMAIN FlagOf = TextIds
    /\ FlagOf["STATION_ID"] = "STATIONID" /\ FlagOf["NETWORK_ID"] = "NETWORKID"
    /\ FlagOf["VENDOR"] = "VENDOR"
BY DEF FlagOf, TextIds

LEMMA TakesType ==
    ASSUME NEW v, NEW none, NEW n \in Nat
    PROVE  Takes(v, none, n) \in 0 .. n /\ (v = none => Takes(v, none, n) = 0)
           /\ (v # none => Takes(v, none, n) = n)
BY DEF Takes

LEMMA UsedIsSmall ==
    ASSUME NEW c \in Contents
    PROVE  /\ c.second = None \/ (c.text["NETWORK_ID"] = None /\ c.text["VENDOR"] = None)
                 => Used(c) <= MaxPar
           /\ c.second = None /\ (\/ \E id \in TextIds : c.text[id] = None
                                 \/ c.life = None \/ c.client = 0 \/ c.first = None)
                 => Used(c) < MaxPar
<1>1. PICK u \in 0 .. 1 : u = Takes(c.text["STATION_ID"], None, 1)
                          /\ (c.text["STATION_ID"] = None => u = 0)
  BY TakesType
<1>2. PICK v \in 0 .. 1 : v = Takes(c.text["NETWORK_ID"], None, 1)
                          /\ (c.text["NETWORK_ID"] = None => v = 0)
  BY TakesType
<1>3. PICK w \in 0 .. 1 : w = Takes(c.text["VENDOR"], None, 1)
                          /\ (c.text["VENDOR"] = None => w = 0)
  BY TakesType
<1>4. PICK x \in 0 .. 1 : x = Takes(c.life, None, 1) /\ (c.life = None => x = 0)
  BY TakesType
<1>5. PICK y \in 0 .. 1 : y = Takes(c.client, 0, 1) /\ (c.client = 0 => y = 0)
  BY TakesType
<1>6. PICK z \in 0 .. 1 : z = Takes(c.first, None, 1) /\ (c.first = None => z = 0)
  BY TakesType
<1>7. PICK r \in 0 .. 1 : r = Takes(c.second, None, 1) /\ (c.second = None => r = 0)
  BY TakesType
<1>8. Used(c) = u + v + w + x + y + z + r
  BY <1>1, <1>2, <1>3, <1>4, <1>5, <1>6, <1>7 DEF Used, Total
<1>9. c.second = None \/ (c.text["NETWORK_ID"] = None /\ c.text["VENDOR"] = None)
         => Used(c) <= MaxPar
  <2>1. c.second = None \/ (c.text["NETWORK_ID"] = None /\ c.text["VENDOR"] = None)
           => r = 0 \/ (v = 0 /\ w = 0)
    BY <1>2, <1>3, <1>7
  <2> QED BY <1>8, <2>1 DEF MaxPar
<1>10. ASSUME c.second = None,
              \/ \E id \in TextIds : c.text[id] = None
              \/ c.life = None \/ c.client = 0 \/ c.first = None
       PROVE  Used(c) < MaxPar
  <2>1. r = 0 /\ (u = 0 \/ v = 0 \/ w = 0 \/ x = 0 \/ y = 0 \/ z = 0)
    BY <1>1, <1>2, <1>3, <1>4, <1>5, <1>6, <1>7, <1>10 DEF TextIds
  <2> QED BY <1>8, <2>1 DEF MaxPar
<1> QED BY <1>9, <1>10

Grows(c, n, l, a, k) ==
    /\ Total(c, n, l, a, k) \in Nat
    /\ \A id \in TextIds, t \in Texts : c.text[id] = None
           => Total(WithText(c, id, t), n, l, a, k) = Total(c, n, l, a, k) + n
    /\ \A v \in Nat : c.life = None
           => Total(WithNumbers(c, v, c.client), n, l, a, k) = Total(c, n, l, a, k) + l
    /\ \A v \in Nat \ {0} : c.client = 0
           => Total(WithNumbers(c, c.life, v), n, l, a, k) = Total(c, n, l, a, k) + a
    /\ \A s \in Sets : c.first = None
           => Total(WithSets(c, s, c.second), n, l, a, k) = Total(c, n, l, a, k) + k
    /\ \A s \in Sets : c.second = None
           => Total(WithSets(c, c.first, s), n, l, a, k) = Total(c, n, l, a, k) + k

LEMMA TotalGrows ==
    ASSUME NEW c \in Contents, NEW n \in Nat, NEW l \in Nat, NEW a \in Nat, NEW k \in Nat
    PROVE  Grows(c, n, l, a, k)
<1>1. PICK u \in Nat : u = Takes(c.text["STATION_ID"], None, n)
                       /\ (c.text["STATION_ID"] = None => u = 0)
  BY TakesType
<1>2. PICK v \in Nat : v = Takes(c.text["NETWORK_ID"], None, n)
                       /\ (c.text["NETWORK_ID"] = None => v = 0)
  BY TakesType
<1>3. PICK w \in Nat : w = Takes(c.text["VENDOR"], None, n) /\ (c.text["VENDOR"] = None => w = 0)
  BY TakesType
<1>4. PICK x \in Nat : x = Takes(c.life, None, l) /\ (c.life = None => x = 0)
  BY TakesType
<1>5. PICK y \in Nat : y = Takes(c.client, 0, a) /\ (c.client = 0 => y = 0)
  BY TakesType
<1>6. PICK z \in Nat : z = Takes(c.first, None, k) /\ (c.first = None => z = 0)
  BY TakesType
<1>7. PICK r \in Nat : r = Takes(c.second, None, k) /\ (c.second = None => r = 0)
  BY TakesType
<1>8. Total(c, n, l, a, k) = u + v + w + x + y + z + r
  BY <1>1, <1>2, <1>3, <1>4, <1>5, <1>6, <1>7 DEF Total
<1>9. ASSUME NEW id \in TextIds, NEW t \in Texts, c.text[id] = None
      PROVE  Total(WithText(c, id, t), n, l, a, k) = Total(c, n, l, a, k) + n
  <2> DEFINE d == WithText(c, id, t)
  <2>1. /\ d.life = c.life /\ d.client = c.client /\ d.first = c.first /\ d.second = c.second
        /\ d.text = [e \in TextIds |-> IF e = id THEN t ELSE c.text[e]]
    BY DEF WithText
  <2> HIDE DEF d
  <2>2. \A e \in TextIds : d.text[e] = IF e = id THEN t ELSE c.text[e]
    BY <2>1
  <2>3. Takes(t, None, n) = n
    BY DEF Takes, Texts
  <2>4. CASE id = "STATION_ID"
    <3>1. d.text["STATION_ID"] = t /\ d.text["NETWORK_ID"] = c.text["NETWORK_ID"]
          /\ d.text["VENDOR"] = c.text["VENDOR"] /\ u = 0
      BY <1>1, <1>9, <2>2, <2>4 DEF TextIds
    <3>2. Total(d, n, l, a, k) = n + v + w + x + y + z + r
      BY <1>2, <1>3, <1>4, <1>5, <1>6, <1>7, <2>1, <2>3, <3>1 DEF Total
    <3> QED BY <1>8, <3>1, <3>2 DEF d
  <2>5. CASE id = "NETWORK_ID"
    <3>1. d.text["STATION_ID"] = c.text["STATION_ID"] /\ d.text["NETWORK_ID"] = t
          /\ d.text["VENDOR"] = c.text["VENDOR"] /\ v = 0
      BY <1>2, <1>9, <2>2, <2>5 DEF TextIds
    <3>2. Total(d, n, l, a, k) = u + n + w + x + y + z + r
      BY <1>1, <1>3, <1>4, <1>5, <1>6, <1>7, <2>1, <2>3, <3>1 DEF Total
    <3> QED BY <1>8, <3>1, <3>2 DEF d
  <2>6. CASE id = "VENDOR"
    <3>1. d.text["STATION_ID"] = c.text["STATION_ID"] /\ d.text["VENDOR"] = t
          /\ d.text["NETWORK_ID"] = c.text["NETWORK_ID"] /\ w = 0
      BY <1>3, <1>9, <2>2, <2>6 DEF TextIds
    <3>2. Total(d, n, l, a, k) = u + v + n + x + y + z + r
      BY <1>1, <1>2, <1>4, <1>5, <1>6, <1>7, <2>1, <2>3, <3>1 DEF Total
    <3> QED BY <1>8, <3>1, <3>2 DEF d
  <2> QED BY <2>4, <2>5, <2>6 DEF TextIds
<1>10. ASSUME NEW m \in Nat, c.life = None
       PROVE  Total(WithNumbers(c, m, c.client), n, l, a, k) = Total(c, n, l, a, k) + l
  <2>1. Takes(m, None, l) = l /\ x = 0
    BY <1>4, <1>10, NoneAssumption DEF Takes
  <2>2. Total(WithNumbers(c, m, c.client), n, l, a, k) = u + v + w + l + y + z + r
    BY <1>1, <1>2, <1>3, <1>5, <1>6, <1>7, <2>1 DEF Total, WithNumbers
  <2> QED BY <1>8, <2>1, <2>2
<1>11. ASSUME NEW m \in Nat \ {0}, c.client = 0
       PROVE  Total(WithNumbers(c, c.life, m), n, l, a, k) = Total(c, n, l, a, k) + a
  <2>1. Takes(m, 0, a) = a /\ y = 0
    BY <1>5, <1>11 DEF Takes
  <2>2. Total(WithNumbers(c, c.life, m), n, l, a, k) = u + v + w + x + a + z + r
    BY <1>1, <1>2, <1>3, <1>4, <1>6, <1>7, <2>1 DEF Total, WithNumbers
  <2> QED BY <1>8, <2>1, <2>2
<1>12. ASSUME NEW s \in Sets, c.first = None
       PROVE  Total(WithSets(c, s, c.second), n, l, a, k) = Total(c, n, l, a, k) + k
  <2>1. Takes(s, None, k) = k /\ z = 0
    BY <1>6, <1>12, NoneAssumption DEF Takes
  <2>2. Total(WithSets(c, s, c.second), n, l, a, k) = u + v + w + x + y + k + r
    BY <1>1, <1>2, <1>3, <1>4, <1>5, <1>7, <2>1 DEF Total, WithSets
  <2> QED BY <1>8, <2>1, <2>2
<1>13. ASSUME NEW s \in Sets, c.second = None
       PROVE  Total(WithSets(c, c.first, s), n, l, a, k) = Total(c, n, l, a, k) + k
  <2>1. Takes(s, None, k) = k /\ r = 0
    BY <1>7, <1>13, NoneAssumption DEF Takes
  <2>2. Total(WithSets(c, c.first, s), n, l, a, k) = u + v + w + x + y + z + k
    BY <1>1, <1>2, <1>3, <1>4, <1>5, <1>6, <2>1 DEF Total, WithSets
  <2> QED BY <1>8, <2>1, <2>2
<1>14. Total(c, n, l, a, k) \in Nat
  BY <1>8
<1> QED BY <1>9, <1>10, <1>11, <1>12, <1>13, <1>14 DEF Grows

LEMMA UsedAndRoom ==
    ASSUME NEW c \in Contents
    PROVE  /\ Used(c) \in Nat /\ Room(c) \in Nat
           /\ \A id \in TextIds, t \in Texts : c.text[id] = None
                  => /\ Used(WithText(c, id, t)) = Used(c) + 1
                     /\ Room(WithText(c, id, t)) = Room(c) + 255
           /\ \A v \in Nat : c.life = None
                  => /\ Used(WithNumbers(c, v, c.client)) = Used(c) + 1
                     /\ Room(WithNumbers(c, v, c.client)) = Room(c) + 4
           /\ \A v \in Nat \ {0} : c.client = 0
                  => /\ Used(WithNumbers(c, c.life, v)) = Used(c) + 1
                     /\ Room(WithNumbers(c, c.life, v)) = Room(c) + 8
           /\ \A s \in Sets : c.first = None
                  => /\ Used(WithSets(c, s, c.second)) = Used(c) + 1
                     /\ Room(WithSets(c, s, c.second)) = Room(c) + 18
           /\ \A s \in Sets : c.second = None
                  => /\ Used(WithSets(c, c.first, s)) = Used(c) + 1
                     /\ Room(WithSets(c, c.first, s)) = Room(c) + 18
<1>1. Grows(c, 1, 1, 1, 1) /\ Grows(c, 255, 4, 8, 18)
  BY TotalGrows
<1> QED BY <1>1 DEF Grows, Used, Room

(* One more parameter.                                                         *)
LEMMA AddedFits ==
    ASSUME NEW build, NEW p, NEW c, Carries(build, p, c), Used(c) < MaxPar,
           NEW par, GoodPar(par), NEW flags \in SUBSET ControlBits,
           NEW d \in Contents, Used(d) = Used(c) + 1, Room(c) + par.len + 2 <= Room(d),
           NEW q, q = addPar(p, par, flags)
    PROVE  /\ Shaped(q) /\ Grown(p, q, par, flags) /\ p \in PacketType /\ Keeps(p, q, par)
           /\ Len(q.pars) = Used(d) /\ q.length <= HeaderSize + Room(d)
           /\ q.type = p.type /\ q.status = p.status /\ q.cw = p.cw \cup flags
<1>1. Len(p.pars) = Used(c) /\ p.length <= HeaderSize + Room(c) /\ Shaped(p) /\ c \in Contents
  BY DEF Carries
<1>2. Shaped(q) /\ Grown(p, q, par, flags)
  BY <1>1, AddParGrows
<1>3. /\ Len(q.pars) = Len(p.pars) + 1 /\ q.length = p.length + par.len + 2
      /\ q.type = p.type /\ q.status = p.status /\ q.cw = p.cw \cup flags
  BY <1>2 DEF Grown
<1>4. p \in PacketType /\ p.length \in Nat /\ par.len \in Nat
  <2>1. p \in PacketType
    BY <1>1 DEF Shaped
  <2>2. par.len \in 0 .. 253
    BY ParComesThrough
  <2>3. p.length \in Nat
    BY <2>1 DEF PacketType
  <2> QED BY <2>1, <2>2, <2>3
<1>5. Room(c) \in Nat /\ Room(d) \in Nat
  BY <1>1, UsedAndRoom
<1>6. q.length <= HeaderSize + Room(d)
  <2>1. PICK x \in Nat : x = Room(c)
    BY <1>5
  <2>2. PICK l \in Nat : l = p.length
    BY <1>4
  <2>3. PICK m \in Nat : m = par.len
    BY <1>4
  <2>4. PICK y \in Nat : y = Room(d)
    BY <1>5
  <2>5. q.length = l + m + 2 /\ l <= 8 + x /\ x + m + 2 <= y
    BY <1>1, <1>3, <2>1, <2>2, <2>3, <2>4 DEF HeaderSize
  <2>6. q.length <= 8 + y
    BY <2>5
  <2> QED BY <2>4, <2>6 DEF HeaderSize
<1>7. Keeps(p, q, par)
  BY <1>2, <1>4, SlotsGrow
<1> QED BY <1>1, <1>2, <1>3, <1>4, <1>6, <1>7

LEMMA MoreContents ==
    ASSUME NEW c \in Contents
    PROVE  /\ \A id \in TextIds, t \in Texts : WithText(c, id, t) \in Contents
           /\ \A v \in Nat : WithNumbers(c, v, c.client) \in Contents
           /\ \A v \in Nat : WithNumbers(c, c.life, v) \in Contents
           /\ \A s, t \in Sets \cup {None} : WithSets(c, s, t) \in Contents
           /\ WithRenewal(c) \in Contents
<1>1. /\ c.text \in [TextIds -> Texts \cup {None}] /\ c.life \in Nat \cup {None}
      /\ c.client \in Nat /\ c.first \in Sets \cup {None} /\ c.second \in Sets \cup {None}
      /\ c.renewal \in BOOLEAN
  BY DEF Contents
<1>2. ASSUME NEW id \in TextIds, NEW t \in Texts PROVE WithText(c, id, t) \in Contents
  <2>1. [x \in TextIds |-> IF x = id THEN t ELSE c.text[x]] \in [TextIds -> Texts \cup {None}]
    BY <1>1
  <2> QED BY <1>1, <2>1 DEF Contents, WithText
<1>3. ASSUME NEW v \in Nat
      PROVE  WithNumbers(c, v, c.client) \in Contents /\ WithNumbers(c, c.life, v) \in Contents
  BY <1>1 DEF Contents, WithNumbers
<1>4. ASSUME NEW s \in Sets \cup {None}, NEW t \in Sets \cup {None}
      PROVE  WithSets(c, s, t) \in Contents
  BY <1>1 DEF Contents, WithSets
<1>5. WithRenewal(c) \in Contents
  BY <1>1 DEF Contents, WithRenewal
<1> QED BY <1>2, <1>3, <1>4, <1>5

LEMMA CarriesText ==
    ASSUME NEW build, NEW p, NEW c, Carries(build, p, c), c.second = None,
           NEW id \in TextIds, NEW t \in Texts, c.text[id] = None
    PROVE  Carries(build, addPar(p, ParOf(id, Letters[t] % 256, t), {FlagOf[id]}),
                   WithText(c, id, t))
<1> DEFINE par == ParOf(id, Letters[t] % 256, t)
           q   == addPar(p, par, {FlagOf[id]})
           d   == WithText(c, id, t)
<1>1. c \in Contents /\ d \in Contents /\ Used(c) < MaxPar
  BY MoreContents, UsedIsSmall DEF Carries
<1>2. GoodPar(par) /\ par.len \in 0 .. 253 /\ par.id = id /\ par.val = t
  BY TextLength DEF GoodPar, TextPar, ParOf
<1>3. {FlagOf[id]} \in SUBSET ControlBits
  BY FlagNames DEF TextIds, ControlBits
<1>4. Used(d) = Used(c) + 1 /\ Room(c) + par.len + 2 <= Room(d)
  <2>1. Used(d) = Used(c) + 1 /\ Room(d) = Room(c) + 255 /\ Room(c) \in Nat
    BY <1>1, UsedAndRoom
  <2> HIDE DEF par, d
  <2> QED BY <1>2, <2>1
<1>5. /\ d.life = c.life /\ d.client = c.client /\ d.first = c.first /\ d.second = c.second
      /\ d.renewal = c.renewal /\ \A x \in TextIds : d.text[x] = IF x = id THEN t ELSE c.text[x]
  BY DEF WithText
<1> HIDE DEF par, q, d
<1>6. /\ Shaped(q) /\ Grown(p, q, par, {FlagOf[id]}) /\ Keeps(p, q, par)
      /\ Len(q.pars) = Used(d) /\ q.length <= HeaderSize + Room(d)
      /\ q.type = p.type /\ q.status = p.status /\ q.cw = p.cw \cup {FlagOf[id]}
  <2>1. q = addPar(p, par, {FlagOf[id]})
    BY DEF q
  <2> QED BY <1>1, <1>2, <1>3, <1>4, <2>1, AddedFits
<1>7. q.cw = FlagsOf(build, q.type, q.status, d)
  <2>1. {x \in TextIds : d.text[x] # None} = {x \in TextIds : c.text[x] # None} \cup {id}
    BY <1>5, NoneAssumption DEF Texts
  <2>2. {FlagOf[x] : x \in {y \in TextIds : d.text[y] # None}}
            = {FlagOf[x] : x \in {y \in TextIds : c.text[y] # None}} \cup {FlagOf[id]}
    BY <2>1
  <2>3. p.cw = FlagsOf(build, p.type, p.status, c)
    BY DEF Carries
  <2> QED BY <1>5, <1>6, <2>2, <2>3, Zenon DEF FlagsOf
<1>8. \A x \in TextIds : Slot(q, x, d.text[x], None)
  <2> TAKE x \in TextIds
  <2>1. CASE x = id
    <3>1. ParsOf(p, par.id) = {}
      BY <1>2 DEF Carries, Slot
    <3>2. par.val # None
      BY <1>2 DEF Texts
    <3> QED BY <1>2, <1>5, <1>6, <2>1, <3>1, <3>2, Zenon DEF Keeps
  <2>2. CASE x # id
    <3>1. Slot(p, x, d.text[x], None)
      BY <1>5, <2>2 DEF Carries
    <3> QED BY <1>2, <1>6, <2>2, <3>1, Zenon DEF Keeps
  <2> QED BY <2>1, <2>2
<1>9. Slot(q, "LIFETIME", d.life, None) /\ Slot(q, "CLIENT_ADDR", d.client, 0)
      /\ SetSlots(q, d.first, d.second)
  <2>1. Slot(p, "LIFETIME", d.life, None) /\ Slot(p, "CLIENT_ADDR", d.client, 0)
        /\ SetSlots(p, d.first, d.second)
    BY <1>5 DEF Carries
  <2>2. par.id # "LIFETIME" /\ par.id # "CLIENT_ADDR" /\ par.id # "MAC_ADDR_SET"
    BY <1>2 DEF TextIds
  <2> QED BY <1>6, <2>1, <2>2, Zenon DEF Keeps
<1>10. Carries(build, q, d)
  BY <1>1, <1>6, <1>7, <1>8, <1>9 DEF Carries
<1> QED BY <1>10 DEF q, d, par

LEMMA CarriesLife ==
    ASSUME NEW build, NEW p, NEW c, Carries(build, p, c), c.second = None,
           NEW v \in Nat, c.life = None
    PROVE  Carries(build, addLifetime(p, v), WithNumbers(c, v, c.client))
<1> DEFINE par == ParOf("LIFETIME", 2, v)
           q   == addPar(p, par, {})
           d   == WithNumbers(c, v, c.client)
<1>1. c \in Contents /\ d \in Contents /\ Used(c) < MaxPar
  BY MoreContents, UsedIsSmall DEF Carries
<1>2. GoodPar(par) /\ par.len = 2 /\ par.id = "LIFETIME" /\ par.val = v
  BY DEF GoodPar, TimePar, ParOf
<1>3. Used(d) = Used(c) + 1 /\ Room(c) + par.len + 2 <= Room(d)
  <2>1. Used(d) = Used(c) + 1 /\ Room(d) = Room(c) + 4 /\ Room(c) \in Nat
    BY <1>1, UsedAndRoom
  <2> HIDE DEF par, d
  <2> QED BY <1>2, <2>1
<1>4. /\ d.life = v /\ d.client = c.client /\ d.first = c.first /\ d.second = c.second
      /\ d.renewal = c.renewal /\ d.text = c.text
  BY DEF WithNumbers
<1> HIDE DEF par, q, d
<1>5. /\ Shaped(q) /\ Grown(p, q, par, {}) /\ Keeps(p, q, par)
      /\ Len(q.pars) = Used(d) /\ q.length <= HeaderSize + Room(d)
      /\ q.type = p.type /\ q.status = p.status /\ q.cw = p.cw \cup {}
  <2>1. PICK flags \in SUBSET ControlBits : flags = {}
    OBVIOUS
  <2>2. q = addPar(p, par, flags)
    BY <2>1 DEF q
  <2>3. /\ Shaped(q) /\ Grown(p, q, par, flags) /\ p \in PacketType /\ Keeps(p, q, par)
        /\ Len(q.pars) = Used(d) /\ q.length <= HeaderSize + Room(d)
        /\ q.type = p.type /\ q.status = p.status /\ q.cw = p.cw \cup flags
    BY <1>1, <1>2, <1>3, <2>2, AddedFits
  <2> QED BY <2>1, <2>3
<1>6. q.cw = FlagsOf(build, q.type, q.status, d)
  BY <1>4, <1>5 DEF Carries, FlagsOf
<1>7. \A x \in TextIds : Slot(q, x, d.text[x], None)
  BY <1>2, <1>4, <1>5, Zenon DEF Keeps, Carries, TextIds
<1>8. Slot(q, "LIFETIME", d.life, None)
  <2>1. ParsOf(p, par.id) = {} /\ par.val # None
    BY <1>2, NoneAssumption DEF Carries, Slot
  <2> QED BY <1>2, <1>4, <1>5, <2>1, Zenon DEF Keeps
<1>9. Slot(q, "CLIENT_ADDR", d.client, 0) /\ SetSlots(q, d.first, d.second)
  BY <1>2, <1>4, <1>5, Zenon DEF Keeps, Carries
<1>10. Carries(build, q, d)
  BY <1>1, <1>5, <1>6, <1>7, <1>8, <1>9 DEF Carries
<1> QED BY <1>10 DEF q, d, par, addLifetime

LEMMA CarriesClient ==
    ASSUME NEW build, NEW p, NEW c, Carries(build, p, c), c.second = None,
           NEW v \in Nat, c.client = 0
    PROVE  Carries(build, addClientAddr(p, v), WithNumbers(c, c.life, v))
<1> DEFINE par == ParOf("CLIENT_ADDR", 6, v)
           q   == addPar(p, par, {})
           d   == WithNumbers(c, c.life, v)
<1>1. c \in Contents /\ d \in Contents /\ Used(c) < MaxPar
  BY MoreContents, UsedIsSmall DEF Carries
<1>2. CASE v = 0
  <2>1. d = c
    BY <1>1, <1>2 DEF WithNumbers, Contents
  <2> QED BY <1>2, <2>1 DEF addClientAddr
<1>3. CASE v # 0
  <2>1. GoodPar(par) /\ par.len = 6 /\ par.id = "CLIENT_ADDR" /\ par.val = v
    BY DEF GoodPar, AddrPar, ParOf
  <2>2. Used(d) = Used(c) + 1 /\ Room(c) + par.len + 2 <= Room(d)
    <3>1. Used(d) = Used(c) + 1 /\ Room(d) = Room(c) + 8 /\ Room(c) \in Nat
      BY <1>1, <1>3, UsedAndRoom
    <3> HIDE DEF par, d
    <3> QED BY <2>1, <3>1
  <2>3. /\ d.life = c.life /\ d.client = v /\ d.first = c.first /\ d.second = c.second
        /\ d.renewal = c.renewal /\ d.text = c.text
    BY DEF WithNumbers
  <2> HIDE DEF par, q, d
  <2>4. /\ Shaped(q) /\ Grown(p, q, par, {}) /\ p \in PacketType /\ Keeps(p, q, par)
        /\ Len(q.pars) = Used(d) /\ q.length <= HeaderSize + Room(d)
        /\ q.type = p.type /\ q.status = p.status /\ q.cw = p.cw \cup {}
    <3>1. PICK flags \in SUBSET ControlBits : flags = {}
      OBVIOUS
    <3>2. q = addPar(p, par, flags)
      BY <3>1 DEF q
    <3>3. /\ Shaped(q) /\ Grown(p, q, par, flags) /\ p \in PacketType /\ Keeps(p, q, par)
          /\ Len(q.pars) = Used(d) /\ q.length <= HeaderSize + Room(d)
          /\ q.type = p.type /\ q.status = p.status /\ q.cw = p.cw \cup flags
      BY <1>1, <2>1, <2>2, <3>2, AddedFits
    <3> QED BY <3>1, <3>3
  <2>5. q.cw = FlagsOf(build, q.type, q.status, d)
    BY <2>3, <2>4 DEF Carries, FlagsOf
  <2>6. \A x \in TextIds : Slot(q, x, d.text[x], None)
    BY <2>1, <2>3, <2>4, Zenon DEF Keeps, Carries, TextIds
  <2>7. Slot(q, "CLIENT_ADDR", d.client, 0)
    <3>1. ParsOf(p, par.id) = {} /\ par.val # 0
      BY <1>3, <2>1 DEF Carries, Slot
    <3> QED BY <2>1, <2>3, <2>4, <3>1, Zenon DEF Keeps
  <2>8. Slot(q, "LIFETIME", d.life, None) /\ SetSlots(q, d.first, d.second)
    BY <2>1, <2>3, <2>4, Zenon DEF Keeps, Carries
  <2>9. Carries(build, q, d)
    BY <1>1, <2>2, <2>4, <2>5, <2>6, <2>7, <2>8 DEF Carries
  <2> QED BY <1>3, <2>9 DEF q, d, par, addClientAddr
<1> QED BY <1>2, <1>3

(* A set, and its flags if it is the first.                                    *)
LEMMA CarriesSets ==
    ASSUME NEW build, NEW p, NEW c, Carries(build, p, c), NEW s \in Sets, c.second = None
    PROVE  /\ c.first = None => Carries(build, addMacSet(p, s, {"SETPROV"} \cup Slap(build, s)),
                                        WithSets(c, s, None))
           /\ c.first # None /\ Used(c) < MaxPar
                 => Carries(build, addMacSet(p, s, {}), WithSets(c, c.first, s))
<1> DEFINE par == ParOf("MAC_ADDR_SET", MacSetLength(s), s)
<1>1. GoodPar(par) /\ par.len \in {8, 10, 12, 16} /\ par.id = "MAC_ADDR_SET" /\ par.val = s /\ par.val # None
  BY SetLength, NoneAssumption DEF GoodPar, SetPar, ParOf
<1>2. c \in Contents /\ (c.first = None => Used(c) < MaxPar)
  BY UsedIsSmall DEF Carries
<1>3. {"SETPROV"} \cup Slap(build, s) \in SUBSET ControlBits /\ {} \in SUBSET ControlBits
  BY SlapIsFlag DEF ControlBits
<1> HIDE DEF par
<1>4. ASSUME NEW flags \in SUBSET ControlBits, NEW q, q = addPar(p, par, flags), NEW d,
             \/ c.first = None /\ d = WithSets(c, s, None) /\ flags = {"SETPROV"} \cup Slap(build, s)
             \/ c.first # None /\ Used(c) < MaxPar /\ d = WithSets(c, c.first, s) /\ flags = {}
      PROVE  Carries(build, q, d)
  <2>1. d \in Contents /\ Used(d) = Used(c) + 1 /\ Room(c) + par.len + 2 <= Room(d) /\ Used(c) < MaxPar
    <3>1. d \in Contents /\ Used(c) < MaxPar
      <4>1. c.first \in Sets \cup {None} /\ s \in Sets \cup {None} /\ None \in Sets \cup {None}
        BY <1>2 DEF Contents
      <4>2. WithSets(c, s, None) \in Contents /\ WithSets(c, c.first, s) \in Contents
        BY <1>2, <4>1, MoreContents
      <4> QED BY <1>2, <1>4, <4>2
    <3>2. Used(d) = Used(c) + 1 /\ Room(d) = Room(c) + 18 /\ Room(c) \in Nat
      <4>1. CASE c.first = None
        <5>1. d = WithSets(c, s, c.second)
          BY <1>4, <4>1
        <5> QED BY <1>2, <4>1, <5>1, UsedAndRoom
      <4>2. CASE c.first # None
        <5>1. d = WithSets(c, c.first, s)
          BY <1>4, <4>2
        <5> QED BY <1>2, <5>1, UsedAndRoom
      <4> QED BY <4>1, <4>2
    <3> QED BY <1>1, <3>1, <3>2
  <2>2. /\ d.life = c.life /\ d.client = c.client /\ d.renewal = c.renewal /\ d.text = c.text
        /\ c.first = None => d.first = s /\ d.second = None
        /\ c.first # None => d.first = c.first /\ d.second = s
    BY <1>4 DEF WithSets
  <2>3. /\ Shaped(q) /\ Grown(p, q, par, flags) /\ p \in PacketType /\ Keeps(p, q, par)
        /\ Len(q.pars) = Used(d) /\ q.length <= HeaderSize + Room(d)
        /\ q.type = p.type /\ q.status = p.status /\ q.cw = p.cw \cup flags
    BY <1>1, <1>2, <1>4, <2>1, AddedFits
  <2>4. q.cw = FlagsOf(build, q.type, q.status, d)
    <3>1. p.cw = FlagsOf(build, p.type, p.status, c)
      BY DEF Carries
    <3>2. CASE c.first = None
      <4>1. flags = {"SETPROV"} \cup Slap(build, d.first) /\ d.first # None
        BY <1>4, <2>2, <3>2, NoneAssumption
      <4> DEFINE X == (IF p.type \in {"OFFER", "ACK"} THEN {"SERVER"} ELSE {})
                          \cup (IF p.status = "NO_CODE" THEN {} ELSE {"CODEFIELD"})
                          \cup {FlagOf[id] : id \in {x \in TextIds : c.text[x] # None}}
                 Y == IF c.renewal THEN {"RENEWAL"} ELSE {}
      <4>2. p.cw = X \cup {} \cup Y
        BY <3>1, <3>2, Zenon DEF FlagsOf
      <4>3. FlagsOf(build, q.type, q.status, d) = X \cup flags \cup Y
        BY <2>2, <2>3, <4>1, ZenonT(40) DEF FlagsOf
      <4> HIDE DEF X, Y
      <4> QED BY <2>3, <4>2, <4>3
    <3>3. CASE c.first # None
      BY <1>4, <2>2, <2>3, <3>1, <3>3 DEF FlagsOf
    <3> QED BY <3>2, <3>3
  <2>5. SetSlots(p, c.first, None) /\ par.id = "MAC_ADDR_SET"
    BY <1>1 DEF Carries
  <2>6. SetSlots(q, d.first, d.second)
    BY <1>1, <2>2, <2>3, <2>5, SetSlotsGrow
  <2>7. \A x \in TextIds : Slot(q, x, d.text[x], None)
    BY <1>1, <2>2, <2>3, Zenon DEF Keeps, Carries, TextIds
  <2>8. Slot(q, "LIFETIME", d.life, None) /\ Slot(q, "CLIENT_ADDR", d.client, 0)
    BY <1>1, <2>2, <2>3, Zenon DEF Keeps, Carries
  <2> QED BY <2>1, <2>3, <2>4, <2>6, <2>7, <2>8 DEF Carries
<1>5. \A flags : addMacSet(p, s, flags) = addPar(p, par, flags)
  BY DEF addMacSet, par
<1> QED BY <1>3, <1>4, <1>5

LEMMA CarriesNothing ==
    ASSUME NEW build, NEW type \in MsgTypes, NEW status \in StatusCodes
    PROVE  Carries(build, NewPacket(type, status), Nothing)
<1> DEFINE p == NewPacket(type, status)
<1>1. /\ p.pars = <<>> /\ p.length = HeaderSize /\ p.type = type /\ p.status = status
      /\ p.cw = (IF type \in {"OFFER", "ACK"} THEN {"SERVER"} ELSE {})
                    \cup (IF status = "NO_CODE" THEN {} ELSE {"CODEFIELD"})
      /\ p \in PacketType
  BY DEF NewPacket, PacketType, ControlBits, HeaderSize
<1> HIDE DEF p
<1>2. Len(p.pars) = 0 /\ \A id : ParsOf(p, id) = {}
  BY <1>1 DEF ParsOf
<1>3. Bytes(p.pars) = 0
  BY <1>2 DEF Bytes, ParBytes, MaxPar
<1>4. Shaped(p)
  BY <1>1, <1>2, <1>3 DEF Shaped, HeaderSize
<1>5. Nothing \in Contents /\ \A id \in TextIds : Nothing.text[id] = None
  BY DEF Nothing, Contents
<1>6. Used(Nothing) = 0 /\ Room(Nothing) = 0
  BY <1>5 DEF Used, Room, Total, Takes, Nothing, TextIds
<1>7. p.cw = FlagsOf(build, p.type, p.status, Nothing)
  BY <1>1, <1>5 DEF FlagsOf, Nothing
<1>8. SetSlots(p, Nothing.first, Nothing.second)
  BY <1>2 DEF SetSlots, SetsOf, Nothing
<1>9. Slot(p, "LIFETIME", Nothing.life, None) /\ Slot(p, "CLIENT_ADDR", Nothing.client, 0)
      /\ \A id \in TextIds : Slot(p, id, Nothing.text[id], None)
  BY <1>2, <1>5 DEF Slot, Nothing
<1>10. Carries(build, p, Nothing)
  BY <1>1, <1>2, <1>4, <1>5, <1>6, <1>7, <1>8, <1>9 DEF Carries, HeaderSize
<1> QED BY <1>10 DEF p

LEMMA CarriesRenewal ==
    ASSUME NEW build, NEW p, NEW c, Carries(build, p, c)
    PROVE  Carries(build, [p EXCEPT !.cw = @ \cup {"RENEWAL"}], WithRenewal(c))
<1> DEFINE q == [p EXCEPT !.cw = @ \cup {"RENEWAL"}]
           d == WithRenewal(c)
<1>1. p \in PacketType /\ c \in Contents /\ d \in Contents
  BY MoreContents DEF Carries, Shaped
<1>2. /\ q \in PacketType /\ q.type = p.type /\ q.status = p.status /\ q.pars = p.pars
      /\ q.length = p.length /\ q.cw = p.cw \cup {"RENEWAL"}
  BY <1>1 DEF PacketType, ControlBits
<1>3. /\ d.life = c.life /\ d.client = c.client /\ d.first = c.first /\ d.second = c.second
      /\ d.renewal = TRUE /\ d.text = c.text
  BY DEF WithRenewal
<1> HIDE DEF q, d
<1>4. q.cw = FlagsOf(build, q.type, q.status, d)
  BY <1>2, <1>3 DEF Carries, FlagsOf
<1>5. Shaped(q)
  BY <1>2 DEF Carries, Shaped
<1>6. \A id : ParsOf(q, id) = ParsOf(p, id)
  BY <1>2 DEF ParsOf
<1>7. /\ \A id \in TextIds : Slot(q, id, d.text[id], None)
      /\ Slot(q, "LIFETIME", d.life, None) /\ Slot(q, "CLIENT_ADDR", d.client, 0)
  BY <1>2, <1>3, <1>6 DEF Carries, Slot
<1>8. SetSlots(q, d.first, d.second)
  BY <1>2, <1>3, <1>6 DEF Carries, SetSlots, SetsOf
<1>9. Len(q.pars) = Used(d) /\ q.length <= HeaderSize + Room(d)
  BY <1>2, <1>3 DEF Carries, Used, Room, Total
<1>10. Carries(build, q, d)
  BY <1>1, <1>4, <1>5, <1>7, <1>8, <1>9 DEF Carries
<1> QED BY <1>10 DEF q, d

----------------------------------------------------------------------------
(* The add... calls, in terms of what is said: the station, the network, the   *)
(* vendor, the lifetime, the client's address, the sets, and RENEWAL.          *)
Said(x, n, v, l, a, f, s, r) ==
    [text |-> [id \in TextIds |-> IF id = "STATION_ID" THEN x
                                  ELSE IF id = "NETWORK_ID" THEN n ELSE v],
     life |-> l, client |-> a, first |-> f, second |-> s, renewal |-> r]

Saying(x, n, v, l, a, f, s, r, t) ==
    /\ WithText(Said(x, n, v, l, a, f, s, r), "STATION_ID", t) = Said(t, n, v, l, a, f, s, r)
    /\ WithText(Said(x, n, v, l, a, f, s, r), "NETWORK_ID", t) = Said(x, t, v, l, a, f, s, r)
    /\ WithText(Said(x, n, v, l, a, f, s, r), "VENDOR", t) = Said(x, n, t, l, a, f, s, r)
    /\ WithNumbers(Said(x, n, v, l, a, f, s, r), t, a) = Said(x, n, v, t, a, f, s, r)
    /\ WithNumbers(Said(x, n, v, l, a, f, s, r), l, t) = Said(x, n, v, l, t, f, s, r)
    /\ WithSets(Said(x, n, v, l, a, f, s, r), t, s) = Said(x, n, v, l, a, t, s, r)
    /\ WithSets(Said(x, n, v, l, a, f, s, r), f, t) = Said(x, n, v, l, a, f, t, r)
    /\ WithRenewal(Said(x, n, v, l, a, f, s, r)) = Said(x, n, v, l, a, f, s, TRUE)

LEMMA SaidIs ==
    ASSUME NEW x, NEW n, NEW v, NEW l, NEW a, NEW f, NEW s, NEW r, NEW t
    PROVE  Saying(x, n, v, l, a, f, s, r, t)
<1> DEFINE c == Said(x, n, v, l, a, f, s, r)
<1>1. /\ c.life = l /\ c.client = a /\ c.first = f /\ c.second = s /\ c.renewal = r
      /\ c.text = [id \in TextIds |-> IF id = "STATION_ID" THEN x
                                      ELSE IF id = "NETWORK_ID" THEN n ELSE v]
  BY DEF Said
<1> HIDE DEF c
<1>2. \A id \in TextIds : c.text[id] = IF id = "STATION_ID" THEN x
                                       ELSE IF id = "NETWORK_ID" THEN n ELSE v
  BY <1>1
<1>3. [id \in TextIds |-> IF id = "STATION_ID" THEN t ELSE c.text[id]]
         = [id \in TextIds |-> IF id = "STATION_ID" THEN t ELSE IF id = "NETWORK_ID" THEN n ELSE v]
  BY <1>2
<1>4. [id \in TextIds |-> IF id = "NETWORK_ID" THEN t ELSE c.text[id]]
         = [id \in TextIds |-> IF id = "STATION_ID" THEN x ELSE IF id = "NETWORK_ID" THEN t ELSE v]
  BY <1>2
<1>5. [id \in TextIds |-> IF id = "VENDOR" THEN t ELSE c.text[id]]
         = [id \in TextIds |-> IF id = "STATION_ID" THEN x ELSE IF id = "NETWORK_ID" THEN n ELSE t]
  BY <1>2 DEF TextIds
<1>6. /\ WithText(c, "STATION_ID", t) = Said(t, n, v, l, a, f, s, r)
      /\ WithText(c, "NETWORK_ID", t) = Said(x, t, v, l, a, f, s, r)
      /\ WithText(c, "VENDOR", t) = Said(x, n, t, l, a, f, s, r)
  BY <1>1, <1>3, <1>4, <1>5, Zenon DEF WithText, Said
<1>7. /\ WithNumbers(c, t, a) = Said(x, n, v, t, a, f, s, r)
      /\ WithNumbers(c, l, t) = Said(x, n, v, l, t, f, s, r)
      /\ WithSets(c, t, s) = Said(x, n, v, l, a, t, s, r)
      /\ WithSets(c, f, t) = Said(x, n, v, l, a, f, t, r)
      /\ WithRenewal(c) = Said(x, n, v, l, a, f, s, TRUE)
  BY <1>1, Zenon DEF WithNumbers, WithSets, WithRenewal, Said
<1> QED BY <1>6, <1>7 DEF c, Saying

LEMMA SaidFields ==
    ASSUME NEW x, NEW n, NEW v, NEW l, NEW a, NEW f, NEW s, NEW r, NEW c,
           c = Said(x, n, v, l, a, f, s, r)
    PROVE  /\ c.text["STATION_ID"] = x /\ c.text["NETWORK_ID"] = n /\ c.text["VENDOR"] = v
           /\ c.life = l /\ c.client = a /\ c.first = f /\ c.second = s /\ c.renewal = r
BY DEF Said, TextIds

LEMMA SaysText ==
    ASSUME NEW B, NEW p, NEW x, NEW n, NEW v, NEW l, NEW a, NEW f, NEW r,
           Carries(B, p, Said(x, n, v, l, a, f, None, r)), NEW t \in Texts \cup {None}
    PROVE  /\ x = None => Carries(B, addStation(p, t), Said(t, n, v, l, a, f, None, r))
           /\ n = None => Carries(B, addNetwork(p, t), Said(x, t, v, l, a, f, None, r))
           /\ v = None => Carries(B, addVendor(p, t), Said(x, n, t, l, a, f, None, r))
<1> DEFINE c == Said(x, n, v, l, a, f, None, r)
<1>1. c.text["STATION_ID"] = x /\ c.text["NETWORK_ID"] = n /\ c.text["VENDOR"] = v
      /\ c.second = None /\ Carries(B, p, c)
  BY SaidFields
<1>2. /\ WithText(c, "STATION_ID", t) = Said(t, n, v, l, a, f, None, r)
      /\ WithText(c, "NETWORK_ID", t) = Said(x, t, v, l, a, f, None, r)
      /\ WithText(c, "VENDOR", t) = Said(x, n, t, l, a, f, None, r)
  <2>1. Saying(x, n, v, l, a, f, None, r, t)
    BY SaidIs
  <2> QED BY <2>1 DEF Saying
<1>3. CASE t = None
  BY <1>3 DEF addStation, addNetwork, addVendor
<1>4. CASE t # None
  <2> HIDE DEF c
  <2>1. t \in Texts
    BY <1>4
  <2>2. \A id \in TextIds : c.text[id] = None =>
            Carries(B, addPar(p, ParOf(id, Letters[t] % 256, t), {FlagOf[id]}), WithText(c, id, t))
    BY <1>1, <2>1, CarriesText
  <2>3. x = None => Carries(B, addStation(p, t), WithText(c, "STATION_ID", t))
    BY <1>1, <1>4, <2>2, FlagNames DEF addStation, TextIds
  <2>4. n = None => Carries(B, addNetwork(p, t), WithText(c, "NETWORK_ID", t))
    BY <1>1, <1>4, <2>2, FlagNames DEF addNetwork, TextIds
  <2>5. v = None => Carries(B, addVendor(p, t), WithText(c, "VENDOR", t))
    BY <1>1, <1>4, <2>2, FlagNames DEF addVendor, TextIds
  <2> QED BY <1>2, <2>3, <2>4, <2>5
<1> QED BY <1>3, <1>4

LEMMA SaysNumber ==
    ASSUME NEW B, NEW p, NEW x, NEW n, NEW v, NEW l, NEW a, NEW f, NEW r,
           Carries(B, p, Said(x, n, v, l, a, f, None, r)), NEW t \in Nat
    PROVE  /\ l = None => Carries(B, addLifetime(p, t), Said(x, n, v, t, a, f, None, r))
           /\ a = 0 => Carries(B, addClientAddr(p, t), Said(x, n, v, l, t, f, None, r))
<1> DEFINE c == Said(x, n, v, l, a, f, None, r)
<1>1. c.life = l /\ c.client = a /\ c.second = None /\ Carries(B, p, c)
  BY SaidFields
<1>2. /\ WithNumbers(c, t, a) = Said(x, n, v, t, a, f, None, r)
      /\ WithNumbers(c, l, t) = Said(x, n, v, l, t, f, None, r)
  <2>1. Saying(x, n, v, l, a, f, None, r, t)
    BY SaidIs
  <2> QED BY <2>1 DEF Saying
<1> HIDE DEF c
<1>3. l = None => Carries(B, addLifetime(p, t), WithNumbers(c, t, a))
  BY <1>1, CarriesLife
<1>4. a = 0 => Carries(B, addClientAddr(p, t), WithNumbers(c, l, t))
  BY <1>1, CarriesClient
<1> QED BY <1>2, <1>3, <1>4

LEMMA SlapTypeIs == \A s : slapType(s) = Slap(conf.build, s)
BY DEF slapType, Slap

LEMMA SaysSet ==
    ASSUME NEW p, NEW x, NEW n, NEW v, NEW l, NEW a, NEW f, NEW r,
           Carries(conf.build, p, Said(x, n, v, l, a, f, None, r)), NEW s \in Sets
    PROVE  /\ f = None => Carries(conf.build, addOwnSet(p, s), Said(x, n, v, l, a, s, None, r))
           /\ f # None /\ n = None /\ v = None
                 => Carries(conf.build, addMacSet(p, s, {}), Said(x, n, v, l, a, f, s, r))
<1> DEFINE c == Said(x, n, v, l, a, f, None, r)
<1>1. /\ c.first = f /\ c.second = None /\ Carries(conf.build, p, c)
      /\ c.text["NETWORK_ID"] = n /\ c.text["VENDOR"] = v
  BY SaidFields
<1>2. /\ WithSets(c, s, None) = Said(x, n, v, l, a, s, None, r)
      /\ WithSets(c, f, s) = Said(x, n, v, l, a, f, s, r)
  <2>1. Saying(x, n, v, l, a, f, None, r, s)
    BY SaidIs
  <2> QED BY <2>1 DEF Saying
<1> HIDE DEF c
<1>3. f = None => Carries(conf.build, addOwnSet(p, s), WithSets(c, s, None))
  BY <1>1, CarriesSets, SlapTypeIs DEF addOwnSet
<1>4. n = None /\ v = None => Used(c) < MaxPar
  <2>1. c \in Contents /\ "VENDOR" \in TextIds
    BY <1>1 DEF Carries, TextIds
  <2> QED BY <1>1, <2>1, UsedIsSmall
<1>5. f # None /\ n = None /\ v = None => Carries(conf.build, addMacSet(p, s, {}), WithSets(c, f, s))
  BY <1>1, <1>4, CarriesSets
<1> QED BY <1>2, <1>3, <1>5

LEMMA SaysNothing ==
    ASSUME NEW B, NEW type \in MsgTypes, NEW status \in StatusCodes
    PROVE  Carries(B, NewPacket(type, status), Said(None, None, None, None, 0, None, None, FALSE))
<1>1. Nothing = Said(None, None, None, None, 0, None, None, FALSE)
  BY DEF Nothing, Said
<1> QED BY <1>1, CarriesNothing

----------------------------------------------------------------------------
(* What the getters and check find in a packet that has a content.             *)
LEMMA SlotIs ==
    ASSUME NEW p \in PacketType, NEW id, NEW v, NEW none, Slot(p, id, v, none)
    PROVE  First(p, id, none) = v /\ Count(p, id) = IF v = none THEN 0 ELSE 1
<1>1. CASE v = none
  <2>1. ParsOf(p, id) = {}
    BY <1>1 DEF Slot
  <2> QED BY <1>1, <2>1, FS_EmptySet DEF First, Count
<1>2. CASE v # none
  <2>1. PICK i \in 1 .. Len(p.pars) : ParsOf(p, id) = {i} /\ p.pars[i].val = v
    BY <1>2 DEF Slot
  <2>2. i \in Int
    BY DEF PacketType
  <2>3. Least(ParsOf(p, id)) = i
    <3>1. {i} \in SUBSET Int /\ \A y \in {i} : i <= y
      BY <2>2
    <3>2. Least({i}) = i
      BY <3>1, LeastIs
    <3> QED BY <2>1, <3>2
  <2>4. Cardinality(ParsOf(p, id)) = 1
    BY <2>1, FS_Singleton
  <2>5. First(p, id, none) = v
    BY <2>1, <2>3 DEF First
  <2> QED BY <1>2, <2>4, <2>5 DEF Count
<1> QED BY <1>1, <1>2

LEMMA SetSlotsAre ==
    ASSUME NEW p \in PacketType, NEW s, NEW t, SetSlots(p, s, t)
    PROVE  /\ First(p, "MAC_ADDR_SET", None) = s
           /\ Count(p, "MAC_ADDR_SET") = IF s = None THEN 0 ELSE IF t = None THEN 1 ELSE 2
           /\ SetsOf(p) = {} <=> s = None
           /\ LaterSets(p) = {} <=> t = None
           /\ s # None => Least(SetsOf(p)) \in SetsOf(p) /\ p.pars[Least(SetsOf(p))].val = s
           /\ t # None => Least(LaterSets(p)) \in SetsOf(p) /\ p.pars[Least(LaterSets(p))].val = t
           /\ \A i \in SetsOf(p) : p.pars[i].val = IF i \in LaterSets(p) THEN t ELSE s
<1>1. CASE s = None
  <2>1. t = None /\ SetsOf(p) = {} /\ LaterSets(p) = {} /\ ParsOf(p, "MAC_ADDR_SET") = {}
    BY <1>1 DEF SetSlots, LaterSets, SetsOf
  <2> QED BY <1>1, <2>1, FS_EmptySet DEF First, Count
<1>2. CASE s # None
  <2>1. PICK i \in 1 .. Len(p.pars) :
          /\ p.pars[i].val = s
          /\ IF t = None THEN SetsOf(p) = {i}
             ELSE \E j \in 1 .. Len(p.pars) : SetsOf(p) = {i, j} /\ i < j /\ p.pars[j].val = t
    BY <1>2 DEF SetSlots
  <2>2. i \in Int
    BY DEF PacketType
  <2>3. CASE t = None
    <3>1. SetsOf(p) = {i} /\ ParsOf(p, "MAC_ADDR_SET") = {i}
      BY <2>1, <2>3 DEF SetsOf
    <3>2. LaterSets(p) = {}
      BY <2>2, <3>1 DEF LaterSets
    <3>3. Least(SetsOf(p)) = i /\ Least(ParsOf(p, "MAC_ADDR_SET")) = i
      BY <2>2, <3>1, LeastIs
    <3>4. Cardinality(ParsOf(p, "MAC_ADDR_SET")) = 1
      BY <3>1, FS_Singleton
    <3> QED BY <1>2, <2>1, <2>3, <3>1, <3>2, <3>3, <3>4 DEF First, Count
  <2>4. CASE t # None
    <3>1. PICK j \in 1 .. Len(p.pars) : SetsOf(p) = {i, j} /\ i < j /\ p.pars[j].val = t
      BY <2>1, <2>4
    <3>2. ParsOf(p, "MAC_ADDR_SET") = {i, j} /\ j \in Int
      BY <3>1 DEF SetsOf, PacketType
    <3>3. LaterSets(p) = {j}
      BY <2>2, <3>1, <3>2 DEF LaterSets
    <3>4. Least(SetsOf(p)) = i /\ Least(ParsOf(p, "MAC_ADDR_SET")) = i
      <4>1. {i, j} \in SUBSET Int /\ \A y \in {i, j} : i <= y
        BY <2>2, <3>1, <3>2
      <4>2. Least({i, j}) = i
        BY <4>1, LeastIs
      <4> QED BY <3>1, <3>2, <4>2
    <3>5. Least(LaterSets(p)) = j
      BY <3>2, <3>3, LeastIs
    <3>6. Cardinality(ParsOf(p, "MAC_ADDR_SET")) = 2
      <4>1. i # j
        BY <2>2, <3>1, <3>2
      <4>2. PICK S : S = {i}
        OBVIOUS
      <4>3. IsFiniteSet(S) /\ Cardinality(S) = 1 /\ j \notin S
        BY <4>1, <4>2, FS_Singleton
      <4>4. Cardinality(S \cup {j}) = 2
        <5>1. Cardinality(S \cup {j}) = Cardinality(S) + 1
          BY <4>3, FS_AddElement, Zenon
        <5> QED BY <4>3, <5>1
      <4>5. S \cup {j} = {i, j}
        BY <4>2
      <4> QED BY <3>2, <4>4, <4>5
    <3>7. \A k \in SetsOf(p) : p.pars[k].val = IF k \in LaterSets(p) THEN t ELSE s
      BY <2>1, <2>2, <3>1, <3>2, <3>3
    <3>8. First(p, "MAC_ADDR_SET", None) = s
      BY <2>1, <3>2, <3>4 DEF First
    <3> QED BY <1>2, <2>1, <2>4, <3>1, <3>3, <3>4, <3>5, <3>6, <3>7, <3>8 DEF Count
  <2> QED BY <2>3, <2>4
<1> QED BY <1>1, <1>2

LEMMA Getters ==
    ASSUME NEW B, NEW p, NEW c, Carries(B, p, c)
    PROVE  /\ getStationId(p) = c.text["STATION_ID"] /\ First(p, "STATION_ID", None) = c.text["STATION_ID"]
           /\ getNetworkId(p) = c.text["NETWORK_ID"] /\ First(p, "NETWORK_ID", None) = c.text["NETWORK_ID"]
           /\ getVendorVar(p) = c.text["VENDOR"] /\ First(p, "VENDOR", None) = c.text["VENDOR"]
           /\ getLifetime(p) = (IF c.life = None THEN 0 ELSE c.life) /\ getClientAddr(p) = c.client
           /\ getSet(p) = c.first /\ getSecondSet(p) = c.second
           /\ "RENEWAL" \in p.cw <=> c.renewal
<1>1. /\ p \in PacketType /\ c \in Contents /\ p.cw = FlagsOf(B, p.type, p.status, c)
      /\ (\A id \in TextIds : Slot(p, id, c.text[id], None))
      /\ Slot(p, "LIFETIME", c.life, None) /\ Slot(p, "CLIENT_ADDR", c.client, 0)
      /\ SetSlots(p, c.first, c.second)
  BY DEF Carries, Shaped
<1>2. c.first # None => Slap(B, c.first) \subseteq SlapBits
  BY <1>1, SlapIsFlag DEF Contents
<1>3. /\ "STATIONID" \in p.cw <=> c.text["STATION_ID"] # None
      /\ "NETWORKID" \in p.cw <=> c.text["NETWORK_ID"] # None
      /\ "VENDOR" \in p.cw <=> c.text["VENDOR"] # None
      /\ "SETPROV" \in p.cw <=> c.first # None
      /\ "RENEWAL" \in p.cw <=> c.renewal
  <2>1. \A id \in TextIds : FlagOf[id] = IF id = "STATION_ID" THEN "STATIONID"
                                        ELSE IF id = "NETWORK_ID" THEN "NETWORKID" ELSE "VENDOR"
    BY FlagNames DEF TextIds
  <2> QED BY <1>1, <1>2, <2>1 DEF FlagsOf, SlapBits, TextIds
<1>4. \A id \in TextIds : First(p, id, None) = c.text[id]
  BY <1>1, SlotIs
<1>5. First(p, "LIFETIME", None) = c.life /\ First(p, "CLIENT_ADDR", 0) = c.client
  BY <1>1, SlotIs
<1>6. getLifetime(p) = IF c.life = None THEN 0 ELSE c.life
  <2>1. CASE c.life = None
    BY <1>1, <2>1 DEF getLifetime, First, Slot
  <2>2. CASE c.life # None
    BY <1>1, <1>5, <2>2 DEF getLifetime, First, Slot
  <2> QED BY <2>1, <2>2
<1>7. /\ First(p, "MAC_ADDR_SET", None) = c.first
      /\ LaterSets(p) = {} <=> c.second = None
      /\ c.second # None => p.pars[Least(LaterSets(p))].val = c.second
  BY <1>1, SetSlotsAre
<1>8. getSet(p) = c.first /\ getSecondSet(p) = c.second
  <2>1. c.first = None => c.second = None
    BY <1>1 DEF SetSlots
  <2> QED BY <1>3, <1>7, <2>1 DEF getSet, getSecondSet
<1>9. /\ getStationId(p) = c.text["STATION_ID"] /\ getNetworkId(p) = c.text["NETWORK_ID"]
      /\ getVendorVar(p) = c.text["VENDOR"]
  BY <1>3, <1>4 DEF TextIds, getStationId, getNetworkId, getVendorVar
<1> QED BY <1>3, <1>4, <1>5, <1>6, <1>8, <1>9 DEF getClientAddr, TextIds

----------------------------------------------------------------------------
(* What comes out of the buffer carries what went in, with each set as it is   *)
(* on the line.                                                                *)
Got(s) == IF s = None THEN None ELSE Cut(s)
Heard(c) == WithSets(c, Got(c.first), Got(c.second))

LEMMA RoomIsSmall ==
    ASSUME NEW c \in Contents
    PROVE  /\ Room(c) \in 0 .. 813
           /\ c.second = None => Room(c) <= 795
           /\ c.text["NETWORK_ID"] = None /\ c.text["VENDOR"] = None => Room(c) <= 303
<1>1. PICK u \in 0 .. 255 : u = Takes(c.text["STATION_ID"], None, 255)
  BY TakesType
<1>2. PICK v \in 0 .. 255 : v = Takes(c.text["NETWORK_ID"], None, 255)
                            /\ (c.text["NETWORK_ID"] = None => v = 0)
  BY TakesType
<1>3. PICK w \in 0 .. 255 : w = Takes(c.text["VENDOR"], None, 255)
                            /\ (c.text["VENDOR"] = None => w = 0)
  BY TakesType
<1>4. PICK x \in 0 .. 4 : x = Takes(c.life, None, 4)
  BY TakesType
<1>5. PICK y \in 0 .. 8 : y = Takes(c.client, 0, 8)
  BY TakesType
<1>6. PICK z \in 0 .. 18 : z = Takes(c.first, None, 18)
  BY TakesType
<1>7. PICK r \in 0 .. 18 : r = Takes(c.second, None, 18) /\ (c.second = None => r = 0)
  BY TakesType
<1>8. Room(c) = u + v + w + x + y + z + r
  BY <1>1, <1>2, <1>3, <1>4, <1>5, <1>6, <1>7 DEF Room, Total
<1>9. c.second = None => r = 0
  BY <1>7
<1>10. c.text["NETWORK_ID"] = None /\ c.text["VENDOR"] = None => v = 0 /\ w = 0
  BY <1>2, <1>3
<1> QED BY <1>8, <1>9, <1>10

LEMMA HeardIs ==
    ASSUME NEW c \in Contents
    PROVE  /\ Heard(c) \in Contents /\ Used(Heard(c)) = Used(c) /\ Room(Heard(c)) = Room(c)
           /\ Heard(c).text = c.text /\ Heard(c).life = c.life /\ Heard(c).client = c.client
           /\ Heard(c).renewal = c.renewal
           /\ Heard(c).first = Got(c.first) /\ Heard(c).second = Got(c.second)
           /\ Got(c.first) = None <=> c.first = None
           /\ Got(c.second) = None <=> c.second = None
           /\ \A B : c.first # None => Slap(B, Got(c.first)) = Slap(B, c.first)
<1>1. \A s \in Sets \cup {None} : Got(s) \in Sets \cup {None} /\ (Got(s) = None <=> s = None)
                                  /\ (s # None => Got(s).kind = s.kind)
  BY CutIs, NoneAssumption DEF Got
<1>2. c.first \in Sets \cup {None} /\ c.second \in Sets \cup {None}
  BY DEF Contents
<1>3. /\ Heard(c).text = c.text /\ Heard(c).life = c.life /\ Heard(c).client = c.client
      /\ Heard(c).renewal = c.renewal
      /\ Heard(c).first = Got(c.first) /\ Heard(c).second = Got(c.second)
  BY DEF Heard, WithSets
<1>4. \A n : Takes(Got(c.first), None, n) = Takes(c.first, None, n)
             /\ Takes(Got(c.second), None, n) = Takes(c.second, None, n)
  BY <1>1, <1>2 DEF Takes
<1>5. Used(Heard(c)) = Used(c) /\ Room(Heard(c)) = Room(c)
  BY <1>3, <1>4 DEF Used, Room, Total
<1>6. Heard(c) \in Contents
  BY <1>1, <1>2, MoreContents DEF Heard
<1>7. \A B : c.first # None => Slap(B, Got(c.first)) = Slap(B, c.first)
  BY <1>1, <1>2 DEF Slap
<1> QED BY <1>1, <1>2, <1>3, <1>5, <1>6, <1>7

LEMMA ComesThrough ==
    ASSUME NEW B, NEW p, NEW c, Carries(B, p, c), NEW h, h = Parsed(ToBuffer(p))
    PROVE  /\ Carries(B, h, Heard(c)) /\ h.type = p.type /\ h.status = p.status
           /\ Len(h.pars) = Len(p.pars) /\ h.cw = p.cw
           /\ \A i \in 1 .. Len(p.pars) : h.pars[i] = CutPar(p.pars[i])
           /\ \A id : ParsOf(h, id) = ParsOf(p, id)
           /\ ToBuffer(p) \in FrameType
<1> DEFINE n == Len(p.pars)
           w == ToBuffer(p)
           d == Heard(c)
<1>1. /\ p \in PacketType /\ c \in Contents /\ p.length = HeaderSize + Bytes(p.pars)
      /\ (\A i \in 1 .. n : GoodPar(p.pars[i])) /\ n = Used(c) /\ p.length <= HeaderSize + Room(c)
      /\ p.cw = FlagsOf(B, p.type, p.status, c)
  BY DEF Carries, Shaped
<1>2. /\ p.type \in MsgTypes /\ p.status \in StatusCodes /\ p.cw \in SUBSET ControlBits
      /\ p.length \in Nat /\ p.pars \in Seq(Pars) /\ n \in Nat
  BY <1>1 DEF PacketType
<1>3. p.length % 2 ^ 12 = p.length
  <2>1. PICK r \in 0 .. 813 : r = Room(c)
    <3>1. Room(c) \in 0 .. 813
      BY <1>1, RoomIsSmall
    <3> QED BY <3>1
  <2>2. PICK l \in Nat : l = p.length
    BY <1>2
  <2>3. l <= 8 + r
    BY <1>1, <2>1, <2>2 DEF HeaderSize
  <2>4. 2 ^ 12 = 4096
    OBVIOUS
  <2>5. l % 4096 = l
    BY <2>3
  <2> QED BY <2>2, <2>4, <2>5
<1>4. \A i \in 1 .. n :
         /\ ReadPar(OnLine(p.pars[i])) = CutPar(p.pars[i]) /\ GoodPar(CutPar(p.pars[i]))
         /\ OnLine(p.pars[i]) \in Pars /\ CutPar(p.pars[i]).len = p.pars[i].len
         /\ CutPar(p.pars[i]).id = p.pars[i].id
  BY <1>1, ParComesThrough
<1>5. w = [type |-> p.type, status |-> p.status, cw |-> p.cw, length |-> p.length,
           bytes |-> MinSize + Bytes(p.pars), pars |-> [i \in 1 .. n |-> OnLine(p.pars[i])]]
  BY <1>3 DEF ToBuffer
<1>6. w.pars = [i \in 1 .. n |-> OnLine(p.pars[i])] /\ w.pars \in Seq(Pars) /\ Len(w.pars) = n
  BY <1>2, <1>4, <1>5
<1>7. w \in FrameType
  <2>1. MinSize + Bytes(p.pars) \in Nat
    <3>1. Bytes(p.pars) \in Nat
      BY <1>2, BytesType
    <3> QED BY <3>1 DEF MinSize, HeaderSize
  <2> QED BY <1>2, <1>5, <1>6, <2>1 DEF FrameType
<1> HIDE DEF w
<1>8. h = [type |-> p.type, status |-> p.status, cw |-> p.cw, length |-> p.length,
           pars |-> [i \in 1 .. n |-> CutPar(p.pars[i])]]
  <2>1. [i \in 1 .. Len(w.pars) |-> ReadPar(w.pars[i])] = [i \in 1 .. n |-> CutPar(p.pars[i])]
    BY <1>4, <1>6
  <2>2. w.type = p.type /\ w.status = p.status /\ w.cw = p.cw /\ w.length = p.length
    BY <1>5
  <2> QED BY <2>1, <2>2 DEF Parsed, w
<1>9. \A i \in 1 .. n : CutPar(p.pars[i]) \in Pars
  BY <1>4, ParComesThrough
<1>10. /\ h.type = p.type /\ h.status = p.status /\ h.cw = p.cw /\ h.length = p.length
       /\ h.pars \in Seq(Pars) /\ Len(h.pars) = n
       /\ \A i \in 1 .. n : h.pars[i] = CutPar(p.pars[i])
  BY <1>2, <1>8, <1>9
<1>11. h \in PacketType
  BY <1>2, <1>8, <1>10 DEF PacketType
<1>12. \A id : ParsOf(h, id) = ParsOf(p, id)
  BY <1>4, <1>10 DEF ParsOf
<1>13. Bytes(h.pars) = Bytes(p.pars)
  <2>1. ASSUME NEW i \in Nat \ {0} PROVE ParBytes(h.pars, i) = ParBytes(p.pars, i)
    <3>1. CASE i <= n
      <4>1. i \in 1 .. n
        BY <3>1
      <4> QED BY <1>4, <1>10, <3>1, <4>1 DEF ParBytes
    <3>2. CASE ~(i <= n)
      BY <1>10, <3>2 DEF ParBytes
    <3> QED BY <3>1, <3>2
  <2>2. /\ ParBytes(h.pars, 1) = ParBytes(p.pars, 1) /\ ParBytes(h.pars, 2) = ParBytes(p.pars, 2)
        /\ ParBytes(h.pars, 3) = ParBytes(p.pars, 3) /\ ParBytes(h.pars, 4) = ParBytes(p.pars, 4)
        /\ ParBytes(h.pars, 5) = ParBytes(p.pars, 5)
        /\ ParBytes(h.pars, MaxPar) = ParBytes(p.pars, MaxPar)
    BY <2>1 DEF MaxPar
  <2> QED BY <2>2, Zenon DEF Bytes
<1>14. Shaped(h)
  BY <1>1, <1>4, <1>10, <1>11, <1>13 DEF Shaped
<1>15. /\ d \in Contents /\ Used(d) = Used(c) /\ Room(d) = Room(c)
       /\ d.text = c.text /\ d.life = c.life /\ d.client = c.client /\ d.renewal = c.renewal
       /\ d.first = Got(c.first) /\ d.second = Got(c.second)
       /\ d.first = None <=> c.first = None
       /\ d.second = None <=> c.second = None
       /\ c.first # None => Slap(B, d.first) = Slap(B, c.first)
  BY <1>1, HeardIs
<1> HIDE DEF d
<1>16. h.cw = FlagsOf(B, h.type, h.status, d)
  <2>1. (IF d.first = None THEN {} ELSE {"SETPROV"} \cup Slap(B, d.first))
           = (IF c.first = None THEN {} ELSE {"SETPROV"} \cup Slap(B, c.first))
    BY <1>15
  <2>2. FlagsOf(B, p.type, p.status, d) = FlagsOf(B, p.type, p.status, c)
    BY <1>15, <2>1, Zenon DEF FlagsOf
  <2> QED BY <1>1, <1>10, <2>2
<1>17. ASSUME NEW id, NEW v, NEW none, id # "MAC_ADDR_SET", Slot(p, id, v, none)
       PROVE  Slot(h, id, v, none)
  <2>1. CASE v = none
    BY <1>12, <1>17, <2>1 DEF Slot
  <2>2. CASE v # none
    <3>1. PICK i \in 1 .. n : ParsOf(p, id) = {i} /\ p.pars[i].val = v
      BY <1>17, <2>2 DEF Slot
    <3>2. p.pars[i].id = id
      BY <3>1 DEF ParsOf
    <3>3. h.pars[i] = p.pars[i]
      BY <1>10, <1>17, <3>2 DEF CutPar
    <3> QED BY <1>10, <1>12, <2>2, <3>1, <3>3 DEF Slot
  <2> QED BY <2>1, <2>2
<1>18. ASSUME NEW i \in SetsOf(p) PROVE h.pars[i].val = Cut(p.pars[i].val)
  <2>1. i \in 1 .. n /\ p.pars[i].id = "MAC_ADDR_SET"
    BY <1>18 DEF SetsOf, ParsOf
  <2>2. p.pars[i] \in Pars
    BY <1>2, <2>1
  <2>3. [p.pars[i] EXCEPT !.val = Cut(@)].val = Cut(p.pars[i].val)
    BY <2>2 DEF Pars
  <2> QED BY <1>10, <2>1, <2>3 DEF CutPar
<1>19. SetSlots(h, d.first, d.second)
  <2>1. SetSlots(p, c.first, c.second) /\ SetsOf(h) = SetsOf(p)
    BY <1>12 DEF Carries, SetsOf
  <2>2. CASE c.first = None
    BY <1>15, <2>1, <2>2 DEF SetSlots
  <2>3. CASE c.first # None /\ c.second = None
    <3>1. PICK i \in 1 .. n : p.pars[i].val = c.first /\ SetsOf(p) = {i}
      BY <2>1, <2>3 DEF SetSlots
    <3>2. h.pars[i].val = d.first /\ d.first # None /\ d.second = None
      BY <1>15, <1>18, <2>3, <3>1 DEF Got
    <3> QED BY <1>10, <2>1, <3>1, <3>2 DEF SetSlots
  <2>4. CASE c.first # None /\ c.second # None
    <3>1. PICK i \in 1 .. n : p.pars[i].val = c.first
               /\ \E j \in 1 .. n : SetsOf(p) = {i, j} /\ i < j /\ p.pars[j].val = c.second
      BY <2>1, <2>4 DEF SetSlots
    <3>2. PICK j \in 1 .. n : SetsOf(p) = {i, j} /\ i < j /\ p.pars[j].val = c.second
      BY <3>1
    <3>3. h.pars[i].val = d.first /\ h.pars[j].val = d.second /\ d.first # None /\ d.second # None
      BY <1>15, <1>18, <2>4, <3>1, <3>2 DEF Got
    <3> QED BY <1>10, <2>1, <3>2, <3>3 DEF SetSlots
  <2> QED BY <2>2, <2>3, <2>4
<1>20. Slot(h, "LIFETIME", d.life, None) /\ Slot(h, "CLIENT_ADDR", d.client, 0)
       /\ \A id \in TextIds : Slot(h, id, d.text[id], None)
  BY <1>15, <1>17 DEF Carries, TextIds
<1>21. Len(h.pars) = Used(d) /\ h.length <= HeaderSize + Room(d)
  BY <1>1, <1>10, <1>15
<1>22. Carries(B, h, d)
  BY <1>14, <1>15, <1>16, <1>19, <1>20, <1>21 DEF Carries
<1> QED BY <1>7, <1>10, <1>12, <1>22 DEF d, w

----------------------------------------------------------------------------
(* What a client of the station own, and the servers and clients that answer   *)
(* it, may say in a message.                                                   *)
Fitting(own, type, status, c) ==
    /\ status # "NO_CODE" => type = "ACK"
    /\ type # "DEFEND" => c.text["STATION_ID"] = own
    /\ c.text["STATION_ID"] \in {own, None}
    /\ c.text["NETWORK_ID"] # None => type = "OFFER"
    /\ c.text["VENDOR"] # None => type \in {"DISCOVER", "OFFER"}
    /\ c.client # 0 => type = "OFFER"
    /\ c.renewal => type = "REQUEST"
    /\ type \in {"DISCOVER", "REQUEST", "RELEASE"} => c.life = None
    /\ type \in {"OFFER", "DEFEND", "ANNOUNCE"} => c.life # None
    /\ type \notin {"DISCOVER", "ACK"} => c.first # None
    /\ c.second # None <=> type = "DEFEND"
    /\ c.second # None => c.second.kind = c.first.kind
    /\ c.first # None /\ Large(c.first) => type = "ACK" /\ status = "ALTERNATE_SET"

LEMMA FittingHeard ==
    ASSUME NEW c \in Contents, NEW own, NEW type, NEW status, Fitting(own, type, status, c)
    PROVE  Fitting(own, type, status, Heard(c))
           /\ (Heard(c).first # None => ~Large(Heard(c).first))
           /\ (Heard(c).second # None => ~Large(Heard(c).second))
<1>1. c.first \in Sets \cup {None} /\ c.second \in Sets \cup {None}
  BY DEF Contents
<1>2. \A s \in Sets : Cut(s).kind = s.kind /\ ~Large(Cut(s))
  BY CutIs
<1>3. \A s \in Sets \cup {None} : s # None => Got(s).kind = s.kind /\ ~Large(Got(s))
  BY <1>2 DEF Got
<1>4. /\ Heard(c).text = c.text /\ Heard(c).life = c.life /\ Heard(c).client = c.client
      /\ Heard(c).renewal = c.renewal
      /\ Heard(c).first = Got(c.first) /\ Heard(c).second = Got(c.second)
      /\ Got(c.first) = None <=> c.first = None
      /\ Got(c.second) = None <=> c.second = None
  BY HeardIs
<1>5. c.second # None => c.first # None
  BY DEF Fitting
<1> QED BY <1>1, <1>3, <1>4, <1>5 DEF Fitting

LEMMA ParsesUnlessShort ==
    ASSUME NEW B, NEW p, NEW c, Carries(B, p, c), NEW own, Fitting(own, p.type, p.status, c)
    PROVE  Parses(ToBuffer(p)) <=> ~\E i \in TextsOf(p) : p.pars[i].len < 2
<1> DEFINE n == Len(p.pars)
           w == ToBuffer(p)
<1>1. /\ p \in PacketType /\ c \in Contents /\ p.length = HeaderSize + Bytes(p.pars)
      /\ (\A i \in 1 .. n : GoodPar(p.pars[i])) /\ n = Used(c) /\ p.length <= HeaderSize + Room(c)
  BY DEF Carries, Shaped
<1>2. p.length \in Nat /\ p.pars \in Seq(Pars) /\ n \in Nat
  BY <1>1 DEF PacketType
<1>3. Room(c) \in 0 .. 797
  <2>1. \/ c.second = None
        \/ c.text["NETWORK_ID"] = None /\ c.text["VENDOR"] = None
    BY DEF Fitting
  <2>2. Room(c) \in 0 .. 813 /\ (Room(c) <= 795 \/ Room(c) <= 303)
    BY <1>1, <2>1, RoomIsSmall
  <2> QED BY <2>2
<1>4. PICK b \in Nat : b = Bytes(p.pars)
  BY <1>2, BytesType
<1>5. b <= 797 /\ p.length = 8 + b
  <2>1. PICK r \in 0 .. 797 : r = Room(c)
    BY <1>3
  <2>2. 8 + b <= 8 + r
    BY <1>1, <1>4, <2>1 DEF HeaderSize
  <2>3. b <= 797
    BY <2>2
  <2> QED BY <1>1, <1>4, <2>3 DEF HeaderSize
<1>6. p.length % 2 ^ 12 = 8 + b
  <2>1. 2 ^ 12 = 4096 /\ (8 + b) % 4096 = 8 + b
    BY <1>5
  <2> QED BY <1>5, <2>1
<1>7. w.bytes = MinSize + b /\ w.length = 8 + b /\ w.pars = [i \in 1 .. n |-> OnLine(p.pars[i])]
      /\ Len(w.pars) = n
  BY <1>2, <1>4, <1>6 DEF ToBuffer
<1> HIDE DEF w
<1>8. n <= MaxPar
  <2>1. \/ c.second = None
        \/ c.text["NETWORK_ID"] = None /\ c.text["VENDOR"] = None
    BY DEF Fitting
  <2> QED BY <1>1, <2>1, UsedIsSmall
<1>9. \A i \in 1 .. n : Readable(w.pars[i]) <=> ~(p.pars[i].id \in TextIds /\ p.pars[i].len < 2)
  BY <1>1, <1>7, ParComesThrough
<1>10. w.bytes \in MinSize .. MaxSize /\ w.bytes - MinSize = w.length - HeaderSize
  BY <1>5, <1>7 DEF MinSize, MaxSize, HeaderSize
<1>11. Parses(w) <=> \A i \in 1 .. n : Readable(w.pars[i])
  BY <1>7, <1>8, <1>10 DEF Parses
<1> QED BY <1>9, <1>11, FlagNames DEF w, TextsOf

LEMMA SetFlags ==
    ASSUME NEW B, NEW p, NEW c, Carries(B, p, c), c.first # None
    PROVE  p.cw \cap ({"SETPROV"} \cup SlapBits) = {"SETPROV"} \cup Slap(B, c.first)
<1>1. c.first \in Sets /\ p.cw = FlagsOf(B, p.type, p.status, c)
  BY DEF Carries, Contents
<1>2. Slap(B, c.first) \subseteq SlapBits
  BY <1>1, SlapIsFlag
<1>3. \A id \in TextIds : FlagOf[id] \notin {"SETPROV"} \cup SlapBits
  BY FlagNames DEF TextIds, SlapBits
<1>4. "SERVER" \notin {"SETPROV"} \cup SlapBits /\ "CODEFIELD" \notin {"SETPROV"} \cup SlapBits
      /\ "RENEWAL" \notin {"SETPROV"} \cup SlapBits
  BY DEF SlapBits
<1> QED BY <1>1, <1>2, <1>3, <1>4 DEF FlagsOf

LEMMA CheckAccepts ==
    ASSUME NEW p, NEW c, Carries(conf.build, p, c), NEW own, Fitting(own, p.type, p.status, c)
    PROVE  Check(p)
<1>1. /\ p \in PacketType /\ c \in Contents /\ p.cw = FlagsOf(conf.build, p.type, p.status, c)
      /\ (\A id \in TextIds : Slot(p, id, c.text[id], None))
      /\ Slot(p, "LIFETIME", c.life, None) /\ Slot(p, "CLIENT_ADDR", c.client, 0)
      /\ SetSlots(p, c.first, c.second)
  BY DEF Carries, Shaped
<1>2. /\ \A id \in TextIds : Count(p, id) = IF c.text[id] = None THEN 0 ELSE 1
      /\ Count(p, "LIFETIME") = IF c.life = None THEN 0 ELSE 1
      /\ Count(p, "CLIENT_ADDR") = IF c.client = 0 THEN 0 ELSE 1
  BY <1>1, SlotIs
<1>3. /\ Count(p, "MAC_ADDR_SET") = IF c.first = None THEN 0 ELSE IF c.second = None THEN 1 ELSE 2
      /\ SetsOf(p) = {} <=> c.first = None
      /\ \A i \in SetsOf(p) : p.pars[i].val = IF i \in LaterSets(p) THEN c.second ELSE c.first
      /\ LaterSets(p) = {} <=> c.second = None
  BY <1>1, SetSlotsAre
<1>4. Flagged(p)
  <2>1. ASSUME NEW id \in DOMAIN FlagOf, Count(p, id) > 0 PROVE FlagOf[id] \in p.cw
    <3>1. id \in TextIds /\ c.text[id] # None
      BY <1>2, <2>1, FlagNames
    <3> QED BY <1>1, <3>1 DEF FlagsOf
  <2>2. ASSUME NEW i \in SetsOf(p)
        PROVE  p.cw \cap ({"SETPROV"} \cup SlapBits) = {"SETPROV"} \cup slapType(p.pars[i].val)
    <3>1. c.first # None /\ p.pars[i].val.kind = c.first.kind
      <4>1. p.pars[i].val = c.first \/ (p.pars[i].val = c.second /\ c.second # None)
        BY <1>3
      <4>2. c.first # None
        BY <1>3
      <4> QED BY <4>1, <4>2 DEF Fitting
    <3>2. Slap(conf.build, p.pars[i].val) = Slap(conf.build, c.first)
      BY <3>1 DEF Slap
    <3> QED BY <3>1, <3>2, SetFlags, SlapTypeIs
  <2> QED BY <2>1, <2>2 DEF Flagged
<1>5. \A id \in ParTypes \ {"MAC_ADDR_SET"} : Count(p, id) <= 1
  BY <1>2 DEF TextIds, ParTypes
<1>6. p.cw \cap Forbidden(p.type) = {}
  <2>1. p.type \in MsgTypes
    BY <1>1 DEF PacketType
  <2>2. c.first # None => Slap(conf.build, c.first) \subseteq SlapBits
    BY <1>1, SlapIsFlag DEF Contents
  <2>3. \A id \in TextIds : FlagOf[id] = IF id = "STATION_ID" THEN "STATIONID"
                                        ELSE IF id = "NETWORK_ID" THEN "NETWORKID" ELSE "VENDOR"
    BY FlagNames DEF TextIds
  <2>4. /\ "SERVER" \in p.cw => p.type \in {"OFFER", "ACK"}
        /\ "CODEFIELD" \in p.cw => p.type = "ACK"
        /\ "NETWORKID" \in p.cw => p.type = "OFFER"
        /\ "RENEWAL" \in p.cw => p.type = "REQUEST"
    BY <1>1, <2>2, <2>3 DEF FlagsOf, Fitting, TextIds, SlapBits
  <2>5. CASE p.type = "OFFER"
    BY <2>4, <2>5 DEF Forbidden
  <2>6. CASE p.type = "REQUEST"
    BY <2>4, <2>6 DEF Forbidden
  <2>7. CASE p.type = "ACK"
    BY <2>4, <2>7 DEF Forbidden
  <2>8. CASE p.type \notin {"OFFER", "REQUEST", "ACK"}
    BY <2>4, <2>8 DEF Forbidden
  <2> QED BY <2>5, <2>6, <2>7, <2>8
<1>7. /\ Count(p, "MAC_ADDR_SET") <= (IF p.type = "DEFEND" THEN 2 ELSE 1)
      /\ p.type = "DEFEND" => Count(p, "MAC_ADDR_SET") = 2
  BY <1>3 DEF Fitting
<1>8. /\ p.type \in {"DISCOVER", "REQUEST", "RELEASE"} => Count(p, "LIFETIME") = 0
      /\ p.type \in {"OFFER", "DEFEND", "ANNOUNCE"}    => Count(p, "LIFETIME") = 1
      /\ p.type \notin {"DISCOVER", "OFFER"}           => Count(p, "CLIENT_ADDR") = 0
  BY <1>2 DEF Fitting
<1> QED BY <1>4, <1>5, <1>6, <1>7, <1>8 DEF Check

----------------------------------------------------------------------------
(* The senders: what each message tells.                                       *)
Tells(p, type, status, c) == Carries(conf.build, p, c) /\ p.type = type /\ p.status = status

LEMMA SameHead ==
    ASSUME NEW p \in PacketType
    PROVE  /\ \A par, flags : addPar(p, par, flags).type = p.type
                              /\ addPar(p, par, flags).status = p.status
           /\ \A t : /\ addStation(p, t).type = p.type /\ addStation(p, t).status = p.status
                     /\ addNetwork(p, t).type = p.type /\ addNetwork(p, t).status = p.status
                     /\ addVendor(p, t).type = p.type /\ addVendor(p, t).status = p.status
                     /\ addLifetime(p, t).type = p.type /\ addLifetime(p, t).status = p.status
                     /\ addClientAddr(p, t).type = p.type /\ addClientAddr(p, t).status = p.status
                     /\ addOwnSet(p, t).type = p.type /\ addOwnSet(p, t).status = p.status
           /\ \A s, flags : addMacSet(p, s, flags).type = p.type
                            /\ addMacSet(p, s, flags).status = p.status
<1>1. ASSUME NEW par, NEW flags
      PROVE  addPar(p, par, flags).type = p.type /\ addPar(p, par, flags).status = p.status
  BY DEF addPar, PacketType
<1>2. \A s, flags : addMacSet(p, s, flags).type = p.type
                    /\ addMacSet(p, s, flags).status = p.status
  BY <1>1, Zenon DEF addMacSet
<1>3. ASSUME NEW t
      PROVE  /\ addStation(p, t).type = p.type /\ addStation(p, t).status = p.status
             /\ addNetwork(p, t).type = p.type /\ addNetwork(p, t).status = p.status
             /\ addVendor(p, t).type = p.type /\ addVendor(p, t).status = p.status
  BY <1>1 DEF addStation, addNetwork, addVendor
<1>4. ASSUME NEW t
      PROVE  /\ addLifetime(p, t).type = p.type /\ addLifetime(p, t).status = p.status
             /\ addClientAddr(p, t).type = p.type /\ addClientAddr(p, t).status = p.status
             /\ addOwnSet(p, t).type = p.type /\ addOwnSet(p, t).status = p.status
  BY <1>1, <1>2, Zenon DEF addLifetime, addClientAddr, addOwnSet
<1> QED BY <1>1, <1>2, <1>3, <1>4, Zenon

LEMMA TellsText ==
    ASSUME NEW p, NEW type, NEW status, NEW x, NEW n, NEW v, NEW l, NEW a, NEW f, NEW r,
           Tells(p, type, status, Said(x, n, v, l, a, f, None, r)), NEW t \in Texts \cup {None}
    PROVE  /\ x = None => Tells(addStation(p, t), type, status, Said(t, n, v, l, a, f, None, r))
           /\ n = None => Tells(addNetwork(p, t), type, status, Said(x, t, v, l, a, f, None, r))
           /\ v = None => Tells(addVendor(p, t), type, status, Said(x, n, t, l, a, f, None, r))
<1>1. Carries(conf.build, p, Said(x, n, v, l, a, f, None, r)) /\ p.type = type
      /\ p.status = status /\ p \in PacketType
  BY DEF Tells, Carries, Shaped
<1>2. /\ x = None => Carries(conf.build, addStation(p, t), Said(t, n, v, l, a, f, None, r))
      /\ n = None => Carries(conf.build, addNetwork(p, t), Said(x, t, v, l, a, f, None, r))
      /\ v = None => Carries(conf.build, addVendor(p, t), Said(x, n, t, l, a, f, None, r))
  BY <1>1, SaysText
<1>3. /\ addStation(p, t).type = type /\ addStation(p, t).status = status
      /\ addNetwork(p, t).type = type /\ addNetwork(p, t).status = status
      /\ addVendor(p, t).type = type /\ addVendor(p, t).status = status
  BY <1>1, SameHead
<1> QED BY <1>2, <1>3 DEF Tells

LEMMA TellsNumber ==
    ASSUME NEW p, NEW type, NEW status, NEW x, NEW n, NEW v, NEW l, NEW a, NEW f, NEW r,
           Tells(p, type, status, Said(x, n, v, l, a, f, None, r)), NEW t \in Nat
    PROVE  /\ l = None => Tells(addLifetime(p, t), type, status, Said(x, n, v, t, a, f, None, r))
           /\ a = 0 => Tells(addClientAddr(p, t), type, status, Said(x, n, v, l, t, f, None, r))
<1>1. Carries(conf.build, p, Said(x, n, v, l, a, f, None, r)) /\ p.type = type
      /\ p.status = status /\ p \in PacketType
  BY DEF Tells, Carries, Shaped
<1>2. /\ l = None => Carries(conf.build, addLifetime(p, t), Said(x, n, v, t, a, f, None, r))
      /\ a = 0 => Carries(conf.build, addClientAddr(p, t), Said(x, n, v, l, t, f, None, r))
  BY <1>1, SaysNumber
<1>3. /\ addLifetime(p, t).type = type /\ addLifetime(p, t).status = status
      /\ addClientAddr(p, t).type = type /\ addClientAddr(p, t).status = status
  BY <1>1, SameHead
<1> QED BY <1>2, <1>3 DEF Tells

LEMMA TellsSet ==
    ASSUME NEW p, NEW type, NEW status, NEW x, NEW n, NEW v, NEW l, NEW a, NEW f, NEW r,
           Tells(p, type, status, Said(x, n, v, l, a, f, None, r)), NEW s \in Sets
    PROVE  /\ f = None => Tells(addOwnSet(p, s), type, status, Said(x, n, v, l, a, s, None, r))
           /\ f # None /\ n = None /\ v = None
                 => Tells(addMacSet(p, s, {}), type, status, Said(x, n, v, l, a, f, s, r))
<1>1. Carries(conf.build, p, Said(x, n, v, l, a, f, None, r)) /\ p.type = type
      /\ p.status = status /\ p \in PacketType
  BY DEF Tells, Carries, Shaped
<1>2. /\ f = None => Carries(conf.build, addOwnSet(p, s), Said(x, n, v, l, a, s, None, r))
      /\ f # None /\ n = None /\ v = None
            => Carries(conf.build, addMacSet(p, s, {}), Said(x, n, v, l, a, f, s, r))
  BY <1>1, SaysSet
<1>3. /\ addOwnSet(p, s).type = type /\ addOwnSet(p, s).status = status
      /\ addMacSet(p, s, {}).type = type /\ addMacSet(p, s, {}).status = status
  BY <1>1, SameHead
<1> QED BY <1>2, <1>3 DEF Tells

LEMMA TellsNothing ==
    ASSUME NEW type \in MsgTypes, NEW status \in StatusCodes
    PROVE  Tells(NewPacket(type, status), type, status,
                 Said(None, None, None, None, 0, None, None, FALSE))
BY SaysNothing DEF Tells, NewPacket

Configured == /\ conf \in [station : Stations, network : Networks, vendor : Vendors,
                           build : {"operand", "result"}]

LEMMA ConfiguredTexts ==
    ASSUME Configured
    PROVE  /\ conf.station \in Texts \cup {None} /\ conf.network \in Texts \cup {None}
           /\ conf.vendor \in Texts \cup {None}
BY DEF Configured, Texts

LEMMA DiscoverTells ==
    ASSUME Configured, NEW s \in Sets \cup {None}
    PROVE  LET p == NewPacket("DISCOVER", "NO_CODE")
           IN  Tells(addVendor(addStation(IF s = None THEN p ELSE addOwnSet(p, s), conf.station),
                               conf.vendor), "DISCOVER", "NO_CODE",
                     Said(conf.station, None, conf.vendor, None, 0, s, None, FALSE))
<1> DEFINE p == NewPacket("DISCOVER", "NO_CODE")
           q == IF s = None THEN p ELSE addOwnSet(p, s)
<1>1. Tells(p, "DISCOVER", "NO_CODE", Said(None, None, None, None, 0, None, None, FALSE))
  BY TellsNothing DEF MsgTypes, StatusCodes
<1> HIDE DEF p
<1>2. Tells(q, "DISCOVER", "NO_CODE", Said(None, None, None, None, 0, s, None, FALSE))
  <2>1. CASE s = None
    BY <1>1, <2>1
  <2>2. CASE s # None
    <3>1. Tells(addOwnSet(p, s), "DISCOVER", "NO_CODE",
                Said(None, None, None, None, 0, s, None, FALSE))
      BY <1>1, <2>2, TellsSet
    <3> QED BY <2>2, <3>1
  <2> QED BY <2>1, <2>2
<1> HIDE DEF q
<1>3. Tells(addStation(q, conf.station), "DISCOVER", "NO_CODE",
            Said(conf.station, None, None, None, 0, s, None, FALSE))
  BY <1>2, TellsText, ConfiguredTexts, ZenonT(30)
<1>4. Tells(addVendor(addStation(q, conf.station), conf.vendor), "DISCOVER", "NO_CODE",
            Said(conf.station, None, conf.vendor, None, 0, s, None, FALSE))
  BY <1>3, TellsText, ConfiguredTexts, ZenonT(30)
<1> QED BY <1>4 DEF q, p

LEMMA OfferTells ==
    ASSUME Configured, NEW b \in Sets, NEW life \in Nat, NEW station \in Texts \cup {None},
           NEW a \in Nat
    PROVE  Tells(Offered(b, life, station, a), "OFFER", "NO_CODE",
                 Said(station, conf.network, conf.vendor, life, a, Prepared(b), None, FALSE))
<1> DEFINE p1 == addLifetime(NewPacket("OFFER", "NO_CODE"), life)
           p2 == addOwnSet(p1, Prepared(b))
           p3 == addStation(p2, station)
           p4 == addNetwork(p3, conf.network)
           p5 == addClientAddr(p4, a)
           p6 == addVendor(p5, conf.vendor)
<1>1. Tells(NewPacket("OFFER", "NO_CODE"), "OFFER", "NO_CODE",
            Said(None, None, None, None, 0, None, None, FALSE))
  BY TellsNothing DEF MsgTypes, StatusCodes
<1>2. Tells(p1, "OFFER", "NO_CODE", Said(None, None, None, life, 0, None, None, FALSE))
  BY <1>1, TellsNumber
<1> HIDE DEF p1
<1>3. Tells(p2, "OFFER", "NO_CODE", Said(None, None, None, life, 0, Prepared(b), None, FALSE))
  BY <1>2, TellsSet, PreparedFits
<1> HIDE DEF p2
<1>4. Tells(p3, "OFFER", "NO_CODE", Said(station, None, None, life, 0, Prepared(b), None, FALSE))
  BY <1>3, TellsText
<1> HIDE DEF p3
<1>5. Tells(p4, "OFFER", "NO_CODE",
            Said(station, conf.network, None, life, 0, Prepared(b), None, FALSE))
  BY <1>4, TellsText, ConfiguredTexts
<1> HIDE DEF p4
<1>6. Tells(p5, "OFFER", "NO_CODE",
            Said(station, conf.network, None, life, a, Prepared(b), None, FALSE))
  BY <1>5, TellsNumber
<1> HIDE DEF p5
<1>7. Tells(p6, "OFFER", "NO_CODE",
            Said(station, conf.network, conf.vendor, life, a, Prepared(b), None, FALSE))
  BY <1>6, TellsText, ConfiguredTexts
<1> QED BY <1>7 DEF p5, p4, p3, p2, p1, Offered

LEMMA RequestTells ==
    ASSUME Configured, NEW s \in Sets, NEW renewal \in BOOLEAN
    PROVE  Tells(Requested(s, renewal), "REQUEST", "NO_CODE",
                 Said(conf.station, None, None, None, 0, Adjusted(s, MaxClaim), None, renewal))
<1> DEFINE p1 == addOwnSet(NewPacket("REQUEST", "NO_CODE"), Adjusted(s, MaxClaim))
           p2 == addStation(p1, conf.station)
           p3 == [p2 EXCEPT !.cw = @ \cup {"RENEWAL"}]
           c  == Said(conf.station, None, None, None, 0, Adjusted(s, MaxClaim), None, FALSE)
<1>1. Tells(NewPacket("REQUEST", "NO_CODE"), "REQUEST", "NO_CODE",
            Said(None, None, None, None, 0, None, None, FALSE))
  BY TellsNothing DEF MsgTypes, StatusCodes
<1>2. Tells(p1, "REQUEST", "NO_CODE",
            Said(None, None, None, None, 0, Adjusted(s, MaxClaim), None, FALSE))
  BY <1>1, TellsSet, AdjustedFits
<1> HIDE DEF p1
<1>3. Tells(p2, "REQUEST", "NO_CODE", c)
  BY <1>2, TellsText, ConfiguredTexts
<1> HIDE DEF p2
<1>4. Tells(p3, "REQUEST", "NO_CODE",
            Said(conf.station, None, None, None, 0, Adjusted(s, MaxClaim), None, TRUE))
  <2>1. WithRenewal(c) = Said(conf.station, None, None, None, 0, Adjusted(s, MaxClaim), None, TRUE)
    BY DEF WithRenewal, Said
  <2>2. Carries(conf.build, p2, c) /\ p2.type = "REQUEST" /\ p2.status = "NO_CODE"
    BY <1>3, Zenon DEF Tells
  <2> HIDE DEF c
  <2>3. Carries(conf.build, p3, WithRenewal(c))
    BY <2>2, CarriesRenewal
  <2>4. p3.type = p2.type /\ p3.status = p2.status
    <3>1. p2 \in PacketType
      BY <2>2 DEF Carries, Shaped
    <3> QED BY <3>1 DEF PacketType
  <2> HIDE DEF p3
  <2> QED BY <2>1, <2>2, <2>3, <2>4 DEF Tells
<1>5. CASE renewal = TRUE
  BY <1>4, <1>5 DEF Requested, p2, p1
<1>6. CASE renewal = FALSE
  BY <1>3, <1>6 DEF Requested, p2, p1
<1> QED BY <1>5, <1>6

LEMMA AckTells ==
    ASSUME NEW status \in StatusCodes, NEW station \in Texts \cup {None}, NEW s \in Sets \cup {None},
           NEW life \in Nat
    PROVE  Tells(Acknowledged(status, station, s, life), "ACK", status,
                 Said(station, None, None, IF s = None THEN None ELSE life, 0, s, None, FALSE))
<1> DEFINE p1 == addStation(NewPacket("ACK", status), station)
           p2 == addOwnSet(p1, s)
           p3 == addLifetime(p2, life)
<1>1. Tells(NewPacket("ACK", status), "ACK", status,
            Said(None, None, None, None, 0, None, None, FALSE))
  BY TellsNothing DEF MsgTypes
<1>2. Tells(p1, "ACK", status, Said(station, None, None, None, 0, None, None, FALSE))
  BY <1>1, TellsText, ZenonT(30)
<1> HIDE DEF p1
<1>3. CASE s = None
  BY <1>2, <1>3 DEF Acknowledged, p1
<1>4. CASE s # None
  <2>1. Tells(p2, "ACK", status, Said(station, None, None, None, 0, s, None, FALSE))
    BY <1>2, <1>4, TellsSet
  <2> HIDE DEF p2
  <2>2. Tells(p3, "ACK", status, Said(station, None, None, life, 0, s, None, FALSE))
    BY <2>1, TellsNumber
  <2> QED BY <1>4, <2>2 DEF Acknowledged, p2, p1
<1> QED BY <1>3, <1>4

LEMMA ReleaseTells ==
    ASSUME Configured, NEW s \in Sets
    PROVE  Tells(addStation(addOwnSet(NewPacket("RELEASE", "NO_CODE"), s), conf.station),
                 "RELEASE", "NO_CODE", Said(conf.station, None, None, None, 0, s, None, FALSE))
<1> DEFINE p1 == addOwnSet(NewPacket("RELEASE", "NO_CODE"), s)
<1>1. Tells(NewPacket("RELEASE", "NO_CODE"), "RELEASE", "NO_CODE",
            Said(None, None, None, None, 0, None, None, FALSE))
  BY TellsNothing DEF MsgTypes, StatusCodes
<1>2. Tells(p1, "RELEASE", "NO_CODE", Said(None, None, None, None, 0, s, None, FALSE))
  BY <1>1, TellsSet
<1> HIDE DEF p1
<1>3. Tells(addStation(p1, conf.station), "RELEASE", "NO_CODE",
            Said(conf.station, None, None, None, 0, s, None, FALSE))
  BY <1>2, TellsText, ConfiguredTexts
<1> QED BY <1>3 DEF p1

LEMMA AnnounceTells ==
    ASSUME Configured, NEW s \in Sets, NEW life \in Nat
    PROVE  Tells(addStation(addLifetime(addOwnSet(NewPacket("ANNOUNCE", "NO_CODE"), s), life),
                            conf.station),
                 "ANNOUNCE", "NO_CODE", Said(conf.station, None, None, life, 0, s, None, FALSE))
<1> DEFINE p1 == addOwnSet(NewPacket("ANNOUNCE", "NO_CODE"), s)
           p2 == addLifetime(p1, life)
<1>1. Tells(NewPacket("ANNOUNCE", "NO_CODE"), "ANNOUNCE", "NO_CODE",
            Said(None, None, None, None, 0, None, None, FALSE))
  BY TellsNothing DEF MsgTypes, StatusCodes
<1>2. Tells(p1, "ANNOUNCE", "NO_CODE", Said(None, None, None, None, 0, s, None, FALSE))
  BY <1>1, TellsSet
<1> HIDE DEF p1
<1>3. Tells(p2, "ANNOUNCE", "NO_CODE", Said(None, None, None, life, 0, s, None, FALSE))
  BY <1>2, TellsNumber
<1> HIDE DEF p2
<1>4. Tells(addStation(p2, conf.station), "ANNOUNCE", "NO_CODE",
            Said(conf.station, None, None, life, 0, s, None, FALSE))
  BY <1>3, TellsText, ConfiguredTexts
<1> QED BY <1>4 DEF p2, p1

LEMMA DefendTells ==
    ASSUME NEW station \in Texts \cup {None}, NEW life \in Nat, NEW s \in Sets, NEW t \in Sets
    PROVE  Tells(Defended(station, life, s, t), "DEFEND", "NO_CODE",
                 Said(station, None, None, life, 0, s, t, FALSE))
<1> DEFINE p1 == addStation(NewPacket("DEFEND", "NO_CODE"), station)
           p2 == addLifetime(p1, life)
           p3 == addOwnSet(p2, s)
<1>1. Tells(NewPacket("DEFEND", "NO_CODE"), "DEFEND", "NO_CODE",
            Said(None, None, None, None, 0, None, None, FALSE))
  BY TellsNothing DEF MsgTypes, StatusCodes
<1>2. Tells(p1, "DEFEND", "NO_CODE", Said(station, None, None, None, 0, None, None, FALSE))
  BY <1>1, TellsText
<1> HIDE DEF p1
<1>3. Tells(p2, "DEFEND", "NO_CODE", Said(station, None, None, life, 0, None, None, FALSE))
  BY <1>2, TellsNumber
<1> HIDE DEF p2
<1>4. Tells(p3, "DEFEND", "NO_CODE", Said(station, None, None, life, 0, s, None, FALSE))
  BY <1>3, TellsSet
<1> HIDE DEF p3
<1>5. Tells(addMacSet(p3, t, {}), "DEFEND", "NO_CODE", Said(station, None, None, life, 0, s, t, FALSE))
  BY <1>4, TellsSet, NoneAssumption
<1> QED BY <1>5 DEF p3, p2, p1, Defended

----------------------------------------------------------------------------
(* The inductive invariant: what was last sent tells something that fits, the  *)
(* buffer holds its bytes until they are received, and what is then handled    *)
(* is what the bytes say, unless a text is too short to be parsed.             *)
Short(p) == \E i \in TextsOf(p) : p.pars[i].len < 2
Told == \E c : Carries(conf.build, sent, c) /\ Fitting(conf.station, sent.type, sent.status, c)
PacketsInv ==
    /\ Configured
    /\ sent = None => wire = None /\ heard = None
    /\ sent # None => Told
    /\ sent # None /\ wire # None => wire = ToBuffer(sent) /\ heard = None
    /\ sent # None /\ wire = None => heard = IF Short(sent) THEN None ELSE Parsed(ToBuffer(sent))

LEMMA InitKeeps == ASSUME Init PROVE PacketsInv
BY DEF Init, PacketsInv, Configured

LEMMA SendKeeps ==
    ASSUME PacketsInv, NEW p, NEW type, NEW status, NEW c, Tells(p, type, status, c),
           Fitting(conf.station, type, status, c), Send(p)
    PROVE  PacketsInv'
<1>1. Carries(conf.build, p, c) /\ Fitting(conf.station, p.type, p.status, c)
  BY DEF Tells
<1>2. p # None /\ ToBuffer(p) # None
  <2>1. p \in PacketType
    BY <1>1 DEF Carries, Shaped
  <2>2. ToBuffer(p) \in FrameType
    BY <1>1, ComesThrough
  <2> QED BY <2>1, <2>2, NoneAssumption
<1>3. conf' = conf /\ sent' = p /\ wire' = ToBuffer(p) /\ heard' = None
  BY DEF Send
<1>4. Configured'
  BY <1>3 DEF PacketsInv, Configured
<1>5. Told'
  BY <1>1, <1>3 DEF Told
<1>6. wire' = ToBuffer(sent)'
  BY <1>3
<1> QED BY <1>2, <1>3, <1>4, <1>5, <1>6 DEF PacketsInv

LEMMA HeardTells ==
    ASSUME PacketsInv, wire = None, heard # None
    PROVE  /\ getStationId(heard) \in Texts \cup {None} /\ getStationId(heard) \in {conf.station, None}
           /\ heard.type # "DEFEND" => getStationId(heard) = conf.station
           /\ getSet(heard) \in Sets \cup {None} /\ getSecondSet(heard) \in Sets \cup {None}
           /\ heard.type \notin {"DISCOVER", "ACK"} => getSet(heard) # None
           /\ getSet(heard) # None => ~Large(getSet(heard))
           /\ getSecondSet(heard) # None => ~Large(getSecondSet(heard))
<1>1. sent # None /\ heard = Parsed(ToBuffer(sent)) /\ Told
  BY DEF PacketsInv
<1>2. PICK c : Carries(conf.build, sent, c) /\ Fitting(conf.station, sent.type, sent.status, c)
  BY <1>1 DEF Told
<1>3. c \in Contents
  BY <1>2 DEF Carries
<1>4. Carries(conf.build, heard, Heard(c)) /\ heard.type = sent.type /\ heard.status = sent.status
  BY <1>1, <1>2, ComesThrough
<1>5. /\ Fitting(conf.station, heard.type, heard.status, Heard(c))
      /\ (Heard(c).first # None => ~Large(Heard(c).first))
      /\ (Heard(c).second # None => ~Large(Heard(c).second))
  BY <1>2, <1>3, <1>4, FittingHeard
<1>6. getStationId(heard) = Heard(c).text["STATION_ID"] /\ getSet(heard) = Heard(c).first
      /\ getSecondSet(heard) = Heard(c).second
  BY <1>4, Getters
<1>7. Heard(c) \in Contents
  BY <1>4 DEF Carries
<1>8. Heard(c).text["STATION_ID"] \in Texts \cup {None} /\ Heard(c).first \in Sets \cup {None}
      /\ Heard(c).second \in Sets \cup {None}
  BY <1>7 DEF Contents, TextIds
<1> QED BY <1>5, <1>6, <1>8 DEF Fitting

LEMMA NoLifetimeIsNone == ASSUME NEW life \in Lifetimes PROVE life \in Nat /\ life # None
BY PacketAssumption, NoneAssumption

LEMMA SetIsNotNone == ASSUME NEW s \in Sets PROVE s # None
BY NoneAssumption

LEMMA DiscoverKeeps == ASSUME PacketsInv, Discover PROVE PacketsInv'
<1>1. Configured
  BY DEF PacketsInv
<1>2. PICK s \in {Prepared(b) : b \in Blocks} \cup {None} :
        LET p == NewPacket("DISCOVER", "NO_CODE")
        IN  Send(addVendor(addStation(IF s = None THEN p ELSE addOwnSet(p, s), conf.station),
                           conf.vendor))
  BY DEF Discover
<1>3. PICK p : p = LET q == NewPacket("DISCOVER", "NO_CODE")
                   IN  addVendor(addStation(IF s = None THEN q ELSE addOwnSet(q, s), conf.station),
                                 conf.vendor)
  OBVIOUS
<1>4. s \in Sets \cup {None} /\ (s # None => ~Large(s))
  BY PreparedFits, BlocksAreSets
<1>5. PICK c : c = Said(conf.station, None, conf.vendor, None, 0, s, None, FALSE)
  OBVIOUS
<1>6. Tells(p, "DISCOVER", "NO_CODE", c)
  BY <1>1, <1>3, <1>4, <1>5, DiscoverTells
<1>7. Fitting(conf.station, "DISCOVER", "NO_CODE", c)
  <2>1. /\ c.text["STATION_ID"] = conf.station /\ c.text["NETWORK_ID"] = None /\ c.text["VENDOR"] = conf.vendor
       /\ c.life = None /\ c.client = 0 /\ c.first = s /\ c.second = None
       /\ c.renewal = FALSE
    BY <1>5 DEF Said, TextIds
  <2> QED BY <1>4, <1>5, <2>1 DEF Fitting
<1>8. Send(p)
  BY <1>2, <1>3
<1> QED BY <1>6, <1>7, <1>8, SendKeeps

LEMMA OfferKeeps == ASSUME PacketsInv, Offer PROVE PacketsInv'
<1>1. Configured /\ wire = None /\ heard # None /\ heard.type \in {"DISCOVER", "ANNOUNCE"}
  BY DEF PacketsInv, Offer, Hears
<1>2. PICK b \in Blocks, life \in Lifetimes, a \in {0, 1} :
        Send(Offered(b, life, getStationId(heard), a))
  BY DEF Offer
<1>3. PICK p : p = Offered(b, life, getStationId(heard), a)
  OBVIOUS
<1>4. getStationId(heard) = conf.station /\ conf.station \in Texts \cup {None}
  BY <1>1, HeardTells
<1>5. b \in Sets /\ life \in Nat /\ life # None /\ a \in Nat
  BY BlocksAreSets, NoLifetimeIsNone
<1>6. Prepared(b) # None /\ ~Large(Prepared(b))
  BY <1>5, PreparedFits, SetIsNotNone
<1>7. PICK c : c = Said(conf.station, conf.network, conf.vendor, life, a, Prepared(b), None, FALSE)
  OBVIOUS
<1>8. Tells(p, "OFFER", "NO_CODE", c)
  BY <1>1, <1>3, <1>4, <1>5, <1>7, OfferTells
<1>9. Fitting(conf.station, "OFFER", "NO_CODE", c)
  <2>1. /\ c.text["STATION_ID"] = conf.station /\ c.text["NETWORK_ID"] = conf.network /\ c.text["VENDOR"] = conf.vendor
       /\ c.life = life /\ c.client = a /\ c.first = Prepared(b) /\ c.second = None
       /\ c.renewal = FALSE
    BY <1>7 DEF Said, TextIds
  <2> QED BY <1>5, <1>6, <1>7, <2>1 DEF Fitting
<1>10. Send(p)
  BY <1>2, <1>3
<1> QED BY <1>8, <1>9, <1>10, SendKeeps

LEMMA RequestKeeps == ASSUME PacketsInv, Request PROVE PacketsInv'
<1>1. Configured
  BY DEF PacketsInv
<1>2. ASSUME NEW s \in Sets, NEW renewal \in BOOLEAN, Send(Requested(s, renewal))
      PROVE  PacketsInv'
  <2>1. PICK p : p = Requested(s, renewal)
    OBVIOUS
  <2>2. Adjusted(s, MaxClaim) # None /\ ~Large(Adjusted(s, MaxClaim))
    BY AdjustedFits, SetIsNotNone
  <2>3. PICK c : c = Said(conf.station, None, None, None, 0, Adjusted(s, MaxClaim), None, renewal)
    OBVIOUS
  <2>4. Tells(p, "REQUEST", "NO_CODE", c)
    BY <1>1, <2>1, <2>3, RequestTells
  <2>5. Fitting(conf.station, "REQUEST", "NO_CODE", c)
    <3>1. /\ c.text["STATION_ID"] = conf.station /\ c.text["NETWORK_ID"] = None /\ c.text["VENDOR"] = None
         /\ c.life = None /\ c.client = 0 /\ c.first = Adjusted(s, MaxClaim) /\ c.second = None
         /\ c.renewal = renewal
      BY <2>3 DEF Said, TextIds
    <3> QED BY <2>2, <2>3, <3>1 DEF Fitting
  <2>6. Send(p)
    BY <1>2, <2>1
  <2> QED BY <2>4, <2>5, <2>6, SendKeeps
<1>3. CASE Hears({"OFFER"}) /\ Send(Requested(getSet(heard), FALSE))
  <2>1. getSet(heard) \in Sets
    BY <1>3, HeardTells DEF Hears
  <2> QED BY <1>2, <1>3, <2>1
<1>4. CASE Hears({"ACK"}) /\ getSet(heard) # None /\ Send(Requested(getSet(heard), TRUE))
  <2>1. getSet(heard) \in Sets
    BY <1>4, HeardTells DEF Hears
  <2> QED BY <1>2, <1>4, <2>1
<1>5. CASE \E b \in Blocks : heard = None /\ Send(Requested(b, FALSE))
  BY <1>2, <1>5, BlocksAreSets
<1> QED BY <1>3, <1>4, <1>5 DEF Request

LEMMA AckKeeps == ASSUME PacketsInv, Ack PROVE PacketsInv'
<1>1. Configured /\ wire = None /\ heard # None /\ heard.type = "REQUEST"
  BY DEF PacketsInv, Ack, Hears
<1>2. /\ getStationId(heard) = conf.station /\ conf.station \in Texts \cup {None}
      /\ getSet(heard) \in Sets /\ ~Large(getSet(heard))
  BY <1>1, HeardTells
<1>3. ASSUME NEW status \in StatusCodes, NEW s \in Sets \cup {None}, NEW life \in Nat,
             s # None /\ Large(s) => status = "ALTERNATE_SET",
             Send(Acknowledged(status, getStationId(heard), s, life))
      PROVE  PacketsInv'
  <2>1. PICK p : p = Acknowledged(status, getStationId(heard), s, life)
    OBVIOUS
  <2>2. PICK c : c = Said(conf.station, None, None, IF s = None THEN None ELSE life, 0, s, None, FALSE)
    OBVIOUS
  <2>3. Tells(p, "ACK", status, c)
    BY <1>2, <2>1, <2>2, AckTells
  <2>4. Fitting(conf.station, "ACK", status, c)
    <3>1. /\ c.text["STATION_ID"] = conf.station /\ c.text["NETWORK_ID"] = None /\ c.text["VENDOR"] = None
         /\ c.life = (IF s = None THEN None ELSE life) /\ c.client = 0 /\ c.first = s /\ c.second = None
         /\ c.renewal = FALSE
      BY <2>2 DEF Said, TextIds
    <3> QED BY <1>3, <2>2, <3>1 DEF Fitting
  <2>5. Send(p)
    BY <1>3, <2>1
  <2> QED BY <2>3, <2>4, <2>5, SendKeeps
<1>4. CASE \E status \in {"FAIL_CONFLICT", "FAIL_TOO_LARGE", "FAIL_OTHER"} :
              Send(Acknowledged(status, getStationId(heard), None, 0))
  BY <1>3, <1>4 DEF StatusCodes
<1>5. CASE \E life \in Lifetimes :
              Send(Acknowledged("ASSIGN_OK", getStationId(heard), getSet(heard), life))
  BY <1>2, <1>3, <1>5, NoLifetimeIsNone DEF StatusCodes
<1>6. CASE \E life \in Lifetimes, b \in Blocks :
              Send(Acknowledged("ALTERNATE_SET", getStationId(heard), b, life))
  BY <1>3, <1>6, NoLifetimeIsNone, BlocksAreSets DEF StatusCodes
<1> QED BY <1>4, <1>5, <1>6 DEF Ack

LEMMA ReleaseKeeps == ASSUME PacketsInv, Release PROVE PacketsInv'
<1>1. Configured /\ wire = None /\ heard # None /\ heard.type = "ACK" /\ getSet(heard) # None
      /\ Send(addStation(addOwnSet(NewPacket("RELEASE", "NO_CODE"), getSet(heard)), conf.station))
  BY DEF PacketsInv, Release, Hears
<1>2. getSet(heard) \in Sets /\ ~Large(getSet(heard))
  BY <1>1, HeardTells
<1>3. PICK s \in Sets : s = getSet(heard)
  BY <1>2
<1>4. PICK p : p = addStation(addOwnSet(NewPacket("RELEASE", "NO_CODE"), s), conf.station)
  OBVIOUS
<1>5. PICK c : c = Said(conf.station, None, None, None, 0, s, None, FALSE)
  OBVIOUS
<1>6. Tells(p, "RELEASE", "NO_CODE", c)
  BY <1>1, <1>4, <1>5, ReleaseTells
<1>7. Fitting(conf.station, "RELEASE", "NO_CODE", c)
  <2>1. /\ c.text["STATION_ID"] = conf.station /\ c.text["NETWORK_ID"] = None /\ c.text["VENDOR"] = None
       /\ c.life = None /\ c.client = 0 /\ c.first = s /\ c.second = None
       /\ c.renewal = FALSE
    BY <1>5 DEF Said, TextIds
  <2> QED BY <1>1, <1>2, <1>3, <1>5, <2>1 DEF Fitting
<1>8. Send(p)
  BY <1>1, <1>3, <1>4
<1> QED BY <1>6, <1>7, <1>8, SendKeeps

LEMMA AnnounceKeeps == ASSUME PacketsInv, Announce PROVE PacketsInv'
<1>1. Configured
  BY DEF PacketsInv
<1>2. PICK b \in Blocks, life \in Lifetimes :
        Send(addStation(addLifetime(addOwnSet(NewPacket("ANNOUNCE", "NO_CODE"),
                                              Adjusted(b, MaxClaim)), life), conf.station))
  BY DEF Announce
<1>3. b \in Sets /\ life \in Nat /\ life # None
  BY BlocksAreSets, NoLifetimeIsNone
<1>4. PICK s \in Sets : s = Adjusted(b, MaxClaim) /\ ~Large(s) /\ s # None
  BY <1>3, AdjustedFits, SetIsNotNone
<1>5. PICK p : p = addStation(addLifetime(addOwnSet(NewPacket("ANNOUNCE", "NO_CODE"), s), life),
                              conf.station)
  OBVIOUS
<1>6. PICK c : c = Said(conf.station, None, None, life, 0, s, None, FALSE)
  OBVIOUS
<1>7. Tells(p, "ANNOUNCE", "NO_CODE", c)
  BY <1>1, <1>3, <1>5, <1>6, AnnounceTells
<1>8. Fitting(conf.station, "ANNOUNCE", "NO_CODE", c)
  <2>1. /\ c.text["STATION_ID"] = conf.station /\ c.text["NETWORK_ID"] = None /\ c.text["VENDOR"] = None
       /\ c.life = life /\ c.client = 0 /\ c.first = s /\ c.second = None
       /\ c.renewal = FALSE
    BY <1>6 DEF Said, TextIds
  <2> QED BY <1>3, <1>4, <1>6, <2>1 DEF Fitting
<1>9. Send(p)
  BY <1>2, <1>4, <1>5
<1> QED BY <1>7, <1>8, <1>9, SendKeeps

LEMMA DefendKeeps == ASSUME PacketsInv, Defend PROVE PacketsInv'
<1> DEFINE set == IF heard.type = "DEFEND" THEN getSecondSet(heard) ELSE getSet(heard)
           id  == IF heard.type = "DEFEND" THEN None ELSE getStationId(heard)
<1>1. PICK b \in Blocks, life \in Lifetimes :
        LET own == Adjusted(b, MaxClaim)
        IN  /\ Hears({"DISCOVER", "ANNOUNCE", "DEFEND"})
            /\ set # None /\ Conflicts(set, own)
            /\ Send(Defended(id, life, set, Conflict(set, own)))
  BY DEF Defend
<1>2. PICK own \in Sets : own = Adjusted(b, MaxClaim)
  BY AdjustedFits, BlocksAreSets
<1>3. wire = None /\ heard # None
  BY <1>1 DEF Hears
<1>4. /\ set \in Sets /\ ~Large(set)
      /\ id \in Texts \cup {None} /\ id \in {conf.station, None}
  BY <1>1, <1>3, HeardTells
<1>5. Conflicts(set, own) /\ Send(Defended(id, life, set, Conflict(set, own)))
  BY <1>1, <1>2
<1> HIDE DEF set, id
<1>6. PICK s \in Sets : s = set
  BY <1>4
<1>7. PICK x \in Texts \cup {None} : x = id
  BY <1>4
<1>8. PICK t \in Sets : t = Conflict(s, own) /\ t.kind = s.kind
  BY <1>5, <1>6, ConflictIsSet
<1>9. PICK p : p = Defended(x, life, s, t)
  OBVIOUS
<1>10. PICK c : c = Said(x, None, None, life, 0, s, t, FALSE)
  OBVIOUS
<1>11. Tells(p, "DEFEND", "NO_CODE", c)
  BY <1>9, <1>10, NoLifetimeIsNone, DefendTells
<1>12. Fitting(conf.station, "DEFEND", "NO_CODE", c)
  <2>1. life # None /\ s # None /\ t # None /\ ~Large(s) /\ x \in {conf.station, None}
    BY <1>4, <1>6, <1>7, NoLifetimeIsNone, SetIsNotNone
  <2>2. /\ c.text["STATION_ID"] = x /\ c.text["NETWORK_ID"] = None /\ c.text["VENDOR"] = None
        /\ c.life = life /\ c.client = 0 /\ c.first = s /\ c.second = t /\ c.renewal = FALSE
    BY <1>10 DEF Said, TextIds
  <2> QED BY <1>8, <2>1, <2>2 DEF Fitting
<1>13. Send(p)
  BY <1>5, <1>6, <1>7, <1>8, <1>9
<1> QED BY <1>11, <1>12, <1>13, SendKeeps

LEMMA ReceiveKeeps == ASSUME PacketsInv, Receive PROVE PacketsInv'
<1>1. /\ wire # None /\ wire' = None /\ conf' = conf /\ sent' = sent
      /\ heard' = IF Parses(wire) /\ Check(Parsed(wire)) THEN Parsed(wire) ELSE None
  BY DEF Receive
<1>2. sent # None /\ wire = ToBuffer(sent) /\ Told /\ Configured
  BY <1>1 DEF PacketsInv
<1>3. PICK c : Carries(conf.build, sent, c) /\ Fitting(conf.station, sent.type, sent.status, c)
  BY <1>2 DEF Told
<1>4. PICK h : h = Parsed(ToBuffer(sent))
  OBVIOUS
<1>5. Carries(conf.build, h, Heard(c)) /\ h.type = sent.type /\ h.status = sent.status
      /\ c \in Contents
  <2>1. Carries(conf.build, h, Heard(c)) /\ h.type = sent.type /\ h.status = sent.status
    BY <1>3, <1>4, ComesThrough
  <2>2. c \in Contents
    BY <1>3 DEF Carries
  <2> QED BY <2>1, <2>2
<1>6. Fitting(conf.station, h.type, h.status, Heard(c))
  BY <1>3, <1>5, FittingHeard
<1>7. Check(h)
  BY <1>5, <1>6, CheckAccepts
<1>8. Parses(ToBuffer(sent)) <=> ~Short(sent)
  BY <1>3, ParsesUnlessShort DEF Short
<1>9. heard' = IF Short(sent) THEN None ELSE Parsed(ToBuffer(sent))
  BY <1>1, <1>2, <1>4, <1>7, <1>8
<1>10. Told' /\ Configured'
  BY <1>1, <1>2 DEF Told, Configured
<1>11. Short(sent)' = Short(sent) /\ ToBuffer(sent)' = ToBuffer(sent)
       /\ Parsed(ToBuffer(sent))' = Parsed(ToBuffer(sent))
  BY <1>1
<1> QED BY <1>1, <1>2, <1>9, <1>10, <1>11 DEF PacketsInv

LEMMA NextKeeps == ASSUME PacketsInv, [Next]_vars PROVE PacketsInv'
<1>1. CASE UNCHANGED vars
  BY <1>1 DEF vars, PacketsInv, Configured, Told, Short
<1> QED BY <1>1, DiscoverKeeps, OfferKeeps, RequestKeeps, AckKeeps, ReleaseKeeps, AnnounceKeeps,
           DefendKeeps, ReceiveKeeps DEF Next

(* In every behaviour, what is handled is what the bytes say of what was sent. *)
THEOREM PacketsInvariant == Spec => []PacketsInv
<1>1. Init => PacketsInv
  BY InitKeeps
<1>2. PacketsInv /\ [Next]_vars => PacketsInv'
  BY NextKeeps
<1> QED BY <1>1, <1>2, PTL DEF Spec

----------------------------------------------------------------------------
(* What is received, of what was sent.                                         *)
LEMMA ReceivedTells ==
    ASSUME PacketsInv, Received
    PROVE  \E c \in Contents :
              /\ Carries(conf.build, sent, c) /\ Fitting(conf.station, sent.type, sent.status, c)
              /\ heard = None <=> Short(sent)
              /\ heard # None =>
                    /\ heard = Parsed(ToBuffer(sent)) /\ Carries(conf.build, heard, Heard(c))
                    /\ heard.type = sent.type
                    /\ \A i \in 1 .. Len(sent.pars) : heard.pars[i] = CutPar(sent.pars[i])
<1>1. sent # None /\ wire = None /\ Told
      /\ heard = IF Short(sent) THEN None ELSE Parsed(ToBuffer(sent))
  BY DEF PacketsInv, Received
<1>2. PICK c : Carries(conf.build, sent, c) /\ Fitting(conf.station, sent.type, sent.status, c)
  BY <1>1 DEF Told
<1>3. PICK h : h = Parsed(ToBuffer(sent))
  OBVIOUS
<1>4. /\ Carries(conf.build, h, Heard(c)) /\ h.type = sent.type
      /\ \A i \in 1 .. Len(sent.pars) : h.pars[i] = CutPar(sent.pars[i])
  <2>1. Carries(conf.build, sent, c)
    BY <1>2
  <2> QED BY <1>3, <2>1, ComesThrough, SMTT(30)
<1>5. c \in Contents
  BY <1>2 DEF Carries
<1>6. h # None
  BY <1>4, NoneAssumption DEF Carries, Shaped
<1>7. (heard = None <=> Short(sent)) /\ (heard # None => heard = h)
  BY <1>1, <1>3, <1>6
<1> QED BY <1>2, <1>3, <1>4, <1>5, <1>7

LEMMA InvUnderstood == ASSUME PacketsInv PROVE Understood
<1> SUFFICES ASSUME Received PROVE heard = None <=> Short(sent)
  BY DEF Understood, Short
<1> QED BY ReceivedTells

LEMMA InvReadBack == ASSUME PacketsInv PROVE ReadBack
<1> DEFINE In(places) == IF places = {} THEN None ELSE OnLine(sent.pars[Least(places)]).val
<1> SUFFICES ASSUME Received, heard # None
             PROVE  /\ getStationId(heard) = First(sent, "STATION_ID", None)
                    /\ getNetworkId(heard) = First(sent, "NETWORK_ID", None)
                    /\ getVendorVar(heard) = First(sent, "VENDOR", None)
                    /\ getLifetime(heard) = First(sent, "LIFETIME", 0)
                    /\ getClientAddr(heard) = First(sent, "CLIENT_ADDR", 0)
                    /\ ("RENEWAL" \in heard.cw) = ("RENEWAL" \in sent.cw)
                    /\ getSet(heard) = In(SetsOf(sent))
                    /\ getSecondSet(heard) = In(LaterSets(sent))
  BY DEF ReadBack
<1> HIDE DEF In
<1>1. PICK c \in Contents : Carries(conf.build, sent, c) /\ Carries(conf.build, heard, Heard(c))
  BY ReceivedTells
<1>2. /\ Heard(c).text = c.text /\ Heard(c).life = c.life /\ Heard(c).client = c.client
      /\ Heard(c).renewal = c.renewal
      /\ Heard(c).first = Got(c.first) /\ Heard(c).second = Got(c.second)
  BY HeardIs
<1>3. /\ First(sent, "STATION_ID", None) = c.text["STATION_ID"]
      /\ First(sent, "NETWORK_ID", None) = c.text["NETWORK_ID"]
      /\ First(sent, "VENDOR", None) = c.text["VENDOR"]
      /\ getLifetime(sent) = (IF c.life = None THEN 0 ELSE c.life) /\ getClientAddr(sent) = c.client
      /\ "RENEWAL" \in sent.cw <=> c.renewal
  BY <1>1, Getters
<1>4. /\ getStationId(heard) = c.text["STATION_ID"] /\ getNetworkId(heard) = c.text["NETWORK_ID"]
      /\ getVendorVar(heard) = c.text["VENDOR"]
      /\ getLifetime(heard) = (IF c.life = None THEN 0 ELSE c.life) /\ getClientAddr(heard) = c.client
      /\ getSet(heard) = Got(c.first) /\ getSecondSet(heard) = Got(c.second)
      /\ "RENEWAL" \in heard.cw <=> c.renewal
  BY <1>1, <1>2, Getters
<1>5. sent \in PacketType /\ SetSlots(sent, c.first, c.second)
  BY <1>1 DEF Carries, Shaped
<1>6. /\ SetsOf(sent) = {} <=> c.first = None
      /\ LaterSets(sent) = {} <=> c.second = None
      /\ c.first # None => Least(SetsOf(sent)) \in SetsOf(sent)
                           /\ sent.pars[Least(SetsOf(sent))].val = c.first
      /\ c.second # None => Least(LaterSets(sent)) \in SetsOf(sent)
                            /\ sent.pars[Least(LaterSets(sent))].val = c.second
  BY <1>5, SetSlotsAre
<1>7. \A i \in SetsOf(sent) : OnLine(sent.pars[i]).val = Cut(sent.pars[i].val)
  BY DEF SetsOf, ParsOf, OnLine, Cut
<1>8. In(SetsOf(sent)) = Got(c.first) /\ In(LaterSets(sent)) = Got(c.second)
  BY <1>6, <1>7 DEF In, Got
<1>9. getLifetime(heard) = First(sent, "LIFETIME", 0)
      /\ getClientAddr(heard) = First(sent, "CLIENT_ADDR", 0)
  BY <1>3, <1>4 DEF getLifetime, getClientAddr
<1> QED BY <1>3, <1>4, <1>8, <1>9

LEMMA InvSetsArrive == ASSUME PacketsInv PROVE SetsArrive
<1> SUFFICES ASSUME Received, heard # None, NEW i \in SetsOf(sent),
                    Span(heard.pars[i].val) # Span(sent.pars[i].val)
             PROVE  /\ MayBeCut(sent, i) /\ sent.pars[i].val.size > WireMax
                    /\ heard.pars[i].val.size < sent.pars[i].val.size
  BY DEF SetsArrive
<1>1. PICK c \in Contents :
        /\ Carries(conf.build, sent, c) /\ Fitting(conf.station, sent.type, sent.status, c)
        /\ \A k \in 1 .. Len(sent.pars) : heard.pars[k] = CutPar(sent.pars[k])
  BY ReceivedTells
<1>2. sent \in PacketType /\ SetSlots(sent, c.first, c.second)
  BY <1>1 DEF Carries, Shaped
<1>3. i \in 1 .. Len(sent.pars) /\ sent.pars[i].id = "MAC_ADDR_SET"
  BY DEF SetsOf, ParsOf
<1>4. heard.pars[i].val = Cut(sent.pars[i].val)
  <2>1. sent.pars[i] \in Pars
    BY <1>2, <1>3 DEF PacketType
  <2>2. [sent.pars[i] EXCEPT !.val = Cut(@)].val = Cut(sent.pars[i].val)
    BY <2>1 DEF Pars
  <2> QED BY <1>1, <1>3, <2>2 DEF CutPar
<1>5. /\ sent.pars[i].val = IF i \in LaterSets(sent) THEN c.second ELSE c.first
      /\ LaterSets(sent) = {} <=> c.second = None
      /\ SetsOf(sent) = {} <=> c.first = None
  BY <1>2, SetSlotsAre
<1>6. PICK was \in Sets : was = sent.pars[i].val
  BY <1>5 DEF Contents
<1>7. Large(was) /\ Cut(was).size < was.size
  BY <1>4, <1>6, CutIs
<1>8. MayBeCut(sent, i)
  <2>1. CASE i \in LaterSets(sent)
    BY <1>1, <1>5, <2>1 DEF Fitting, MayBeCut
  <2>2. CASE i \notin LaterSets(sent)
    <3>1. c.first # None /\ Large(c.first)
      BY <1>5, <1>6, <1>7, <2>2
    <3> QED BY <1>1, <3>1 DEF Fitting, MayBeCut
  <2> QED BY <2>1, <2>2
<1> QED BY <1>4, <1>6, <1>7, <1>8 DEF Large

LEMMA InvTaken == ASSUME PacketsInv PROVE TakenByItsAsker
<1> SUFFICES ASSUME Received, heard # None, heard.type \in {"OFFER", "ACK", "DEFEND"}
             PROVE  /\ checkStationId(getStationId(heard), conf.station)
                    /\ \A other \in Stations \ {conf.station} :
                          heard.type # "DEFEND" /\ conf.station # None =>
                              ~checkStationId(getStationId(heard), other)
  BY DEF TakenByItsAsker
<1>1. wire = None
  BY DEF Received
<1>2. /\ getStationId(heard) \in {conf.station, None}
      /\ heard.type # "DEFEND" => getStationId(heard) = conf.station
  BY <1>1, HeardTells
<1> QED BY <1>2 DEF checkStationId

(* Whatever a client or a server sends, the other side parses and its check    *)
(* accepts, in both builds of slapType, for any texts that fit, any sets and   *)
(* any limits; only a packet with a text of one character is lost (parsePar,   *)
(* packet.cpp:260 and 280; check, packet.cpp:363-450).                         *)
THEOREM PacketsUnderstood == Spec => []Understood
<1>1. PacketsInv => Understood
  BY InvUnderstood
<1> QED BY <1>1, PacketsInvariant, PTL

(* Every getter gives the handler what the sender put in, whatever the order   *)
(* of the parameters, and getSet(false) the second set of a DEFEND             *)
(* (packet.cpp:483-586).                                                       *)
THEOREM PacketsReadBack == Spec => []ReadBack
<1>1. PacketsInv => ReadBack
  BY InvReadBack
<1> QED BY <1>1, PacketsInvariant, PTL

(* A set loses addresses on the line only in the two calls that do not make a  *)
(* mask of one that exceeds a count: the conflict of sendDefend and the        *)
(* alternate set of sendAck.                                                   *)
THEOREM PacketsSetsArrive == Spec => []SetsArrive
<1>1. PacketsInv => SetsArrive
  BY InvSetsArrive
<1> QED BY <1>1, PacketsInvariant, PTL

(* An OFFER or an ACK is taken by the client that asked and by no client of    *)
(* another station, and a DEFEND by the client whose set it defends against    *)
(* (checkStationId, palma-client.h).                                           *)
THEOREM PacketsTakenByItsAsker == Spec => []TakenByItsAsker
<1>1. PacketsInv => TakenByItsAsker
  BY InvTaken
<1> QED BY <1>1, PacketsInvariant, PTL

----------------------------------------------------------------------------
(* The dissector passes every parameter of a packet, and shows a set as        *)
(* parsePar reads it.                                                          *)
LEMMA LineAdvance ==
    ASSUME NEW par, GoodPar(par)
    PROVE  /\ OnLine(par).len = par.len + 2 /\ OnLine(par).id = par.id /\ par.len \in 0 .. 253
           /\ Advance(OnLine(par)) = par.len
<1> DEFINE l == OnLine(par)
<1>1. par.len \in 0 .. 253
  BY ParComesThrough
<1>2. l.id = par.id /\ l.len = (par.len + 2) % 256
  BY Zenon DEF OnLine
<1>3. (par.len + 2) % 256 = par.len + 2
  BY <1>1
<1>4. (par.len + 2) - 2 = par.len
  BY <1>1
<1> HIDE DEF l
<1>5. CASE TextPar(par)
  <2>1. par.id \in TextIds
    BY <1>5 DEF TextPar, ParOf
  <2>2. Advance(l) = l.len - 2
    BY <1>2, <2>1 DEF Advance, TextIds
  <2> QED BY <1>1, <1>2, <1>3, <1>4, <2>2 DEF l
<1>6. CASE SetPar(par)
  <2>1. PICK s \in Sets : par.id = "MAC_ADDR_SET" /\ par.len = MacSetLength(s)
    BY <1>6 DEF SetPar, ParOf
  <2>2. par.len \in {8, 10, 12, 16}
    BY <2>1, SetLength
  <2>3. l.len \in {10, 12, 14, 18} /\ l.id = "MAC_ADDR_SET"
    BY <1>2, <1>3, <2>1, <2>2
  <2>4. Advance(l) = l.len - 2
    BY <2>3 DEF Advance
  <2> QED BY <1>1, <1>2, <1>3, <1>4, <2>4 DEF l
<1>7. CASE TimePar(par) \/ AddrPar(par)
  <2>1. (par.id = "LIFETIME" /\ par.len = 2) \/ (par.id = "CLIENT_ADDR" /\ par.len = 6)
    BY <1>7 DEF TimePar, AddrPar, ParOf
  <2>2. Advance(l) = par.len
    BY <1>2, <2>1 DEF Advance
  <2> QED BY <1>1, <1>2, <1>3, <2>2 DEF l
<1> QED BY <1>5, <1>6, <1>7 DEF GoodPar

ShownSet(s, later) ==
    [id |-> "MAC_ADDR_SET", conflict |-> later, bits |-> s.kind.bits, form |-> s.form,
     lo |-> s.lo, size |-> s.size]

LEMMA LineShown ==
    ASSUME NEW par, GoodPar(par), par.id = "MAC_ADDR_SET", NEW n \in Nat
    PROVE  Shown(OnLine(par), n) = ShownSet(CutPar(par).val, n > 0)
<1> DEFINE l == OnLine(par)
<1>1. l.id = "MAC_ADDR_SET" /\ l.len = par.len + 2 /\ l.val = Cut(par.val)
  <2>1. l.val = Cut(par.val)
    BY Zenon DEF OnLine, Cut
  <2> QED BY <2>1, LineAdvance
<1>2. PICK s \in Sets : par = ParOf("MAC_ADDR_SET", MacSetLength(s), s)
  <2>1. SetPar(par)
    BY DEF GoodPar, TextPar, TimePar, AddrPar, ParOf, TextIds
  <2> QED BY <2>1 DEF SetPar
<1>3. par.len = MacSetLength(s) /\ par.val = s
  BY <1>2 DEF ParOf
<1> DEFINE r == Cut(s)
<1>4. r.kind = s.kind /\ r.form = s.form /\ CutPar(par).val = r
  <2>1. CutPar(par).val = r
    BY <1>2 DEF CutPar, ParOf
  <2> QED BY <2>1, CutIs
<1>5. /\ s.kind.bits \in {48, 64} /\ s.form \in {"count", "mask"}
      /\ par.len = IF s.form = "count" THEN (IF s.kind.bits = 48 THEN 8 ELSE 10)
                   ELSE (IF s.kind.bits = 48 THEN 12 ELSE 16)
  BY <1>3, SetLength
<1> HIDE DEF l, r
<1>6. /\ (IF l.len \in {10, 14} THEN 48 ELSE 64) = r.kind.bits
      /\ (IF l.len \in {10, 12} THEN "count" ELSE "mask") = r.form
  BY <1>1, <1>4, <1>5
<1>7. Shown(l, n) = [id |-> l.id, conflict |-> n > 0,
                     bits |-> IF l.len \in {10, 14} THEN 48 ELSE 64,
                     form |-> IF l.len \in {10, 12} THEN "count" ELSE "mask",
                     lo |-> l.val.lo, size |-> l.val.size]
  BY <1>1, Zenon DEF Shown
<1>8. l.val = r
  BY <1>1, <1>3 DEF r
<1>9. Shown(l, n) = [id |-> "MAC_ADDR_SET", conflict |-> n > 0, bits |-> r.kind.bits,
                     form |-> r.form, lo |-> r.lo, size |-> r.size]
  BY <1>1, <1>6, <1>7, <1>8
<1>10. Shown(l, n) = ShownSet(r, n > 0)
  BY <1>9 DEF ShownSet
<1> QED BY <1>4, <1>10 DEF l

Few(p) == Len(p.pars) <= MaxPar

(* The frame of a packet, and where its parameters start in it.                *)
LEMMA WireIs ==
    ASSUME NEW B, NEW p, NEW c, Carries(B, p, c)
    PROVE  LET n == Len(p.pars)
               w == ToBuffer(p)
           IN  /\ p.pars \in Seq(Pars) /\ n \in Nat /\ Len(w.pars) = n
               /\ Bytes(p.pars) \in 0 .. 813
               /\ w.length = HeaderSize + Bytes(p.pars) /\ w.bytes = MinSize + Bytes(p.pars)
               /\ \A i \in 1 .. n : GoodPar(p.pars[i]) /\ w.pars[i] = OnLine(p.pars[i])
               /\ \A i \in 1 .. n : p.pars[i].len \in Nat
<1> DEFINE n == Len(p.pars)
           w == ToBuffer(p)
<1>1. /\ p \in PacketType /\ c \in Contents /\ p.length = HeaderSize + Bytes(p.pars)
      /\ (\A i \in 1 .. n : GoodPar(p.pars[i])) /\ p.length <= HeaderSize + Room(c)
  BY DEF Carries, Shaped
<1>2. p.length \in Nat /\ p.pars \in Seq(Pars) /\ n \in Nat
  BY <1>1 DEF PacketType
<1>3. PICK r \in 0 .. 813 : r = Room(c)
  <2>1. Room(c) \in 0 .. 813
    BY <1>1, RoomIsSmall
  <2> QED BY <2>1
<1>4. PICK b \in Nat : b = Bytes(p.pars)
  BY <1>2, BytesType
<1>5. b \in 0 .. 813 /\ p.length = 8 + b
  <2>1. 8 + b <= 8 + r
    BY <1>1, <1>3, <1>4 DEF HeaderSize
  <2>2. b <= 813
    BY <2>1
  <2>3. p.length = 8 + b
    BY <1>1, <1>4 DEF HeaderSize
  <2>4. b \in 0 .. 813
    BY <2>2
  <2> QED BY <2>3, <2>4
<1>6. p.length % 2 ^ 12 = 8 + b
  <2>1. 2 ^ 12 = 4096 /\ (8 + b) % 4096 = 8 + b
    BY <1>5
  <2> QED BY <1>5, <2>1
<1>7. w.length = 8 + b /\ w.bytes = MinSize + b /\ w.pars = [i \in 1 .. n |-> OnLine(p.pars[i])]
  BY <1>4, <1>6 DEF ToBuffer
<1>8. Len(w.pars) = n /\ \A i \in 1 .. n : w.pars[i] = OnLine(p.pars[i])
  BY <1>2, <1>7
<1>9. \A i \in 1 .. n : p.pars[i].len \in Nat
  <2> SUFFICES ASSUME NEW i \in 1 .. n PROVE p.pars[i].len \in Nat
    OBVIOUS
  <2>1. p.pars[i] \in Pars
    BY <1>2
  <2> QED BY <2>1 DEF Pars
<1> HIDE DEF w
<1>10. /\ Bytes(p.pars) \in 0 .. 813
       /\ w.length = HeaderSize + Bytes(p.pars) /\ w.bytes = MinSize + Bytes(p.pars)
  BY <1>4, <1>5, <1>7 DEF HeaderSize
<1> QED BY <1>1, <1>2, <1>8, <1>9, <1>10 DEF w

LEMMA StartsInOrder ==
    ASSUME NEW B, NEW p, NEW c, Carries(B, p, c), Few(p), NEW k \in 1 .. 6
    PROVE  LET n == Len(p.pars)
               w == ToBuffer(p)
           IN  /\ StartsAt(w, 1) = HeaderSize
               /\ StartsAt(w, k) \in Nat /\ HeaderSize + Bytes(p.pars) \in Nat
               /\ StartsAt(w, k) <= HeaderSize + Bytes(p.pars)
               /\ StartsAt(w, k + 1) <= HeaderSize + Bytes(p.pars)
               /\ k <= n => StartsAt(w, k + 1) = StartsAt(w, k) + p.pars[k].len + 2
               /\ k > n => /\ StartsAt(w, k) = HeaderSize + Bytes(p.pars)
                           /\ StartsAt(w, k + 1) = HeaderSize + Bytes(p.pars)
               /\ k = 6 => StartsAt(w, k + 1) = HeaderSize + Bytes(p.pars)
<1> DEFINE n == Len(p.pars)
           w == ToBuffer(p)
           P(j) == ParBytes(p.pars, j)
<1>1. p.pars \in Seq(Pars) /\ n \in Nat /\ n <= 6 /\ Len(w.pars) = n
      /\ \A j \in 1 .. n : GoodPar(p.pars[j]) /\ w.pars[j] = OnLine(p.pars[j])
  BY WireIs DEF Few, MaxPar
<1>2. \A j \in 1 .. n : w.pars[j].len = P(j) /\ P(j) = p.pars[j].len + 2
  BY <1>1, LineAdvance DEF ParBytes
<1>3. \A j \in 1 .. n : p.pars[j].len \in Nat
  BY WireIs
<1>4. \A j \in 1 .. 6 : P(j) \in Nat /\ (j > n => P(j) = 0)
  BY <1>1, ParBytesType DEF ParBytes
<1> HIDE DEF w
<1>5. \A j \in 1 .. 6, i \in Nat : LenBefore(w, i, j) = IF j < i THEN P(j) ELSE 0
  <2> HIDE DEF P
  <2> SUFFICES ASSUME NEW j \in 1 .. 6, NEW i \in Nat
               PROVE  LenBefore(w, i, j) = IF j < i THEN P(j) ELSE 0
    OBVIOUS
  <2>1. CASE j <= n
    <3>1. w.pars[j].len = P(j) /\ j <= Len(w.pars)
      BY <1>1, <1>2, <2>1
    <3> QED BY <3>1 DEF LenBefore
  <2>2. CASE j > n
    <3>1. P(j) = 0
      BY <1>4, <2>2
    <3>2. ~(j <= Len(w.pars))
      BY <1>1, <2>2
    <3> QED BY <3>1, <3>2 DEF LenBefore
  <2> QED BY <1>1, <2>1, <2>2
<1>6. Bytes(p.pars) = P(1) + P(2) + P(3) + P(4) + P(5) + P(6)
  BY DEF Bytes, MaxPar
<1>7. k \in Nat /\ k + 1 \in Nat
  OBVIOUS
<1>8. k <= n => P(k) = p.pars[k].len + 2
  BY <1>2
<1> HIDE DEF P
<1>9. PICK a \in Nat : a = P(1)
  BY <1>4
<1>10. PICK b \in Nat : b = P(2)
  BY <1>4
<1>11. PICK d \in Nat : d = P(3)
  BY <1>4
<1>12. PICK e \in Nat : e = P(4)
  BY <1>4
<1>13. PICK f \in Nat : f = P(5)
  BY <1>4
<1>14. PICK g \in Nat : g = P(6)
  BY <1>4
<1>15. ASSUME NEW i \in Nat
       PROVE  StartsAt(w, i) = 8 + (IF 1 < i THEN a ELSE 0) + (IF 2 < i THEN b ELSE 0)
                                 + (IF 3 < i THEN d ELSE 0) + (IF 4 < i THEN e ELSE 0)
                                 + (IF 5 < i THEN f ELSE 0) + (IF 6 < i THEN g ELSE 0)
  BY <1>5, <1>9, <1>10, <1>11, <1>12, <1>13, <1>14 DEF StartsAt, HeaderSize, MaxPar
<1>16. Bytes(p.pars) = a + b + d + e + f + g
  BY <1>6, <1>9, <1>10, <1>11, <1>12, <1>13, <1>14
<1>17. StartsAt(w, 1) = 8
  BY <1>15
<1>18. \A j \in 1 .. 6 : P(j) = IF j = 1 THEN a ELSE IF j = 2 THEN b ELSE IF j = 3 THEN d
                                ELSE IF j = 4 THEN e ELSE IF j = 5 THEN f ELSE g
  BY <1>9, <1>10, <1>11, <1>12, <1>13, <1>14
<1>19. /\ StartsAt(w, k) = 8 + (IF 1 < k THEN a ELSE 0) + (IF 2 < k THEN b ELSE 0)
                             + (IF 3 < k THEN d ELSE 0) + (IF 4 < k THEN e ELSE 0)
                             + (IF 5 < k THEN f ELSE 0)
       /\ StartsAt(w, k + 1) = 8 + (IF 1 <= k THEN a ELSE 0) + (IF 2 <= k THEN b ELSE 0)
                                 + (IF 3 <= k THEN d ELSE 0) + (IF 4 <= k THEN e ELSE 0)
                                 + (IF 5 <= k THEN f ELSE 0) + (IF 6 <= k THEN g ELSE 0)
  <2>1. StartsAt(w, k) = 8 + (IF 1 < k THEN a ELSE 0) + (IF 2 < k THEN b ELSE 0)
                           + (IF 3 < k THEN d ELSE 0) + (IF 4 < k THEN e ELSE 0)
                           + (IF 5 < k THEN f ELSE 0) + (IF 6 < k THEN g ELSE 0)
    BY <1>7, <1>15
  <2>2. ~(6 < k)
    OBVIOUS
  <2>3. StartsAt(w, k) = 8 + (IF 1 < k THEN a ELSE 0) + (IF 2 < k THEN b ELSE 0)
                           + (IF 3 < k THEN d ELSE 0) + (IF 4 < k THEN e ELSE 0)
                           + (IF 5 < k THEN f ELSE 0)
    BY <2>1, <2>2
  <2>4. PICK i \in Nat : i = k + 1
    BY <1>7
  <2>5. StartsAt(w, i) = 8 + (IF 1 < i THEN a ELSE 0) + (IF 2 < i THEN b ELSE 0)
                           + (IF 3 < i THEN d ELSE 0) + (IF 4 < i THEN e ELSE 0)
                           + (IF 5 < i THEN f ELSE 0) + (IF 6 < i THEN g ELSE 0)
    BY <1>15
  <2>6. /\ (1 < i <=> 1 <= k) /\ (2 < i <=> 2 <= k) /\ (3 < i <=> 3 <= k)
        /\ (4 < i <=> 4 <= k) /\ (5 < i <=> 5 <= k) /\ (6 < i <=> 6 <= k)
    BY <2>4
  <2>7. StartsAt(w, i) = 8 + (IF 1 <= k THEN a ELSE 0) + (IF 2 <= k THEN b ELSE 0)
                           + (IF 3 <= k THEN d ELSE 0) + (IF 4 <= k THEN e ELSE 0)
                           + (IF 5 <= k THEN f ELSE 0) + (IF 6 <= k THEN g ELSE 0)
    BY <2>5, <2>6
  <2> QED BY <2>3, <2>4, <2>7
<1>20. PICK m \in Nat : m = P(k)
  <2>1. P(k) \in Nat
    BY <1>4
  <2> QED BY <2>1
<1>21. PICK x \in Nat : x = 8 + (IF 1 < k THEN a ELSE 0) + (IF 2 < k THEN b ELSE 0)
                             + (IF 3 < k THEN d ELSE 0) + (IF 4 < k THEN e ELSE 0)
                             + (IF 5 < k THEN f ELSE 0)
  OBVIOUS
<1>22. PICK y \in Nat : y = 8 + (IF 1 <= k THEN a ELSE 0) + (IF 2 <= k THEN b ELSE 0)
                             + (IF 3 <= k THEN d ELSE 0) + (IF 4 <= k THEN e ELSE 0)
                             + (IF 5 <= k THEN f ELSE 0) + (IF 6 <= k THEN g ELSE 0)
  OBVIOUS
<1>23. PICK t \in Nat : t = 8 + Bytes(p.pars) /\ t = 8 + a + b + d + e + f + g
  BY <1>16
<1>24. StartsAt(w, k) = x /\ StartsAt(w, k + 1) = y
  BY <1>19, <1>21, <1>22
<1>25. y = x + m
  <2>1. CASE k = 1
    BY <1>18, <1>20, <1>21, <1>22, <2>1
  <2>2. CASE k = 2
    BY <1>18, <1>20, <1>21, <1>22, <2>2
  <2>3. CASE k = 3
    BY <1>18, <1>20, <1>21, <1>22, <2>3
  <2>4. CASE k = 4
    BY <1>18, <1>20, <1>21, <1>22, <2>4
  <2>5. CASE k = 5
    BY <1>18, <1>20, <1>21, <1>22, <2>5
  <2>6. CASE k = 6
    BY <1>18, <1>20, <1>21, <1>22, <2>6
  <2> QED BY <2>1, <2>2, <2>3, <2>4, <2>5, <2>6
<1>26. x <= t /\ y <= t
  BY <1>21, <1>22, <1>23
<1>27. k = 6 => y = t
  BY <1>22, <1>23
<1>28. k > n => x = t /\ y = t
  <2>1. ASSUME k > n
        PROVE  /\ k <= 1 => a = 0
               /\ k <= 2 => b = 0
               /\ k <= 3 => d = 0
               /\ k <= 4 => e = 0
               /\ k <= 5 => f = 0
               /\ g = 0
    <3>1. ASSUME NEW j \in 1 .. 6, k <= j
          PROVE  P(j) = 0
      <4>1. j > n
        BY <1>1, <2>1, <3>1
      <4> QED BY <1>4, <4>1
    <3>2. /\ k <= 1 => P(1) = 0
          /\ k <= 2 => P(2) = 0
          /\ k <= 3 => P(3) = 0
          /\ k <= 4 => P(4) = 0
          /\ k <= 5 => P(5) = 0
          /\ k <= 6 => P(6) = 0
      BY <3>1
    <3> QED BY <1>9, <1>10, <1>11, <1>12, <1>13, <1>14, <3>2
  <2> QED BY <1>21, <1>22, <1>23, <2>1
<1>29. k <= n => StartsAt(w, k + 1) = StartsAt(w, k) + p.pars[k].len + 2
  <2>1. ASSUME k <= n
        PROVE  StartsAt(w, k + 1) = StartsAt(w, k) + p.pars[k].len + 2
    <3>1. p.pars[k].len \in Nat
      <4>1. k \in 1 .. n
        BY <1>1, <2>1
      <4> QED BY <1>3, <4>1
    <3>2. PICK l \in Nat : l = p.pars[k].len
      BY <3>1
    <3>3. m = l + 2
      BY <1>8, <1>20, <2>1, <3>2
    <3>4. y = x + l + 2
      BY <1>25, <3>3
    <3> QED BY <1>24, <3>2, <3>4
  <2> QED BY <2>1
<1> QED BY <1>17, <1>23, <1>24, <1>26, <1>28, <1>29, <1>27 DEF w, HeaderSize

(* The state of the dissector's loop before round k: the offset is where a     *)
(* parameter starts, and left what there is from it to the end of the frame.   *)
SetsBefore(p, k) ==
    IF \A i \in SetsOf(p) : i >= k THEN 0
    ELSE IF \A i \in LaterSets(p) : i >= k THEN 1 ELSE 2
ShownPars == {Shown(par, n) : par \in Pars, n \in Nat}
InStep(p, d, k) ==
    /\ d.offset = StartsAt(ToBuffer(p), k) /\ ~d.lost
    /\ d.left = (HeaderSize + Bytes(p.pars)) - StartsAt(ToBuffer(p), k)
    /\ d.sets = SetsBefore(p, k)
    /\ d.shown \in Seq(ShownPars)
    /\ Len(d.shown) = IF k <= Len(p.pars) THEN k - 1 ELSE Len(p.pars)
    /\ \A i \in SetsOf(p) :
          i < k => d.shown[i] = ShownSet(CutPar(p.pars[i]).val, i \in LaterSets(p))

(* At most two sets.                                                           *)
LEMMA SetsCount ==
    ASSUME NEW B, NEW p, NEW c, Carries(B, p, c), NEW k \in 1 .. 6
    PROVE  /\ k \in SetsOf(p) => /\ SetsBefore(p, k + 1) = SetsBefore(p, k) + 1
                                 /\ SetsBefore(p, k) > 0 <=> k \in LaterSets(p)
           /\ k \notin SetsOf(p) => SetsBefore(p, k + 1) = SetsBefore(p, k)
           /\ SetsBefore(p, 1) = 0 /\ SetsBefore(p, k) \in 0 .. 2
<1>1. SetSlots(p, c.first, c.second) /\ SetsOf(p) \subseteq Nat /\ SetsOf(p) \subseteq 1 .. Len(p.pars)
  BY DEF Carries, SetsOf, ParsOf
<1>2. LaterSets(p) = {i \in SetsOf(p) : \E j \in SetsOf(p) : j < i}
  BY DEF LaterSets
<1>3. CASE SetsOf(p) = {}
  <2>1. LaterSets(p) = {}
    BY <1>2, <1>3
  <2> QED BY <1>3, <2>1 DEF SetsBefore
<1>4. ASSUME NEW x \in Nat \ {0}, SetsOf(p) = {x}
      PROVE  /\ k \in SetsOf(p) => /\ SetsBefore(p, k + 1) = SetsBefore(p, k) + 1
                                   /\ SetsBefore(p, k) > 0 <=> k \in LaterSets(p)
             /\ k \notin SetsOf(p) => SetsBefore(p, k + 1) = SetsBefore(p, k)
             /\ SetsBefore(p, 1) = 0 /\ SetsBefore(p, k) \in 0 .. 2
  <2>1. LaterSets(p) = {}
    BY <1>2, <1>4
  <2>2. \A i \in Nat : SetsBefore(p, i) = IF x >= i THEN 0 ELSE 1
    BY <1>4, <2>1 DEF SetsBefore
  <2>3. k \in Nat /\ k + 1 \in Nat /\ 1 \in Nat
    OBVIOUS
  <2> QED BY <1>4, <2>1, <2>2, <2>3
<1>5. ASSUME NEW x \in Nat \ {0}, NEW y \in Nat, SetsOf(p) = {x, y}, x < y
      PROVE  /\ k \in SetsOf(p) => /\ SetsBefore(p, k + 1) = SetsBefore(p, k) + 1
                                   /\ SetsBefore(p, k) > 0 <=> k \in LaterSets(p)
             /\ k \notin SetsOf(p) => SetsBefore(p, k + 1) = SetsBefore(p, k)
             /\ SetsBefore(p, 1) = 0 /\ SetsBefore(p, k) \in 0 .. 2
  <2>1. LaterSets(p) = {y}
    BY <1>2, <1>5
  <2>2. \A i \in Nat : SetsBefore(p, i) = IF x >= i THEN 0 ELSE IF y >= i THEN 1 ELSE 2
    BY <1>5, <2>1 DEF SetsBefore
  <2>3. k \in Nat /\ k + 1 \in Nat /\ 1 \in Nat
    OBVIOUS
  <2> QED BY <1>5, <2>1, <2>2, <2>3
<1>6. CASE SetsOf(p) # {}
  <2>1. PICK i \in 1 .. Len(p.pars) :
           SetsOf(p) = {i} \/ \E j \in 1 .. Len(p.pars) : SetsOf(p) = {i, j} /\ i < j
    BY <1>1, <1>6 DEF SetSlots
  <2>2. i \in Nat \ {0}
    BY <2>1
  <2>3. CASE SetsOf(p) = {i}
    BY <1>4, <2>2, <2>3
  <2>4. CASE \E j \in 1 .. Len(p.pars) : SetsOf(p) = {i, j} /\ i < j
    <3>1. PICK j \in Nat : SetsOf(p) = {i, j} /\ i < j
      BY <2>4
    <3> QED BY <1>5, <2>2, <3>1
  <2> QED BY <2>1, <2>3, <2>4
<1> QED BY <1>3, <1>6

LEMMA RoundIs ==
    ASSUME NEW w, NEW d, NEW i
    PROVE  /\ d.left = 0 => Round(w, d, i) = d
           /\ d.left # 0 /\ ~d.lost /\ ~(i > Len(w.pars)) /\ d.offset = StartsAt(w, i)
                 => Round(w, d, i) = Passed(d, w.pars[i])
<1>1. ASSUME d.left = 0 PROVE Round(w, d, i) = d
  BY <1>1 DEF Round
<1>2. ASSUME d.left # 0, ~d.lost, ~(i > Len(w.pars)), d.offset = StartsAt(w, i)
      PROVE  Round(w, d, i) = Passed(d, w.pars[i])
  BY <1>2, Zenon DEF Round
<1> QED BY <1>1, <1>2

LEMMA RoundKeepsStep ==
    ASSUME NEW B, NEW p, NEW c, Carries(B, p, c), Few(p), NEW k \in 1 .. 6,
           NEW d, InStep(p, d, k)
    PROVE  InStep(p, Round(ToBuffer(p), d, k), k + 1)
<1> DEFINE n == Len(p.pars)
           w == ToBuffer(p)
           r == Round(w, d, k)
<1>1. p.pars \in Seq(Pars) /\ n \in Nat /\ n <= 6 /\ Len(w.pars) = n
      /\ SetsOf(p) = {i \in 1 .. n : p.pars[i].id = "MAC_ADDR_SET"}
  BY WireIs DEF Few, MaxPar, SetsOf, ParsOf
<1>2. PICK t \in 0 .. 821 : t = HeaderSize + Bytes(p.pars)
  <2>1. PICK b \in 0 .. 813 : b = Bytes(p.pars)
    <3>1. Bytes(p.pars) \in 0 .. 813
      BY WireIs
    <3> QED BY <3>1
  <2>2. HeaderSize + Bytes(p.pars) = 8 + b
    BY <2>1 DEF HeaderSize
  <2>3. 8 + b \in 0 .. 821
    BY <2>1
  <2> QED BY <2>2, <2>3
<1>3. PICK x \in 0 .. t : x = StartsAt(w, k)
  <2>1. StartsAt(w, k) \in Nat /\ StartsAt(w, k) <= t
    BY <1>2, StartsInOrder
  <2> QED BY <2>1
<1>4. PICK y : y = StartsAt(w, k + 1)
  OBVIOUS
<1>5. /\ y <= t
      /\ k <= n => y = x + p.pars[k].len + 2
      /\ k > n => x = t /\ y = t
  <2>1. StartsAt(w, k + 1) <= HeaderSize + Bytes(p.pars)
    BY StartsInOrder
  <2>2. k <= n => StartsAt(w, k + 1) = StartsAt(w, k) + p.pars[k].len + 2
    BY StartsInOrder
  <2>3. k > n => StartsAt(w, k) = HeaderSize + Bytes(p.pars)
                 /\ StartsAt(w, k + 1) = HeaderSize + Bytes(p.pars)
    BY StartsInOrder
  <2> HIDE DEF w, n
  <2> QED BY <1>2, <1>3, <1>4, <2>1, <2>2, <2>3
<1>6. PICK z \in 0 .. 2 : z = SetsBefore(p, k)
  <2>1. SetsBefore(p, k) \in 0 .. 2
    BY SetsCount
  <2> QED BY <2>1
<1>7. d.offset = x /\ d.left = t - x /\ d.sets = z /\ ~d.lost
  <2>1. d.offset = StartsAt(w, k) /\ d.left = (HeaderSize + Bytes(p.pars)) - StartsAt(w, k)
        /\ d.sets = SetsBefore(p, k) /\ ~d.lost
    BY Zenon DEF InStep
  <2> QED BY <1>2, <1>3, <1>6, <2>1
<1>8. /\ d.shown \in Seq(ShownPars)
      /\ Len(d.shown) = IF k <= n THEN k - 1 ELSE n
      /\ \A i \in SetsOf(p) :
            i < k => d.shown[i] = ShownSet(CutPar(p.pars[i]).val, i \in LaterSets(p))
  BY DEF InStep
<1>9. ASSUME r.offset = y, r.left = t - y, r.sets = SetsBefore(p, k + 1), ~r.lost,
              r.shown \in Seq(ShownPars), Len(r.shown) = IF k + 1 <= n THEN (k + 1) - 1 ELSE n,
              \A i \in SetsOf(p) :
                i < k + 1 => r.shown[i] = ShownSet(CutPar(p.pars[i]).val, i \in LaterSets(p))
       PROVE  InStep(p, r, k + 1)
  <2>1. r.offset = StartsAt(w, k + 1) /\ r.left = (HeaderSize + Bytes(p.pars)) - StartsAt(w, k + 1)
    BY <1>2, <1>4, <1>9
  <2> HIDE DEF r
  <2> QED BY <1>9, <2>1, Zenon DEF InStep
<1>10. /\ k \in SetsOf(p) => SetsBefore(p, k + 1) = z + 1 /\ (z > 0 <=> k \in LaterSets(p))
       /\ k \notin SetsOf(p) => SetsBefore(p, k + 1) = z
  BY <1>6, SetsCount
<1>11. CASE k > n
  <2>1. d.left = 0 /\ x = t /\ y = t
    <3>1. x = t /\ y = t /\ t - t = 0
      BY <1>5, <1>11
    <3> QED BY <1>7, <3>1
  <2>2. r = d
    BY <2>1, RoundIs
  <2>3. k \notin SetsOf(p) /\ \A i \in SetsOf(p) : i < k
    BY <1>1, <1>11
  <2>4. Len(d.shown) = n /\ ~(k + 1 <= n)
    BY <1>1, <1>8, <1>11
  <2>5. t - y = t - x
    BY <2>1
  <2> HIDE DEF r, n
  <2>6. SetsBefore(p, k + 1) = z
    BY <1>10, <2>3
  <2>7. n = IF k + 1 <= n THEN (k + 1) - 1 ELSE n
    BY <2>4
  <2>8. r.offset = y /\ r.left = t - y /\ r.sets = SetsBefore(p, k + 1) /\ ~r.lost
    <3>1. r.offset = x /\ r.left = t - x /\ r.sets = z /\ ~r.lost
      BY <1>7, <2>2
    <3> QED BY <2>1, <2>5, <2>6, <3>1
  <2>9. r.shown \in Seq(ShownPars) /\ Len(r.shown) = IF k + 1 <= n THEN (k + 1) - 1 ELSE n
    BY <1>8, <2>2, <2>4, <2>7, Zenon
  <2>10. \A i \in SetsOf(p) :
            i < k + 1 => r.shown[i] = ShownSet(CutPar(p.pars[i]).val, i \in LaterSets(p))
    BY <1>8, <2>2, <2>3, Zenon
  <2>11. InStep(p, r, k + 1)
    BY <1>9, <2>8, <2>9, <2>10
  <2> QED BY <2>11 DEF r
<1>12. CASE k <= n
  <2> DEFINE q == p.pars[k]
             l == w.pars[k]
  <2>1. k \in 1 .. n
    BY <1>1, <1>12
  <2>2. GoodPar(q) /\ l = OnLine(q)
    BY <1>1, <2>1 DEF Carries, Shaped, ToBuffer
  <2>3. PICK m \in 0 .. 253 : m = q.len
    <3>1. q.len \in 0 .. 253
      BY <2>2, LineAdvance
    <3> QED BY <3>1
  <2>4. l.len = m + 2 /\ l.id = q.id /\ Advance(l) = m
    BY <2>2, <2>3, LineAdvance
  <2>5. y = x + m + 2
    BY <1>5, <1>12, <2>3
  <2>6. t - x # 0 /\ (t - x) - (m + 2) = t - y /\ (t - x) - (m + 2) \in 0 .. 821
        /\ x + 2 + m = y
    BY <1>5, <2>5
  <2>7. ((t - x) - (m + 2)) % 2 ^ 16 = t - y
    <3>1. PICK v \in 0 .. 821 : v = (t - x) - (m + 2)
      BY <2>6
    <3>2. 2 ^ 16 = 65536
      OBVIOUS
    <3>3. v % 65536 = v
      OBVIOUS
    <3> QED BY <2>6, <3>1, <3>2, <3>3
  <2> DEFINE more == z + (IF l.id = "MAC_ADDR_SET" THEN 1 ELSE 0)
             new  == Append(d.shown, Shown(l, z))
  <2>8. r = Passed(d, l)
    <3>1. d.left # 0 /\ ~d.lost /\ d.offset = StartsAt(w, k)
      BY <1>3, <1>7, <2>6
    <3>2. ~(k > Len(w.pars))
      BY <1>1, <1>12
    <3> HIDE DEF w
    <3> QED BY <3>1, <3>2, RoundIs
  <2>9. d.offset = x /\ d.left = t - x /\ d.sets = z
    BY <1>7
  <2> HIDE DEF r, l, q, w
  <2>10. r = [offset |-> y, left |-> t - y, sets |-> more, shown |-> new, lost |-> FALSE]
    <3>1. d.offset + 2 + Advance(l) = y /\ (d.left - l.len) % 2 ^ 16 = t - y
      BY <2>4, <2>6, <2>7, <2>9
    <3> QED BY <2>8, <2>9, <3>1 DEF Passed
  <2>11. more = SetsBefore(p, k + 1)
    <3>1. (l.id = "MAC_ADDR_SET") <=> k \in SetsOf(p)
      BY <1>1, <2>1, <2>4 DEF q
    <3> QED BY <1>10, <3>1
  <2>12. Shown(l, z) \in ShownPars
    <3>1. l \in Pars /\ z \in Nat
      BY <2>2, ParComesThrough
    <3> QED BY <3>1 DEF ShownPars
  <2>13. Len(d.shown) = k - 1
    BY <1>8, <1>12
  <2> DEFINE u == Shown(l, z)
  <2> HIDE DEF u
  <2>14. /\ new \in Seq(ShownPars) /\ Len(new) = k /\ new[k] = u
         /\ \A i \in 1 .. k - 1 : new[i] = d.shown[i]
    BY <1>8, <2>12, <2>13 DEF u
  <2> HIDE DEF new, more
  <2>15. k = IF k + 1 <= n THEN (k + 1) - 1 ELSE n
    BY <1>1, <1>12
  <2>16. \A i \in SetsOf(p) :
            i < k + 1 => new[i] = ShownSet(CutPar(p.pars[i]).val, i \in LaterSets(p))
    <3> SUFFICES ASSUME NEW i \in SetsOf(p), i < k + 1
                 PROVE  new[i] = ShownSet(CutPar(p.pars[i]).val, i \in LaterSets(p))
      OBVIOUS
    <3>1. i \in 1 .. n
      BY <1>1
    <3>2. CASE i < k
      <4>1. i \in 1 .. k - 1
        BY <3>1, <3>2
      <4> QED BY <1>8, <2>14, <3>2, <4>1
    <3>3. CASE i = k
      <4>1. q.id = "MAC_ADDR_SET" /\ z \in Nat
        BY <1>1, <3>3 DEF q
      <4>2. u = ShownSet(CutPar(q).val, z > 0)
        BY <2>2, <4>1, LineShown DEF u
      <4>3. (z > 0) <=> k \in LaterSets(p)
        BY <1>10, <3>3
      <4>4. (z > 0) = (k \in LaterSets(p))
        BY <4>3
      <4> QED BY <2>14, <3>3, <4>2, <4>4 DEF q
    <3> QED BY <3>1, <3>2, <3>3
  <2>17. r.shown = new
    BY <2>10
  <2>18. r.offset = y /\ r.left = t - y /\ r.sets = more /\ ~r.lost
    BY <2>10
  <2> HIDE DEF n
  <2>19. Len(new) = IF k + 1 <= n THEN (k + 1) - 1 ELSE n
    BY <2>14, <2>15, Zenon
  <2>20. r.shown \in Seq(ShownPars) /\ Len(r.shown) = IF k + 1 <= n THEN (k + 1) - 1 ELSE n
    BY <2>14, <2>17, <2>19, Zenon
  <2>21. \A i \in SetsOf(p) :
            i < k + 1 => r.shown[i] = ShownSet(CutPar(p.pars[i]).val, i \in LaterSets(p))
    BY <2>16, <2>17, Zenon
  <2>22. r.sets = SetsBefore(p, k + 1)
    BY <2>11, <2>18, Zenon
  <2>23. InStep(p, r, k + 1)
    BY <1>9, <2>18, <2>20, <2>21, <2>22
  <2> QED BY <2>23 DEF r, w
<1> QED BY <1>1, <1>11, <1>12

LEMMA DissectedInStep ==
    ASSUME NEW B, NEW p, NEW c, Carries(B, p, c), Few(p)
    PROVE  InStep(p, Dissect(ToBuffer(p)), 7)
<1> DEFINE w  == ToBuffer(p)
           d0 == [offset |-> HeaderSize, left |-> w.length - HeaderSize, sets |-> 0,
                  shown |-> <<>>, lost |-> FALSE]
           d1 == Round(w, d0, 1)
           d2 == Round(w, d1, 2)
           d3 == Round(w, d2, 3)
           d4 == Round(w, d3, 4)
           d5 == Round(w, d4, 5)
           d6 == Round(w, d5, 6)
<1>1. Dissect(w) = d6
  BY DEF Dissect, MaxPar
<1>2. InStep(p, d0, 1)
  <2>1. w.length = HeaderSize + Bytes(p.pars)
    BY WireIs
  <2>2. StartsAt(w, 1) = HeaderSize /\ SetsBefore(p, 1) = 0
    <3>1. 1 \in 1 .. 6
      OBVIOUS
    <3> QED BY <3>1, StartsInOrder, SetsCount
  <2>3. <<>> \in Seq(ShownPars) /\ Len(<<>>) = 0
    OBVIOUS
  <2>4. \A i \in SetsOf(p) : ~(i < 1)
    BY DEF SetsOf, ParsOf
  <2>5. Len(p.pars) \in Nat
    BY WireIs
  <2>6. d0.shown = <<>> /\ d0.offset = HeaderSize /\ d0.left = w.length - HeaderSize
        /\ d0.sets = 0 /\ ~d0.lost
    OBVIOUS
  <2>7. 0 = IF 1 <= Len(p.pars) THEN 1 - 1 ELSE Len(p.pars)
    BY <2>5
  <2> HIDE DEF w, d0
  <2>8. d0.left = (HeaderSize + Bytes(p.pars)) - StartsAt(w, 1)
    BY <2>1, <2>2, <2>6
  <2>9. d0.offset = StartsAt(w, 1) /\ d0.sets = SetsBefore(p, 1)
    BY <2>2, <2>6, Zenon
  <2>10. d0.shown \in Seq(ShownPars) /\ Len(d0.shown) = IF 1 <= Len(p.pars) THEN 1 - 1 ELSE Len(p.pars)
    BY <2>3, <2>6, <2>7
  <2>11. \A i \in SetsOf(p) :
            i < 1 => d0.shown[i] = ShownSet(CutPar(p.pars[i]).val, i \in LaterSets(p))
    BY <2>4, Zenon
  <2> QED BY <2>6, <2>8, <2>9, <2>10, <2>11, Zenon DEF InStep, w
<1> HIDE DEF d0
<1>3. InStep(p, d1, 2)
  <2>1. 1 \in 1 .. 6 /\ 1 + 1 = 2
    OBVIOUS
  <2> QED BY <1>2, <2>1, RoundKeepsStep
<1> HIDE DEF d1
<1>4. InStep(p, d2, 3)
  <2>1. 2 \in 1 .. 6 /\ 2 + 1 = 3
    OBVIOUS
  <2>2. InStep(p, d2, 2 + 1)
    BY <1>3, <2>1, RoundKeepsStep
  <2> QED BY <2>1, <2>2
<1> HIDE DEF d2
<1>5. InStep(p, d3, 4)
  <2>1. 3 \in 1 .. 6 /\ 3 + 1 = 4
    OBVIOUS
  <2>2. InStep(p, d3, 3 + 1)
    BY <1>4, <2>1, RoundKeepsStep
  <2> QED BY <2>1, <2>2
<1> HIDE DEF d3
<1>6. InStep(p, d4, 5)
  <2>1. 4 \in 1 .. 6 /\ 4 + 1 = 5
    OBVIOUS
  <2>2. InStep(p, d4, 4 + 1)
    BY <1>5, <2>1, RoundKeepsStep
  <2> QED BY <2>1, <2>2
<1> HIDE DEF d4
<1>7. InStep(p, d5, 6)
  <2>1. 5 \in 1 .. 6 /\ 5 + 1 = 6
    OBVIOUS
  <2>2. InStep(p, d5, 5 + 1)
    BY <1>6, <2>1, RoundKeepsStep
  <2> QED BY <2>1, <2>2
<1> HIDE DEF d5
<1>8. InStep(p, d6, 7)
  <2>1. 6 \in 1 .. 6 /\ 6 + 1 = 7
    OBVIOUS
  <2>2. InStep(p, d6, 6 + 1)
    BY <1>7, <2>1, RoundKeepsStep
  <2> QED BY <2>1, <2>2
<1> QED BY <1>1, <1>8

(* Behind the last parameter.                                                  *)
LEMMA DissectorReads ==
    ASSUME NEW B, NEW p, NEW c, Carries(B, p, c), Few(p)
    PROVE  LET w == ToBuffer(p)
               d == Dissect(w)
           IN  /\ ~d.lost /\ d.left = 0 /\ d.offset + (MinSize - HeaderSize) = w.bytes
               /\ Len(d.shown) = Len(w.pars) /\ d.sets <= 2
               /\ \A i \in SetsOf(p) :
                     d.shown[i] = ShownSet(CutPar(p.pars[i]).val, i \in LaterSets(p))
<1> DEFINE n == Len(p.pars)
           w == ToBuffer(p)
           d == Dissect(w)
<1>1. n \in Nat /\ n <= 6 /\ Len(w.pars) = n /\ w.bytes = MinSize + Bytes(p.pars)
      /\ SetsOf(p) \subseteq 1 .. n
  BY WireIs DEF Few, MaxPar, SetsOf, ParsOf
<1>2. PICK b \in 0 .. 813 : b = Bytes(p.pars)
  <2>1. Bytes(p.pars) \in 0 .. 813
    BY WireIs
  <2> QED BY <2>1
<1>3. InStep(p, d, 7)
  BY DissectedInStep
<1> HIDE DEF d
<1>4. /\ d.offset = StartsAt(w, 7) /\ ~d.lost
      /\ d.left = (HeaderSize + Bytes(p.pars)) - StartsAt(w, 7)
      /\ d.sets = SetsBefore(p, 7)
      /\ Len(d.shown) = IF 7 <= n THEN 7 - 1 ELSE n
      /\ \A i \in SetsOf(p) :
            i < 7 => d.shown[i] = ShownSet(CutPar(p.pars[i]).val, i \in LaterSets(p))
  BY <1>3 DEF InStep
<1>5. StartsAt(w, 7) = 8 + b
  <2>1. 6 \in 1 .. 6 /\ 6 + 1 = 7
    OBVIOUS
  <2>2. StartsAt(w, 6 + 1) = HeaderSize + Bytes(p.pars)
    BY <2>1, StartsInOrder
  <2> QED BY <1>2, <2>1, <2>2 DEF HeaderSize
<1>6. SetsBefore(p, 7) <= 2
  BY DEF SetsBefore
<1> HIDE DEF w
<1>7. d.left = 0
  BY <1>2, <1>4, <1>5 DEF HeaderSize
<1>8. d.offset + (MinSize - HeaderSize) = w.bytes
  BY <1>1, <1>2, <1>4, <1>5 DEF MinSize, HeaderSize
<1>9. \A i \in SetsOf(p) : i < 7
  BY <1>1
<1> QED BY <1>1, <1>4, <1>6, <1>7, <1>8, <1>9 DEF d, w

LEMMA DissectorShows ==
    ASSUME NEW B, NEW p, NEW c, Carries(B, p, c), Few(p), NEW h, h = Parsed(ToBuffer(p)),
           NEW i \in SetsOf(h)
    PROVE  Dissect(ToBuffer(p)).shown[i] = ShownSet(h.pars[i].val, i \in LaterSets(h))
<1>1. Carries(B, h, Heard(c)) /\ \A j \in 1 .. Len(p.pars) : h.pars[j] = CutPar(p.pars[j])
  BY ComesThrough
<1>2. Carries(B, h, Heard(c)) /\ \A id : ParsOf(h, id) = ParsOf(p, id)
  BY ComesThrough
<1>3. SetsOf(h) = SetsOf(p) /\ LaterSets(h) = LaterSets(p)
  <2>1. SetsOf(h) = SetsOf(p)
    BY <1>2 DEF SetsOf
  <2> QED BY <2>1 DEF LaterSets
<1>4. i \in SetsOf(p) /\ i \in 1 .. Len(p.pars)
  BY <1>3 DEF SetsOf, ParsOf
<1>5. Dissect(ToBuffer(p)).shown[i] = ShownSet(CutPar(p.pars[i]).val, i \in LaterSets(p))
  BY <1>4, DissectorReads
<1> QED BY <1>1, <1>3, <1>4, <1>5

LEMMA InvDissector == ASSUME PacketsInv PROVE DissectorAgrees
<1> SUFFICES ASSUME wire # None PROVE DissectorAgrees
  BY DEF DissectorAgrees
<1>1. PICK p : p = sent /\ wire = ToBuffer(p) /\ Told
  BY DEF PacketsInv
<1>2. PICK B, c : Carries(B, p, c) /\ Fitting(conf.station, p.type, p.status, c)
  BY <1>1 DEF Told
<1>3. Few(p)
  <2>1. c \in Contents /\ Len(p.pars) = Used(c)
    BY <1>2 DEF Carries
  <2>2. \/ c.second = None
        \/ c.text["NETWORK_ID"] = None /\ c.text["VENDOR"] = None
    BY <1>2 DEF Fitting
  <2> QED BY <2>1, <2>2, UsedIsSmall DEF Few
<1>4. PICK h : h = Parsed(wire)
  OBVIOUS
<1>5. PICK d : d = Dissect(wire)
  OBVIOUS
<1>6. /\ ~d.lost /\ d.left = 0 /\ d.offset + (MinSize - HeaderSize) = wire.bytes
      /\ Len(d.shown) = Len(wire.pars) /\ d.sets <= 2
  BY <1>1, <1>2, <1>3, <1>5, DissectorReads
<1>7. \A i \in SetsOf(h) : d.shown[i] = ShownSet(h.pars[i].val, i \in LaterSets(h))
  BY <1>1, <1>2, <1>3, <1>4, <1>5, DissectorShows
<1> QED BY <1>4, <1>5, <1>6, <1>7, Zenon DEF DissectorAgrees, ShownSet

(* The dissector reads every packet as the program does (packet-palma.c): it   *)
(* stays in step to the last byte, and shows the sets that a handler is given. *)
THEOREM PacketsDissected == Spec => []DissectorAgrees
<1>1. PacketsInv => DissectorAgrees
  BY InvDissector
<1> QED BY <1>1, PacketsInvariant, PTL
=============================================================================
