--------------------------- MODULE PacketDissector ---------------------------
(* dissect_palma of the Wireshark plugin (packet-palma.c): a second reader of  *)
(* the packets, which keeps an offset and the bytes that are left itself, and  *)
(* takes from the length of a parameter what kind of set it holds.             *)
EXTENDS Packets

(* Where the i-th parameter of packet w really starts: behind those before it. *)
LenBefore(w, i, j) == IF j < i /\ j <= Len(w.pars) THEN w.pars[j].len ELSE 0
StartsAt(w, i) ==
    HeaderSize + LenBefore(w, i, 1) + LenBefore(w, i, 2) + LenBefore(w, i, 3)
               + LenBefore(w, i, 4) + LenBefore(w, i, 5) + LenBefore(w, i, MaxPar)

(* How far the switch moves the offset behind the type and the length.  (A     *)
(* slip: the mask of a set of 64-bit addresses is shown, not passed.)          *)
AdvancePastAddress(par) ==
    CASE par.id = "MAC_ADDR_SET" ->
            (CASE par.len = 10 -> 8 [] par.len = 14 -> 12
               [] par.len = 12 -> 10 [] par.len = 18 -> 8 [] OTHER -> par.len - 2)
      [] par.id = "LIFETIME"    -> 2
      [] par.id = "CLIENT_ADDR" -> 6
      [] OTHER                  -> par.len - 2
Advance(par) ==
    CASE par.id = "MAC_ADDR_SET" ->
            LET addr == IF par.len \in {10, 14} THEN 6
                        ELSE IF par.len \in {12, 18} THEN 8 ELSE par.len - 2
            IN  addr + (CASE par.len \in {10, 12} -> 2 [] par.len = 14 -> 6
                          [] par.len = 18 -> 8 [] OTHER -> 0)
      [] par.id = "LIFETIME"    -> 2
      [] par.id = "CLIENT_ADDR" -> 6
      [] OTHER                  -> par.len - 2

(* What the tree shows of a parameter; sets counts the sets shown before.      *)
Shown(par, sets) ==
    CASE par.id = "MAC_ADDR_SET" ->
            [id |-> par.id, conflict |-> sets > 0,
             bits |-> IF par.len \in {10, 14} THEN 48 ELSE 64,
             form |-> IF par.len \in {10, 12} THEN "count" ELSE "mask",
             lo |-> par.val.lo, size |-> par.val.size]
      [] OTHER -> [id |-> par.id, val |-> par.val]

(* One round of the loop, which ends with the bytes that are left; a parameter *)
(* is there to be read only if the offset is where one starts.                 *)
Passed(d, par) ==
    [offset |-> d.offset + 2 + Advance(par),
     left   |-> (d.left - par.len) % 2 ^ 16,
     sets   |-> d.sets + (IF par.id = "MAC_ADDR_SET" THEN 1 ELSE 0),
     shown  |-> Append(d.shown, Shown(par, d.sets)),
     lost   |-> FALSE]
Lost(d) == [d EXCEPT !.lost = TRUE]
Round(w, d, i) ==
    IF d.left = 0 \/ d.lost THEN d
    ELSE IF i > Len(w.pars) \/ d.offset # StartsAt(w, i) THEN Lost(d)
    ELSE Passed(d, w.pars[i])
Dissect(w) ==
    LET d0 == [offset |-> HeaderSize, left |-> w.length - HeaderSize, sets |-> 0,
               shown |-> <<>>, lost |-> FALSE]
        d1 == Round(w, d0, 1)
        d2 == Round(w, d1, 2)
        d3 == Round(w, d2, 3)
        d4 == Round(w, d3, 4)
        d5 == Round(w, d4, 5)
    IN  Round(w, d5, MaxPar)

----------------------------------------------------------------------------
(* The dissector and the program read every packet alike: the dissector stays  *)
(* in step to the last byte of the frame, never counts more than the two sets  *)
(* it has fields for, and shows each set as the program reads it.              *)
DissectorAgrees ==
    wire # None =>
        LET d    == Dissect(wire)
            read == Parsed(wire)
        IN  /\ ~d.lost /\ d.left = 0 /\ d.offset + (MinSize - HeaderSize) = wire.bytes
            /\ Len(d.shown) = Len(wire.pars) /\ d.sets <= 2
            /\ \A i \in SetsOf(read) :
                  LET set == read.pars[i].val
                  IN  d.shown[i] = [id |-> "MAC_ADDR_SET", conflict |-> i \in LaterSets(read),
                                    bits |-> set.kind.bits, form |-> set.form,
                                    lo |-> set.lo, size |-> set.size]
=============================================================================
