--------------------------- MODULE MCPalmaService ---------------------------
(* A client that wants multicast addresses and has none of its own (m), two    *)
(* that want unicast addresses, one with an address from the pool (u) and one  *)
(* with none (v), and one with an address and a known server (k), whose set is *)
(* one address or one too large.                                               *)
EXTENDS PalmaService, TLC
MCPool == "unicast" :> <<1, 2>> @@ "multicast" :> <<11, 11>>
MCMaxAddr == "unicast" :> 2 @@ "multicast" :> 1
MCLifetime == "unicast" :> 1 @@ "multicast" :> 2
MCSizes == {2}
MCWants == [s \in Sessions |-> IF s \in {"u", "v"} THEN "unicast" ELSE "multicast"]
MCOwnAddr == [s \in Sessions |-> CASE s = "u" -> 2 [] s = "k" -> 20 [] OTHER -> 0]
MCKnown == [s \in Sessions |-> IF s = "k" THEN {<<11, 12>>, <<11, 11>>} ELSE {}]
MCMaxClaim == [s \in Sessions |-> 1]
=============================================================================
