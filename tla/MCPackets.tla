------------------------------ MODULE MCPackets ------------------------------
(* Texts of one, two and 253 characters (the most that a length byte can say), *)
(* unicast addresses of 48 bits and multicast addresses of 64, and sets below, *)
(* at and above the largest count, aligned and not.                            *)
EXTENDS PacketDissector, TLC

MCRanges == {<<1, 1>>, <<2, 3>>, <<1, 4>>, <<3, 6>>}
MCKinds == {[bits |-> 48, mcast |-> FALSE, slap |-> "AAI"],
            [bits |-> 64, mcast |-> TRUE, slap |-> "ELI"]}
MCLetters == "a" :> 1 @@ "bc" :> 2 @@ "long" :> 253
=============================================================================
