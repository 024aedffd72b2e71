--------------------------- MODULE ClientDatabase ---------------------------
(* A client's SetDatabase: it excludes the sets that ANNOUNCE and DEFEND       *)
(* messages say others use (DiscoveryState::checkSet, DefendingState), so that *)
(* getFreeSet finds it a set to discover.                                      *)
EXTENDS SetDatabase

(* heard[a]: the seconds left of the last lifetime announced for address a,    *)
(* kept to compare the database with.  The code has no such variable.          *)
VARIABLE heard

cvars == <<blocks, heard>>

ClientInit == Init /\ heard = [a \in First .. Last |-> 0]

(* exclude first cuts the announced set to m_total_set; outside it does        *)
(* nothing.  A DISCOVER the client ignores, so only other sets come in.        *)
DbExclude(lo, hi, life) ==
    LET l == Greatest({lo, First})
        h == AtMost(hi, Last)
    IN  /\ l <= h
        /\ blocks' = Exclude(blocks, l, h, life)
        /\ heard' = [a \in First .. Last |-> IF a \in l .. h THEN life ELSE heard[a]]

ClientCall == \E lo, hi \in First - 1 .. Last + 1, life \in Lifetimes :
                  DbExclude(lo, hi, life)

ClientTick == /\ Tick
              /\ heard' = [a \in First .. Last |-> IF heard[a] > 0 THEN heard[a] - 1 ELSE 0]

ClientExpire == Expire /\ UNCHANGED heard

ClientNext == ClientCall \/ ClientExpire \/ ClientTick
ClientSpec == ClientInit /\ [][ClientNext]_cvars

----------------------------------------------------------------------------
(* However announcements overlap and repeat, an address held excluded is held  *)
(* for what its last announcement said, give or take the second that exclude   *)
(* tolerates: no stale timer survives a join, a split or an early return.      *)
ExclusionsFresh ==
    \A b \in Held(blocks) : \A a \in Addrs(b) : b.left - heard[a] \in {-1, 0, 1}

(* PALMA.pdf p. 38: DEFENDs and ANNOUNCEs are stored so that the next DISCOVER *)
(* can be "chosen between the free sets left in this database": an address     *)
(* announced for longer than the tolerated second is in no free set.           *)
AnnouncedIsNotFree ==
    \A b \in blocks : IsFree(b) => \A a \in Addrs(b) : heard[a] <= 1
=============================================================================
