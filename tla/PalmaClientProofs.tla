--------------------------- MODULE PalmaClientProofs ---------------------------
(* What holds of every client for any clients, pools, sizes, offers,           *)
(* acknowledgements and retries.  First the timers: in every state exactly     *)
(* those of that state run; one lemma per handler says what it leaves running. *)
(* Then the sets: a client keeps the membership it needs, claims only what     *)
(* its database has free, keeps its minimum through conflicts, and gives       *)
(* addresses up whenever it answers one.                                       *)
EXTENDS PalmaClient, AddressBlockProofs, FiniteSetTheorems

Members == {"id", "state", "own", "assigned", "mcast", "src", "claim", "tries", "offer",
            "change", "filter", "timers", "db", "out"}
IsClient(r) == DOMAIN r = Members

TimersIn(state) ==
    CASE state = "discovery"  -> {"discovery"}
      [] state = "requesting" -> {"request"}
      [] state = "bound"      -> {"lease"}
      [] state = "defending"  -> {"announcement", "lifetime"}
      [] OTHER -> {}

(* A client between two handlers, one whose handler has stopped its timers, or *)
(* whose timer has just fired, and one that may restart.                       *)
Fits(r)  == IsClient(r) /\ r.state \in States /\ r.timers = TimersIn(r.state)
Quiet(r) == IsClient(r) /\ r.timers = {}
Busy(r)  == /\ IsClient(r) /\ r.timers \subseteq TimersIn(r.state)
            /\ r.state \in {"discovery", "requesting", "bound", "defending"}

----------------------------------------------------------------------------
LEMMA FitsIsBusy ==
    ASSUME NEW r, Fits(r), r.state \in {"discovery", "requesting", "bound", "defending"}
    PROVE  Busy(r)
BY DEF Fits, Busy

LEMMA SendDiscoverRuns ==
    ASSUME NEW r, IsClient(r), NEW q \in SendDiscover(r)
    PROVE  IsClient(q) /\ q.state = r.state /\ q.timers = r.timers \cup {"discovery"}
BY DEF SendDiscover, IsClient, Members

LEMMA StartDiscoveryFits ==
    ASSUME NEW r, Quiet(r), NEW q \in StartDiscovery(r)
    PROVE  Fits(q)
<1>1. PICK S \in Discoverable(r) :
        q \in SendDiscover([r EXCEPT !.state = "discovery", !.tries = Retries, !.src = 0,
                                     !.claim = S, !.offer = NoOffer, !.change = FALSE,
                                     !.mcast = TRUE])
  BY DEF StartDiscovery
<1> DEFINE p == [r EXCEPT !.state = "discovery", !.tries = Retries, !.src = 0,
                          !.claim = S, !.offer = NoOffer, !.change = FALSE, !.mcast = TRUE]
<1>2. IsClient(p) /\ p.state = "discovery" /\ p.timers = {}
  BY DEF Quiet, IsClient, Members
<1> HIDE DEF p
<1>3. IsClient(q) /\ q.state = "discovery" /\ q.timers = {"discovery"}
  BY <1>1, <1>2, SendDiscoverRuns DEF p
<1> QED BY <1>3 DEF Fits, TimersIn, States

LEMMA StartRequestingFits ==
    ASSUME NEW r, Quiet(r), NEW src, NEW S, NEW renewal \in BOOLEAN,
           NEW q \in StartRequesting(r, src, S, renewal)
    PROVE  Fits(q)
<1>1. IsClient(q) /\ q.state = "requesting" /\ q.timers = {"request"}
  BY DEF StartRequesting, Quiet, IsClient, Members
<1> QED BY <1>1 DEF Fits, TimersIn, States

LEMMA BeginFits ==
    ASSUME NEW r, Quiet(r), NEW q \in Begin(r)
    PROVE  Fits(q)
BY StartRequestingFits, StartDiscoveryFits DEF Begin

LEMMA CleanIsQuiet ==
    ASSUME NEW r, Busy(r)
    PROVE  Quiet(Clean(r))
<1>1. CASE r.state = "discovery"
  <2>1. Quiet(CleanDiscovery(r))
    BY <1>1 DEF CleanDiscovery, Busy, Quiet, IsClient, Members, TimersIn
  <2> QED BY <1>1, <2>1 DEF Clean
<1>2. CASE r.state = "requesting"
  <2>1. Quiet(CleanRequesting(r))
    BY <1>2 DEF CleanRequesting, Busy, Quiet, IsClient, Members, TimersIn
  <2> QED BY <1>2, <2>1 DEF Clean
<1>3. CASE r.state = "defending"
  <2>1. Quiet(CleanDefending(r))
    BY <1>3 DEF CleanDefending, Busy, Quiet, IsClient, Members, TimersIn
  <2> QED BY <1>3, <2>1 DEF Clean
<1>4. CASE r.state = "bound"
  <2>1. Quiet(CleanBound(r))
    BY <1>4 DEF CleanBound, Busy, Quiet, IsClient, Members, TimersIn
  <2> QED BY <1>4, <2>1 DEF Clean
<1> QED BY <1>1, <1>2, <1>3, <1>4 DEF Busy

LEMMA RestartFits ==
    ASSUME NEW r, Busy(r), NEW q \in Restart(r)
    PROVE  Fits(q)
<1> DEFINE p == Clean(r)
           n == [p EXCEPT !.filter = IF Roams(p) THEN DropAddr(@, p.own) ELSE @,
                          !.own = IF Roams(p) THEN 0 ELSE @, !.assigned = {}]
<1>1. Quiet(p)
  BY CleanIsQuiet
<1> HIDE DEF p
<1>2. Quiet(n)
  BY <1>1 DEF Quiet, IsClient, Members
<1>3. q \in Begin(n)
  BY DEF Restart, p
<1> HIDE DEF n
<1> QED BY <1>2, <1>3, BeginFits

LEMMA SendAnnounceRuns ==
    ASSUME NEW r, IsClient(r)
    PROVE  /\ IsClient(SendAnnounce(r)) /\ SendAnnounce(r).state = r.state
           /\ SendAnnounce(r).timers = r.timers \cup {"announcement"}
BY DEF SendAnnounce, IsClient, Members

LEMMA StartDefendingFits ==
    ASSUME NEW r, Quiet(r), NEW S, NEW q \in StartDefending(r, S)
    PROVE  Fits(q)
<1>1. PICK a \in IF Roams(r) THEN UNION RandomSets(S, 1) ELSE {r.own} :
        q = SendAnnounce([r EXCEPT !.state = "defending", !.assigned = S, !.own = a,
                                   !.filter = IF Roams(r) THEN AddAddr(@, a) ELSE @,
                                   !.timers = @ \cup {"lifetime"}])
  BY DEF StartDefending
<1> DEFINE p == [r EXCEPT !.state = "defending", !.assigned = S, !.own = a,
                          !.filter = IF Roams(r) THEN AddAddr(@, a) ELSE @,
                          !.timers = @ \cup {"lifetime"}]
<1>2. IsClient(p) /\ p.state = "defending" /\ p.timers = {"lifetime"}
  BY DEF Quiet, IsClient, Members
<1>3. q = SendAnnounce(p)
  BY <1>1
<1> HIDE DEF p
<1>4. IsClient(q) /\ q.state = "defending" /\ q.timers = {"lifetime"} \cup {"announcement"}
  BY <1>2, <1>3, SendAnnounceRuns
<1> QED BY <1>4 DEF Fits, TimersIn, States

LEMMA StartBoundFits ==
    ASSUME NEW r, Quiet(r), NEW q \in StartBound(r)
    PROVE  Fits(q)
<1> DEFINE p == [r EXCEPT !.state = "bound"]
<1>1. IsClient(p) /\ p.state = "bound" /\ p.timers = {}
  BY DEF Quiet, IsClient, Members
<1>2. q \in (IF Cardinality(p.assigned) >= MinClaim
             THEN {[p EXCEPT !.timers = @ \cup {"lease"}]} ELSE Restart(p))
  BY DEF StartBound
<1> HIDE DEF p
<1>3. CASE q = [p EXCEPT !.timers = @ \cup {"lease"}]
  BY <1>1, <1>3 DEF Fits, TimersIn, States, IsClient, Members
<1>4. CASE q \in Restart(p)
  <2>1. Busy(p)
    BY <1>1 DEF Busy
  <2> QED BY <1>4, <2>1, RestartFits
<1> QED BY <1>2, <1>3, <1>4

----------------------------------------------------------------------------
(* Packets.                                                                    *)
LEMMA HearFits ==
    ASSUME NEW r, IsClient(r), NEW S
    PROVE  /\ IsClient(Hear(r, S)) /\ Hear(r, S).state = r.state
           /\ Hear(r, S).timers = r.timers
BY DEF Hear, IsClient, Members

LEMMA ProcessConflictFits ==
    ASSUME NEW r, Fits(r), r.state = "defending", NEW m, NEW q \in ProcessConflict(r, m)
    PROVE  Fits(q)
<1>1. CASE \E n : q = [r EXCEPT !.assigned = Trim(@, n)]
  BY <1>1 DEF Fits, IsClient, Members
<1>2. CASE q = SendDefend([r EXCEPT !.assigned = Trim(@, MinClaim)], m)
  BY <1>2 DEF SendDefend, Fits, IsClient, Members
<1>3. CASE q \in Restart(r)
  BY <1>3, FitsIsBusy, RestartFits
<1> QED BY <1>1, <1>2, <1>3 DEF ProcessConflict

LEMMA HandleUsedFits ==
    ASSUME NEW r, Fits(r), NEW m, NEW q \in HandleUsed(r, m)
    PROVE  Fits(q)
<1> DEFINE h == Hear(r, m.set)
<1>1. IsClient(h) /\ h.state = r.state /\ h.timers = r.timers
  BY HearFits DEF Fits
<1> HIDE DEF h
<1>2. Fits(h)
  BY <1>1 DEF Fits
<1>3. CASE q = CheckSet(r, m.set)
  <2>1. q = [h EXCEPT !.change = @ \/ m.set \cap r.claim # {}]
    BY <1>3 DEF CheckSet, h
  <2> QED BY <1>2, <2>1 DEF Fits, IsClient, Members
<1>4. CASE r.state = "defending" /\ q \in ProcessConflict(h, m)
  BY <1>1, <1>2, <1>4, ProcessConflictFits
<1>5. CASE q = h \/ q = r
  BY <1>2, <1>5
<1> QED BY <1>3, <1>4, <1>5 DEF HandleUsed, h

LEMMA HandleDiscoverFits ==
    ASSUME NEW r, Fits(r), NEW m, NEW q \in HandleDiscover(r, m)
    PROVE  Fits(q)
BY DEF HandleDiscover, SendDefend, Fits, IsClient, Members

LEMMA StoreOfferFits ==
    ASSUME NEW r, Fits(r), NEW o, NEW q \in StoreOffer(r, o)
    PROVE  Fits(q)
BY DEF StoreOffer, Fits, IsClient, Members

LEMMA AcceptOfferFits ==
    ASSUME NEW r, Fits(r), r.state = "defending", NEW o, NEW q \in AcceptOffer(r, o)
    PROVE  Fits(q)
<1> DEFINE p == CleanDefending([r EXCEPT !.own = IF Roams(r) THEN 0 ELSE @])
<1>1. Quiet(p)
  BY DEF CleanDefending, Fits, Quiet, IsClient, Members, TimersIn
<1>2. q = r \/ q \in StartRequesting(p, SourceOf(r, o), o.set, FALSE)
  BY DEF AcceptOffer
<1> HIDE DEF p
<1> QED BY <1>1, <1>2, StartRequestingFits

LEMMA HandleAckFits ==
    ASSUME NEW r, Fits(r), r.state = "requesting", NEW k, NEW q \in HandleAck(r, k)
    PROVE  Fits(q)
<1> DEFINE p == CleanRequesting([r EXCEPT !.own = r.src, !.src = 0, !.assigned = k.set])
<1>1. Quiet(p)
  BY DEF CleanRequesting, Fits, Quiet, IsClient, Members, TimersIn
<1>2. q \in StartBound(p) \/ q \in Restart(r)
  BY DEF HandleAck
<1> HIDE DEF p
<1> QED BY <1>1, <1>2, StartBoundFits, RestartFits, FitsIsBusy

----------------------------------------------------------------------------
(* Timeouts: the timer that fired is off the list.                             *)
LEMMA RungIsBusy ==
    ASSUME NEW r, Fits(r), NEW timer, timer \in r.timers
    PROVE  /\ Busy(Rung(r, timer)) /\ Rung(r, timer).state = r.state
           /\ Rung(r, timer).timers = r.timers \ {timer}
<1>1. r.state \in {"discovery", "requesting", "bound", "defending"}
  BY DEF Fits, TimersIn, States
<1> QED BY <1>1 DEF Rung, Busy, Fits, IsClient, Members

LEMMA DiscoveryTimeoutFits ==
    ASSUME NEW r, Quiet(r), r.state = "discovery", NEW q \in DiscoveryTimeout(r)
    PROVE  Fits(q)
<1>1. Busy(r)
  BY DEF Busy, Quiet
<1>2. Quiet(CleanDiscovery(r))
  BY DEF CleanDiscovery, Quiet, IsClient, Members
<1>3. CASE q \in StartRequesting(CleanDiscovery(r), SourceOf(r, r.offer), r.offer.set, FALSE)
  BY <1>2, <1>3, StartRequestingFits
<1>4. CASE q \in Restart(r)
  BY <1>1, <1>4, RestartFits
<1>5. CASE q \in SendDiscover([r EXCEPT !.tries = @ - 1])
  <2> DEFINE p == [r EXCEPT !.tries = @ - 1]
  <2>1. IsClient(p) /\ p.state = "discovery" /\ p.timers = {}
    BY DEF Quiet, IsClient, Members
  <2> HIDE DEF p
  <2>2. IsClient(q) /\ q.state = "discovery" /\ q.timers = {"discovery"}
    BY <1>5, <2>1, SendDiscoverRuns DEF p
  <2> QED BY <2>2 DEF Fits, TimersIn, States
<1>6. CASE \E S \in SelfSets(r) : q \in StartDefending(CleanDiscovery(r), S)
  BY <1>2, <1>6, StartDefendingFits
<1> QED BY <1>3, <1>4, <1>5, <1>6 DEF DiscoveryTimeout

LEMMA RequestTimeoutFits ==
    ASSUME NEW r, Quiet(r), r.state = "requesting", NEW q \in RequestTimeout(r)
    PROVE  Fits(q)
<1>1. Busy(r)
  BY DEF Busy, Quiet
<1>2. CASE q = [r EXCEPT !.tries = @ - 1, !.timers = @ \cup {"request"}]
  BY <1>2 DEF Quiet, Fits, IsClient, Members, TimersIn, States
<1>3. CASE q \in Restart(r)
  BY <1>1, <1>3, RestartFits
<1> QED BY <1>2, <1>3 DEF RequestTimeout

LEMMA LeaseTimeoutFits ==
    ASSUME NEW r, Quiet(r), r.state = "bound", NEW q \in LeaseTimeout(r)
    PROVE  Fits(q)
<1>1. Busy(r)
  BY DEF Busy, Quiet
<1>2. Quiet(CleanBound(r))
  BY DEF CleanBound, Quiet, IsClient, Members
<1> QED BY <1>1, <1>2, StartRequestingFits, RestartFits DEF LeaseTimeout

----------------------------------------------------------------------------
(* The inductive invariant.                                                    *)
AllFit == DOMAIN client = Clients /\ \A c \in Clients : Fits(client[c])

(* Whoever becomes one of clients that fit, all fit.                           *)
LEMMA BecomeFits ==
    ASSUME AllFit, NEW c \in Clients, NEW results, NEW rest, Become(c, results, rest),
           \A q \in results : Fits(q)
    PROVE  AllFit'
<1>1. PICK q \in results : client' = [client EXCEPT ![c] = [q EXCEPT !.out = {}]]
  BY DEF Become
<1>2. Fits([q EXCEPT !.out = {}])
  BY <1>1 DEF Fits, IsClient, Members
<1> QED BY <1>1, <1>2 DEF AllFit

LEMMA AllFitInductive == Spec => []AllFit
<1>1. Init => AllFit
  <2> SUFFICES ASSUME Init, NEW c \in Clients PROVE Fits(Fresh(c))
    BY DEF Init, AllFit
  <2> QED BY DEF Fresh, Fits, IsClient, Members, TimersIn, States
<1>2. AllFit /\ [Next]_vars => AllFit'
  <2> SUFFICES ASSUME AllFit, Next PROVE AllFit'
    BY DEF vars, AllFit
  <2>1. ASSUME NEW c \in Clients, Start(c) PROVE AllFit'
    <3>1. Quiet(client[c])
      BY <2>1 DEF AllFit, Start, Fits, Quiet, TimersIn
    <3> QED BY <2>1, <3>1, BeginFits, BecomeFits DEF Start
  <2>2. ASSUME NEW c \in Clients, TimeoutOf(c) PROVE AllFit'
    <3> DEFINE r == client[c]
    <3>1. Fits(r)
      BY DEF AllFit
    <3>2. CASE DiscoveryEnds(c)
      <4>1. "discovery" \in r.timers /\ r.state = "discovery" /\ r.timers = {"discovery"}
        BY <3>1, <3>2 DEF DiscoveryEnds, Ring, Rings, Fits, TimersIn
      <4>2. Quiet(Rung(r, "discovery")) /\ Rung(r, "discovery").state = "discovery"
        BY <3>1, <4>1, RungIsBusy DEF Busy, Quiet
      <4> QED BY <3>2, <4>2, DiscoveryTimeoutFits, BecomeFits DEF DiscoveryEnds, Ring
    <3>3. CASE RequestEnds(c)
      <4>1. "request" \in r.timers /\ r.state = "requesting" /\ r.timers = {"request"}
        BY <3>1, <3>3 DEF RequestEnds, Ring, Rings, Fits, TimersIn
      <4>2. Quiet(Rung(r, "request")) /\ Rung(r, "request").state = "requesting"
        BY <3>1, <4>1, RungIsBusy DEF Busy, Quiet
      <4> QED BY <3>3, <4>2, RequestTimeoutFits, BecomeFits DEF RequestEnds, Ring
    <3>4. CASE LeaseEnds(c)
      <4>1. "lease" \in r.timers /\ r.state = "bound" /\ r.timers = {"lease"}
        BY <3>1, <3>4 DEF LeaseEnds, Ring, Rings, Fits, TimersIn
      <4>2. Quiet(Rung(r, "lease")) /\ Rung(r, "lease").state = "bound"
        BY <3>1, <4>1, RungIsBusy DEF Busy, Quiet
      <4> QED BY <3>4, <4>2, LeaseTimeoutFits, BecomeFits DEF LeaseEnds, Ring
    <3>5. CASE SelfAssignmentEnds(c)
      <4>1. "lifetime" \in r.timers
        BY <3>5 DEF SelfAssignmentEnds, Ring, Rings
      <4>2. Busy(Rung(r, "lifetime"))
        BY <3>1, <4>1, RungIsBusy
      <4> QED BY <3>5, <4>2, RestartFits, BecomeFits DEF SelfAssignmentEnds, Ring
    <3>6. CASE AnnouncementEnds(c)
      <4> DEFINE p == Rung(r, "announcement")
      <4>1. "announcement" \in r.timers /\ r.state = "defending"
            /\ r.timers = {"announcement", "lifetime"}
        BY <3>1, <3>6 DEF AnnouncementEnds, Ring, Rings, Fits, TimersIn
      <4>2. IsClient(p) /\ p.state = "defending" /\ p.timers = {"lifetime"}
        BY <3>1, <4>1, RungIsBusy DEF Busy
      <4> HIDE DEF p
      <4>3. Fits(SendAnnounce(p))
        BY <4>2, SendAnnounceRuns DEF Fits, TimersIn, States
      <4> QED BY <3>6, <4>3, BecomeFits DEF AnnouncementEnds, Ring, p
    <3> QED BY <2>2, <3>2, <3>3, <3>4, <3>5, <3>6 DEF TimeoutOf
  <2>3. ASSUME NEW c \in Clients, ExclusionEnds(c) PROVE AllFit'
    <3>1. PICK b \in Held(client[c].db) :
            Become(c, {[client[c] EXCEPT !.db = Timeout(@, b)]}, net)
      BY <2>3 DEF ExclusionEnds
    <3>2. Fits([client[c] EXCEPT !.db = Timeout(@, b)])
      BY DEF AllFit, Fits, IsClient, Members
    <3> QED BY <3>1, <3>2, BecomeFits
  <2>4. ASSUME NEW c \in Clients, Exit(c) PROVE AllFit'
    <3> DEFINE p == Clean(client[c])
    <3>1. Become(c, {[p EXCEPT !.state = "ended"]}, net)
      BY <2>4 DEF Exit
    <3>2. CASE client[c].state \in {"discovery", "requesting", "bound", "defending"}
      <4>1. Quiet(p)
        BY <3>2, FitsIsBusy, CleanIsQuiet DEF AllFit
      <4> HIDE DEF p
      <4>2. Fits([p EXCEPT !.state = "ended"])
        BY <4>1 DEF Quiet, Fits, IsClient, Members, TimersIn, States
      <4> QED BY <3>1, <4>2, BecomeFits
    <3> QED BY <2>4, <3>2 DEF Exit, AllFit, Fits, States
  <2>5. ASSUME NEW c \in Clients, HearUsed(c) PROVE AllFit'
    BY <2>5, HandleUsedFits, BecomeFits DEF HearUsed, AllFit
  <2>6. ASSUME NEW c \in Clients, HearDiscover(c) PROVE AllFit'
    BY <2>6, HandleDiscoverFits, BecomeFits DEF HearDiscover, AllFit
  <2>7. ASSUME NEW c \in Clients, GetOffer(c) PROVE AllFit'
    BY <2>7, StoreOfferFits, AcceptOfferFits, BecomeFits DEF GetOffer, AllFit
  <2>8. ASSUME NEW c \in Clients, GetAck(c) PROVE AllFit'
    BY <2>8, HandleAckFits, BecomeFits DEF GetAck, AllFit
  <2>9. CASE Lose
    BY <2>9 DEF Lose, AllFit
  <2> QED BY <2>1, <2>2, <2>3, <2>4, <2>5, <2>6, <2>7, <2>8, <2>9 DEF Next
<1> QED BY <1>1, <1>2, PTL DEF Spec

(* A client is never left without the timer that takes it on, and no timer of  *)
(* a state it has left fires, whatever packets and timeouts come in whatever   *)
(* order.                                                                      *)
THEOREM TimersFollowTheState == Spec => []TimersOfState
<1>1. AllFit => TimersOfState
  BY DEF AllFit, Fits, TimersIn, TimersOfState
<1> QED BY <1>1, AllFitInductive, PTL

----------------------------------------------------------------------------
(* The client's database is as well formed as the server's.                    *)
Sound(B) == SoundIn(B, Ids, First, Last)

LEMMA PoolSound ==
    /\ Sound(WholePool) /\ Held(WholePool) = {}
    /\ \A B : Sound(B) => \A b \in B : Sound(Timeout(B, b))
<1>1. Sound(WholePool) /\ Held(WholePool) = {}
  BY WholeSoundIn, PoolAssumption DEF Sound, WholePool
<1>2. ASSUME NEW B, Sound(B), NEW b \in B PROVE Sound(Timeout(B, b))
  BY <1>2, TimeoutSoundIn, PoolAssumption DEF Sound
<1> QED BY <1>1, <1>2

----------------------------------------------------------------------------
(* Sets of addresses are runs, and stay so.                                    *)
Run(S) == \E lo, hi \in Int : S = lo .. hi

LEMMA RunEnds ==
    ASSUME NEW lo \in Int, NEW hi \in Int, lo <= hi
    PROVE  Least(lo .. hi) = lo /\ Greatest(lo .. hi) = hi
<1>1. lo .. hi \in SUBSET Int /\ lo \in lo .. hi /\ hi \in lo .. hi
      /\ \A y \in lo .. hi : lo <= y /\ y <= hi
  OBVIOUS
<1> QED BY <1>1, LeastIs, GreatestIs

LEMMA RunOfSome ==
    ASSUME NEW S, Run(S), S # {}
    PROVE  \E lo, hi \in Int : /\ lo <= hi /\ S = lo .. hi /\ lo \in S /\ hi \in S
                               /\ Least(S) = lo /\ Greatest(S) = hi
<1>1. PICK lo \in Int, hi \in Int : S = lo .. hi
  BY DEF Run
<1>2. lo <= hi /\ lo \in S /\ hi \in S
  BY <1>1
<1> QED BY <1>1, <1>2, RunEnds

LEMMA EmptyRun == Run({})
<1>1. {} = 1 .. 0
  OBVIOUS
<1> QED BY <1>1 DEF Run

LEMMA TrimRun ==
    ASSUME NEW S, Run(S), NEW n \in Int
    PROVE  Run(Trim(S, n)) /\ Trim(S, n) \subseteq S
<1>1. CASE S = {}
  <2>1. Trim(S, n) = {}
    BY <1>1 DEF Trim
  <2> QED BY <2>1, EmptyRun
<1>2. CASE S # {}
  <2>1. PICK lo \in Int, hi \in Int : S = lo .. hi /\ Least(S) = lo
    BY <1>2, RunOfSome
  <2>2. Trim(S, n) = lo .. AtMost(hi, lo + n - 1)
    BY <2>1 DEF Trim, AtMost
  <2>3. AtMost(hi, lo + n - 1) \in Int
    BY DEF AtMost
  <2> QED BY <2>2, <2>3 DEF Run, Trim
<1> QED BY <1>1, <1>2

LEMMA CommonRun ==
    ASSUME NEW S, Run(S), NEW T, Run(T)
    PROVE  Run(S \cap T)
<1>1. PICK lo \in Int, hi \in Int : S = lo .. hi
  BY DEF Run
<1>2. PICK l \in Int, h \in Int : T = l .. h
  BY DEF Run
<1> DEFINE b == IF lo < l THEN l ELSE lo
           e == IF hi < h THEN hi ELSE h
<1>3. b \in Int /\ e \in Int /\ S \cap T = b .. e
  BY <1>1, <1>2
<1> QED BY <1>3 DEF Run

LEMMA RandomSetsRun ==
    ASSUME NEW S, Run(S), NEW n \in Nat \ {0}, NEW T \in RandomSets(S, n)
    PROVE  Run(T) /\ T \subseteq S
<1>1. CASE T = S
  BY <1>1
<1>2. CASE T # S
  <2>1. ~(Cardinality(S) <= n)
    BY <1>2 DEF RandomSets
  <2>2. S # {}
    BY <2>1, FS_EmptySet
  <2>3. PICK lo \in Int, hi \in Int : S = lo .. hi /\ Least(S) = lo /\ Greatest(S) = hi
    BY <2>2, RunOfSome
  <2>4. PICK a \in lo .. hi - n : T = a .. a + n - 1
    BY <2>1, <2>3 DEF RandomSets
  <2> QED BY <2>3, <2>4 DEF Run
<1> QED BY <1>1, <1>2

LEMMA OnWireInside ==
    ASSUME NEW lo \in Nat, NEW hi \in Nat, lo <= hi
    PROVE  Run(OnWire(lo .. hi)) /\ OnWire(lo .. hi) \subseteq lo .. hi
<1> DEFINE r == AlignedRun(lo, hi)
<1>1. r[1] \in Int /\ r[2] \in Int /\ lo <= r[1] /\ r[1] + r[2] - 1 <= hi
  BY AlignedRunInside
<1>2. OnWire(lo .. hi) = lo .. hi \/ OnWire(lo .. hi) = r[1] .. r[1] + r[2] - 1
  BY RunEnds DEF OnWire
<1> HIDE DEF r
<1> QED BY <1>1, <1>2 DEF Run

----------------------------------------------------------------------------
(* The database of a client after a set was heard.                             *)
LEMMA HearHolds ==
    ASSUME NEW r, IsClient(r), Sound(r.db), NEW S, Run(S)
    PROVE  /\ Sound(Hear(r, S).db)
           /\ \A b \in Held(Hear(r, S).db) : b \in Held(r.db) \/ Addrs(b) \subseteq S
<1> DEFINE in == S \cap First .. Last
<1>0. First \in Int /\ Last \in Int /\ Run(First .. Last)
  BY PoolAssumption DEF Run
<1>1. CASE in = {}
  BY <1>1 DEF Hear
<1>2. CASE in # {}
  <2>1. Run(in)
    BY <1>0, CommonRun
  <2>2. PICK lo \in Int, hi \in Int : /\ lo <= hi /\ in = lo .. hi /\ lo \in in /\ hi \in in
                                      /\ Least(in) = lo /\ Greatest(in) = hi
    BY <1>2, <2>1, RunOfSome
  <2>3. First <= lo /\ hi <= Last
    BY <1>0, <2>2
  <2>4. Hear(r, S).db = Exclude(r.db, lo, hi, 1)
    BY <1>2, <2>2 DEF Hear, IsClient, Members
  <2>5. /\ Sound(Exclude(r.db, lo, hi, 1))
        /\ \A b \in Held(Exclude(r.db, lo, hi, 1)) :
              \/ b.lo = lo /\ b.hi = hi
              \/ b \in Held(r.db)
    BY <2>2, <2>3, ExcludeSoundIn, PoolAssumption DEF Sound
  <2>6. ASSUME NEW b, b.lo = lo, b.hi = hi PROVE Addrs(b) \subseteq S
    BY <2>2, <2>6 DEF Addrs
  <2> QED BY <2>4, <2>5, <2>6
<1> QED BY <1>1, <1>2

(* What getFreeSet finds is a run of addresses that nobody holds.              *)
LEMMA DiscoverableIsFree ==
    ASSUME NEW r, Sound(r.db), NEW S \in Discoverable(r)
    PROVE  /\ Run(S) /\ S \subseteq First .. Last
           /\ \A b \in Held(r.db) : Addrs(b) \cap S = {}
<1>1. CASE S = {}
  BY <1>1, EmptyRun
<1>2. CASE S # {}
  <2>1. PICK f \in GetFreeSet(r.db, MinClaim, MaxClaim) : S = OnWire(Addrs(f))
    BY <1>2 DEF Discoverable
  <2>2. f \in r.db /\ IsFree(f)
    BY DEF GetFreeSet
  <2>3. /\ f.lo \in Int /\ f.hi \in Int /\ f.lo <= f.hi /\ First <= f.lo /\ f.hi <= Last
    BY <2>2 DEF Sound, SoundIn, WellFormed, BlockOf, Tiles
  <2>4. Run(S) /\ S \subseteq f.lo .. f.hi
    BY <2>1, <2>3, OnWireInside, ClientAssumption DEF Addrs
  <2>5. S \subseteq First .. Last
    BY <2>3, <2>4, PoolAssumption
  <2>6. ASSUME NEW b \in Held(r.db) PROVE Addrs(b) \cap S = {}
    <3>1. b \in r.db /\ b # f
      BY <2>2 DEF Held
    <3>2. Addrs(b) \cap Addrs(f) = {}
      BY <2>2, <3>1 DEF Sound, SoundIn, Tiles
    <3> QED BY <2>4, <3>2 DEF Addrs
  <2> QED BY <2>4, <2>5, <2>6
<1> QED BY <1>1, <1>2

----------------------------------------------------------------------------
(* The address filter.                                                         *)
LEMMA MemberIsHeld == \A a \in Filtered : Member(a) \in Memberships
BY DEF Memberships

LEMMA DelKeeps ==
    ASSUME NEW f \in [Memberships -> Nat], NEW a
    PROVE  DelAddr(f, a) \in [Memberships -> Nat] /\ DropAddr(f, a) \in [Memberships -> Nat]
<1> DEFINE m == Member(a)
<1>1. DelAddr(f, a) = IF m \in Memberships /\ f[m] > 0 THEN [f EXCEPT ![m] = @ - 1] ELSE f
  BY DEF DelAddr
<1> HIDE DEF m
<1>2. m \in Memberships /\ f[m] > 0 => f[m] - 1 \in Nat
  OBVIOUS
<1>3. DelAddr(f, a) \in [Memberships -> Nat]
  BY <1>1, <1>2
<1> QED BY <1>3 DEF DropAddr

LEMMA AddKeeps ==
    ASSUME NEW f \in [Memberships -> Nat], NEW a
    PROVE  /\ AddAddr(f, a) \in [Memberships -> Nat]
           /\ a \in Filtered => AddAddr(f, a)[Member(a)] > 0
<1> DEFINE m == Member(a)
<1>0. a \in Filtered => m \in Memberships
  BY MemberIsHeld
<1>1. AddAddr(f, a) = [f EXCEPT ![m] = AtMost(f[m] + 1, MaxMember)]
  BY DEF AddAddr
<1> HIDE DEF m
<1>2. CASE m \in Memberships
  <2>1. AtMost(f[m] + 1, MaxMember) \in Nat \ {0}
    BY <1>2, ClientAssumption DEF AtMost
  <2> QED BY <1>1, <1>2, <2>1 DEF m
<1>3. CASE m \notin Memberships
  <2>1. AddAddr(f, a) = f
    BY <1>1, <1>3
  <2> QED BY <1>0, <1>3, <2>1
<1> QED BY <1>2, <1>3

(* The membership of an address stands.                                        *)
Holds(r, a) == r.filter[Member(a)] > 0

----------------------------------------------------------------------------
(* What holds of a client in any of its handlers, and between them.            *)
IsPacket(p) == "set" \in DOMAIN p /\ Run(p.set)
Stocked(r) == /\ IsClient(r) /\ Sound(r.db) /\ r.filter \in [Memberships -> Nat]
              /\ \A p \in r.out : IsPacket(p)

ClaimFree(r) == \A b \in Held(r.db) : Addrs(b) \cap r.claim = {}
OfferFits(r) == r.offer # NoOffer => r.offer \in Offers /\ ValidOffer(r, r.offer)
Seeks(r) == /\ Run(r.claim) /\ r.claim \subseteq First .. Last /\ OfferFits(r)
            /\ r.change \/ ClaimFree(r)

Tuned(r) ==
    /\ Stocked(r)
    /\ r.state \in {"discovery", "defending"} => r.mcast
    /\ r.state \in {"requesting", "bound"} => ~r.mcast
    /\ Roams(r) => /\ r.state \in {"discovery", "requesting"} => Holds(r, r.src)
                   /\ r.state \in {"bound", "defending"} => Holds(r, r.own)
    /\ r.state = "discovery" => Seeks(r)
    /\ r.state = "defending" => Run(r.assigned)

LEMMA CleanStocked ==
    ASSUME NEW r, Stocked(r), r.state \in {"discovery", "requesting", "bound", "defending"}
    PROVE  /\ Stocked(Clean(r)) /\ Clean(r).id = r.id /\ Clean(r).state = r.state
           /\ Clean(r).mcast = r.mcast
<1>1. CASE r.state = "discovery"
  <2>1. /\ Stocked(CleanDiscovery(r)) /\ CleanDiscovery(r).id = r.id
        /\ CleanDiscovery(r).state = r.state /\ CleanDiscovery(r).mcast = r.mcast
    BY DelKeeps DEF CleanDiscovery, Stocked, IsClient, Members
  <2> QED BY <1>1, <2>1 DEF Clean
<1>2. CASE r.state = "requesting"
  <2>1. /\ Stocked(CleanRequesting(r)) /\ CleanRequesting(r).id = r.id
        /\ CleanRequesting(r).state = r.state /\ CleanRequesting(r).mcast = r.mcast
    BY DelKeeps DEF CleanRequesting, Stocked, IsClient, Members
  <2> QED BY <1>2, <2>1 DEF Clean
<1>3. CASE r.state = "defending"
  <2>1. /\ Stocked(CleanDefending(r)) /\ CleanDefending(r).id = r.id
        /\ CleanDefending(r).state = r.state /\ CleanDefending(r).mcast = r.mcast
    BY DelKeeps DEF CleanDefending, Stocked, IsClient, Members
  <2> QED BY <1>3, <2>1 DEF Clean
<1>4. CASE r.state = "bound"
  <2>1. /\ Stocked(CleanBound(r)) /\ CleanBound(r).id = r.id
        /\ CleanBound(r).state = r.state /\ CleanBound(r).mcast = r.mcast
    BY DEF CleanBound, Stocked, IsClient, Members
  <2> QED BY <1>4, <2>1 DEF Clean
<1> QED BY <1>1, <1>2, <1>3, <1>4

(* The address that a client may start to send from: one of a known membership.*)
LEMMA SourceIsFiltered ==
    ASSUME NEW r, Roams(r), NEW o \in Offers, ValidOffer(r, o)
    PROVE  SourceOf(r, o) \in Filtered
<1>1. CASE o.addr = 0 /\ ~Multicast
  <2>1. o.set # {}
    BY FS_EmptySet, ClientAssumption DEF ValidOffer
  <2>2. PICK x \in o.set : \A y \in o.set : x <= y
    BY <2>1, LeastExists, ClientAssumption
  <2>3. o.set \in SUBSET Int
    BY ClientAssumption
  <2>4. Least(o.set) = x
    BY <2>2, <2>3, LeastIs
  <2>5. x # 0 /\ x \in UNION {p.set : p \in Offers}
    BY ClientAssumption
  <2> QED BY <1>1, <2>4, <2>5 DEF SourceOf, Filtered
<1>2. CASE ~(o.addr = 0 /\ ~Multicast)
  BY <1>2 DEF SourceOf, Filtered, ValidOffer
<1> QED BY <1>1, <1>2

LEMMA ProbeIsFiltered == Probes \subseteq Filtered
BY ClientAssumption DEF Filtered

LEMMA PoolIsFiltered == First .. Last \subseteq Filtered
BY ClientAssumption DEF Filtered

----------------------------------------------------------------------------
(* Into a state.                                                               *)
LEMMA SendDiscoverTuned ==
    ASSUME NEW r, Stocked(r), r.state = "discovery", r.mcast, Seeks(r),
           NEW q \in SendDiscover(r)
    PROVE  Tuned(q)
<1>1. PICK a \in IF Roams(r) THEN Probes ELSE {r.own} :
        q = [r EXCEPT !.src = a,
                      !.filter = IF Roams(r) THEN AddAddr(DropAddr(@, r.src), a) ELSE @,
                      !.timers = @ \cup {"discovery"},
                      !.out = {Packet("DISCOVER", a, Mcast, r.claim)}]
  BY DEF SendDiscover
<1>2. /\ q.filter = IF Roams(r) THEN AddAddr(DropAddr(r.filter, r.src), a) ELSE r.filter
      /\ IsClient(q) /\ q.id = r.id /\ q.state = r.state /\ q.mcast = r.mcast /\ q.src = a
      /\ q.claim = r.claim /\ q.offer = r.offer /\ q.change = r.change /\ q.db = r.db
      /\ q.out = {Packet("DISCOVER", a, Mcast, r.claim)}
  BY <1>1 DEF Stocked, IsClient, Members
<1>3. /\ q.filter \in [Memberships -> Nat]
      /\ Roams(r) => a \in Filtered /\ q.filter[Member(a)] > 0
  <2>1. CASE Roams(r)
    <3>1. a \in Filtered
      BY <1>1, <2>1, ProbeIsFiltered
    <3>2. DropAddr(r.filter, r.src) \in [Memberships -> Nat]
      BY DelKeeps DEF Stocked
    <3> QED BY <3>1, <3>2, <1>2, <2>1, AddKeeps
  <2>2. CASE ~Roams(r)
    BY <2>2, <1>2 DEF Stocked
  <2> QED BY <2>1, <2>2
<1>4. \A p \in q.out : IsPacket(p)
  BY <1>2 DEF Packet, IsPacket, Seeks
<1>5. Stocked(q)
  BY <1>2, <1>3, <1>4 DEF Stocked
<1>6. Seeks(q) /\ (Roams(q) <=> Roams(r))
  BY <1>2 DEF Seeks, OfferFits, ValidOffer, ClaimFree, Roams
<1>7. Roams(q) => Holds(q, q.src)
  BY <1>2, <1>3, <1>6 DEF Holds
<1> QED BY <1>2, <1>5, <1>6, <1>7 DEF Tuned

LEMMA StartDiscoveryTuned ==
    ASSUME NEW r, Stocked(r), NEW q \in StartDiscovery(r)
    PROVE  Tuned(q)
<1>1. PICK S \in Discoverable(r) :
        q \in SendDiscover([r EXCEPT !.state = "discovery", !.tries = Retries, !.src = 0,
                                     !.claim = S, !.offer = NoOffer, !.change = FALSE,
                                     !.mcast = TRUE])
  BY DEF StartDiscovery
<1> DEFINE p == [r EXCEPT !.state = "discovery", !.tries = Retries, !.src = 0,
                          !.claim = S, !.offer = NoOffer, !.change = FALSE, !.mcast = TRUE]
<1>2. /\ Stocked(p) /\ p.state = "discovery" /\ p.mcast /\ p.claim = S /\ p.offer = NoOffer
      /\ p.db = r.db
  BY DEF Stocked, IsClient, Members
<1> HIDE DEF p
<1>3. Seeks(p)
  BY <1>2, DiscoverableIsFree DEF Seeks, OfferFits, ClaimFree, Stocked
<1> QED BY <1>1, <1>2, <1>3, SendDiscoverTuned DEF p

LEMMA StartRequestingTuned ==
    ASSUME NEW r, Stocked(r), NEW src, NEW S, NEW renewal \in BOOLEAN,
           Roams(r) => IF renewal THEN Holds(r, src) ELSE src \in Filtered,
           NEW q \in StartRequesting(r, src, S, renewal)
    PROVE  Tuned(q)
<1>1. /\ q.filter = IF ~renewal /\ Roams(r) THEN AddAddr(r.filter, src) ELSE r.filter
      /\ IsClient(q) /\ q.id = r.id /\ q.state = "requesting" /\ q.mcast = FALSE /\ q.src = src
      /\ q.db = r.db /\ q.out = r.out
  BY DEF StartRequesting, Stocked, IsClient, Members
<1>2. q.filter \in [Memberships -> Nat]
  BY <1>1, AddKeeps DEF Stocked
<1>3. Roams(r) => Holds(q, src)
  <2> SUFFICES ASSUME Roams(r) PROVE Holds(q, src)
    OBVIOUS
  <2>1. CASE renewal
    BY <2>1, <1>1 DEF Holds
  <2>2. CASE ~renewal
    <3>1. src \in Filtered /\ q.filter[Member(src)] > 0
      BY <2>2, <1>1, AddKeeps DEF Stocked
    <3> QED BY <3>1 DEF Holds
  <2> QED BY <2>1, <2>2
<1> QED BY <1>1, <1>2, <1>3 DEF Tuned, Stocked, Roams

LEMMA BeginTuned ==
    ASSUME NEW r, Stocked(r), NEW q \in Begin(r)
    PROVE  Tuned(q)
<1>1. CASE r.id \in Known
  <2>1. ~Roams(r)
    BY <1>1, ClientAssumption DEF Roams
  <2> QED BY <1>1, <2>1, StartRequestingTuned DEF Begin
<1>2. CASE r.id \notin Known
  BY <1>2, StartDiscoveryTuned DEF Begin
<1> QED BY <1>1, <1>2

LEMMA RestartTuned ==
    ASSUME NEW r, Stocked(r), r.state \in {"discovery", "requesting", "bound", "defending"},
           NEW q \in Restart(r)
    PROVE  Tuned(q)
<1> DEFINE p == Clean(r)
           n == [p EXCEPT !.filter = IF Roams(p) THEN DropAddr(@, p.own) ELSE @,
                          !.own = IF Roams(p) THEN 0 ELSE @, !.assigned = {}]
<1>1. Stocked(p)
  BY CleanStocked
<1> HIDE DEF p
<1>2. Stocked(n)
  BY <1>1, DelKeeps DEF Stocked, IsClient, Members
<1>3. q \in Begin(n)
  BY DEF Restart, p
<1> HIDE DEF n
<1> QED BY <1>2, <1>3, BeginTuned

LEMMA SendAnnounceStocked ==
    ASSUME NEW r, Stocked(r), Run(r.assigned)
    PROVE  LET q == SendAnnounce(r)
           IN  /\ Stocked(q) /\ q.id = r.id /\ q.state = r.state /\ q.mcast = r.mcast
               /\ q.own = r.own /\ q.assigned = r.assigned /\ q.filter = r.filter
<1> DEFINE q == SendAnnounce(r)
<1>1. /\ IsClient(q) /\ q.id = r.id /\ q.state = r.state /\ q.mcast = r.mcast
      /\ q.own = r.own /\ q.assigned = r.assigned /\ q.filter = r.filter /\ q.db = r.db
      /\ q.out = {Packet("ANNOUNCE", r.own, Mcast, r.assigned)}
  BY DEF SendAnnounce, Stocked, IsClient, Members
<1> HIDE DEF q
<1>2. \A p \in q.out : IsPacket(p)
  BY <1>1 DEF Packet, IsPacket
<1> QED BY <1>1, <1>2 DEF Stocked, q

LEMMA StartDefendingTuned ==
    ASSUME NEW r, Stocked(r), r.mcast, NEW S, Run(S), S \subseteq First .. Last,
           NEW q \in StartDefending(r, S)
    PROVE  Tuned(q)
<1>1. PICK a \in IF Roams(r) THEN UNION RandomSets(S, 1) ELSE {r.own} :
        q = SendAnnounce([r EXCEPT !.state = "defending", !.assigned = S, !.own = a,
                                   !.filter = IF Roams(r) THEN AddAddr(@, a) ELSE @,
                                   !.timers = @ \cup {"lifetime"}])
  BY DEF StartDefending
<1> DEFINE p == [r EXCEPT !.state = "defending", !.assigned = S, !.own = a,
                          !.filter = IF Roams(r) THEN AddAddr(@, a) ELSE @,
                          !.timers = @ \cup {"lifetime"}]
<1>2. /\ IsClient(p) /\ p.id = r.id /\ p.state = "defending" /\ p.assigned = S /\ p.own = a
      /\ p.filter = (IF Roams(r) THEN AddAddr(r.filter, a) ELSE r.filter)
      /\ p.mcast = r.mcast /\ p.db = r.db /\ p.out = r.out
  BY DEF Stocked, IsClient, Members
<1>3. q = SendAnnounce(p)
  BY <1>1
<1> HIDE DEF p
<1>4. Roams(r) => a \in Filtered
  <2> SUFFICES ASSUME Roams(r) PROVE a \in Filtered
    OBVIOUS
  <2>1. PICK T \in RandomSets(S, 1) : a \in T
    BY <1>1
  <2>2. T \subseteq S
    BY RandomSetsRun
  <2> QED BY <2>1, <2>2, PoolIsFiltered
<1>5. p.filter \in [Memberships -> Nat] /\ (Roams(r) => p.filter[Member(a)] > 0)
  BY <1>2, <1>4, AddKeeps DEF Stocked
<1>6. Stocked(p)
  BY <1>2, <1>5 DEF Stocked
<1>7. /\ Stocked(q) /\ q.id = p.id /\ q.state = p.state /\ q.mcast = p.mcast
      /\ q.own = p.own /\ q.assigned = p.assigned /\ q.filter = p.filter
  BY <1>2, <1>3, <1>6, SendAnnounceStocked
<1>8. Roams(q) => Holds(q, q.own)
  BY <1>2, <1>4, <1>5, <1>7 DEF Roams, Holds
<1> QED BY <1>2, <1>7, <1>8 DEF Tuned

LEMMA StartBoundTuned ==
    ASSUME NEW r, Stocked(r), ~r.mcast, Roams(r) => Holds(r, r.own), NEW q \in StartBound(r)
    PROVE  Tuned(q)
<1> DEFINE p == [r EXCEPT !.state = "bound"]
<1>1. /\ Stocked(p) /\ p.state = "bound" /\ ~p.mcast /\ (Roams(p) => Holds(p, p.own))
  BY DEF Stocked, IsClient, Members, Roams, Holds
<1>2. q \in (IF Cardinality(p.assigned) >= MinClaim
             THEN {[p EXCEPT !.timers = @ \cup {"lease"}]} ELSE Restart(p))
  BY DEF StartBound
<1> HIDE DEF p
<1>3. CASE q = [p EXCEPT !.timers = @ \cup {"lease"}]
  BY <1>1, <1>3 DEF Tuned, Stocked, IsClient, Members, Roams, Holds
<1>4. CASE q \in Restart(p)
  BY <1>1, <1>4, RestartTuned
<1> QED BY <1>2, <1>3, <1>4

----------------------------------------------------------------------------
(* Packets.                                                                    *)
Same(q, r) == /\ IsClient(q) /\ q.id = r.id /\ q.state = r.state /\ q.own = r.own
              /\ q.assigned = r.assigned /\ q.mcast = r.mcast /\ q.src = r.src
              /\ q.claim = r.claim /\ q.offer = r.offer /\ q.filter = r.filter
              /\ q.out = r.out

LEMMA HearSame ==
    ASSUME NEW r, IsClient(r), NEW S
    PROVE  Same(Hear(r, S), r) /\ Hear(r, S).change = r.change
BY DEF Hear, Same, IsClient, Members

(* A client outside DISCOVERY takes any database, and any in DISCOVERY one in  *)
(* which its claim is free, or a change of its mind.                           *)
LEMMA SameTuned ==
    ASSUME NEW r, Tuned(r), NEW q, Same(q, r), Sound(q.db),
           r.state = "discovery" => q.change \/ ClaimFree(q)
    PROVE  Tuned(q)
<1>1. Stocked(q) /\ (Roams(q) <=> Roams(r))
  BY DEF Tuned, Stocked, Same, Roams
<1>2. /\ Roams(r) => (Holds(r, r.src) <=> Holds(q, q.src))
      /\ Roams(r) => (Holds(r, r.own) <=> Holds(q, q.own))
  BY DEF Same, Holds
<1>3. r.state = "discovery" => Seeks(q)
  BY <1>1 DEF Tuned, Seeks, OfferFits, ValidOffer, Same
<1> QED BY <1>1, <1>2, <1>3 DEF Tuned, Same

LEMMA SendDefendTuned ==
    ASSUME NEW r, Tuned(r), r.state = "defending", NEW m, Run(m.set)
    PROVE  Tuned(SendDefend(r, m))
<1> DEFINE q == SendDefend(r, m)
<1>1. /\ IsClient(q) /\ q.id = r.id /\ q.state = "defending" /\ q.own = r.own
      /\ q.assigned = r.assigned /\ q.mcast = r.mcast /\ q.filter = r.filter /\ q.db = r.db
      /\ q.out = {Packet("DEFEND", r.own, m.sa, m.set \cap r.assigned)}
  BY DEF SendDefend, Tuned, Stocked, IsClient, Members
<1> HIDE DEF q
<1>2. Run(m.set \cap r.assigned)
  BY CommonRun DEF Tuned
<1>3. \A p \in q.out : IsPacket(p)
  <2> DEFINE S == m.set \cap r.assigned
             sa == m.sa
  <2>1. q.out = {Packet("DEFEND", r.own, sa, S)} /\ Run(S)
    BY <1>1, <1>2
  <2> HIDE DEF S, sa
  <2> QED BY <2>1 DEF Packet, IsPacket
<1> QED BY <1>1, <1>3 DEF Tuned, Stocked, Roams, Holds, q

LEMMA ShrunkTuned ==
    ASSUME NEW r, Tuned(r), r.state = "defending", NEW n \in Int
    PROVE  LET q == [r EXCEPT !.assigned = Trim(@, n)]
           IN  Tuned(q) /\ q.state = "defending"
<1> DEFINE q == [r EXCEPT !.assigned = Trim(@, n)]
<1>1. /\ IsClient(q) /\ q.id = r.id /\ q.state = "defending" /\ q.own = r.own
      /\ q.assigned = Trim(r.assigned, n) /\ q.mcast = r.mcast /\ q.filter = r.filter
      /\ q.db = r.db /\ q.out = r.out
  BY DEF Tuned, Stocked, IsClient, Members
<1> HIDE DEF q
<1>2. Run(q.assigned)
  BY <1>1, TrimRun DEF Tuned
<1> QED BY <1>1, <1>2 DEF Tuned, Stocked, Roams, Holds, q

LEMMA ProcessConflictTuned ==
    ASSUME NEW r, Tuned(r), r.state = "defending", NEW m, Run(m.set),
           m.set \cap r.assigned # {}, NEW q \in ProcessConflict(r, m)
    PROVE  Tuned(q)
<1> DEFINE left == LeftCount(r, m.set \cap r.assigned)
<1>1. left \in Int
  <2>1. PICK lo \in Int, hi \in Int : r.assigned = lo .. hi /\ Least(r.assigned) = lo
    BY RunOfSome DEF Tuned
  <2>2. Run(m.set \cap r.assigned)
    BY CommonRun DEF Tuned
  <2>3. PICK l \in Int, h \in Int : Least(m.set \cap r.assigned) = l
    BY <2>2, RunOfSome
  <2>4. 2 ^ AddrBits \in Nat \ {0}
    BY ClientAssumption
  <2> QED BY <2>1, <2>3, <2>4 DEF LeftCount
<1>2. MinClaim \in Int
  BY ClientAssumption
<1>3. CASE q = [r EXCEPT !.assigned = Trim(@, left)]
  BY <1>1, <1>3, ShrunkTuned
<1>4. CASE q = SendDefend([r EXCEPT !.assigned = Trim(@, MinClaim)], m)
  BY <1>2, <1>4, ShrunkTuned, SendDefendTuned
<1>5. CASE q \in Restart(r)
  BY <1>5, RestartTuned DEF Tuned
<1> QED BY <1>3, <1>4, <1>5 DEF ProcessConflict

LEMMA HandleUsedTuned ==
    ASSUME NEW r, Tuned(r), NEW m, Run(m.set), NEW q \in HandleUsed(r, m)
    PROVE  Tuned(q)
<1> DEFINE h == Hear(r, m.set)
<1>1. Same(h, r) /\ h.change = r.change
  BY HearSame DEF Tuned, Stocked
<1>2. /\ Sound(h.db)
      /\ \A b \in Held(h.db) : b \in Held(r.db) \/ Addrs(b) \subseteq m.set
  BY HearHolds DEF Tuned, Stocked
<1>3. CASE r.state = "discovery"
  <2>1. q = CheckSet(r, m.set)
    BY <1>3 DEF HandleUsed
  <2>2. q = [h EXCEPT !.change = @ \/ m.set \cap r.claim # {}]
    BY <2>1 DEF CheckSet
  <2> HIDE DEF h
  <2>3. /\ Same(q, r) /\ q.db = h.db
        /\ q.change = (h.change \/ m.set \cap r.claim # {})
    BY <2>2, <1>1 DEF Same, IsClient, Members
  <2>4. ASSUME ~q.change PROVE ClaimFree(q)
    <3>1. ~r.change /\ m.set \cap r.claim = {}
      BY <1>1, <2>3, <2>4
    <3>2. \A b \in Held(r.db) : Addrs(b) \cap r.claim = {}
      BY <1>3, <3>1 DEF Tuned, Seeks, ClaimFree
    <3> QED BY <1>2, <2>3, <3>1, <3>2 DEF ClaimFree, Same
  <2> QED BY <1>2, <2>3, <2>4, SameTuned
<1>4. CASE r.state # "discovery"
  <2>1. Tuned(h)
    BY <1>1, <1>2, <1>4, SameTuned
  <2>2. CASE r.state = "defending" /\ m.set \cap r.assigned # {} /\ q \in ProcessConflict(h, m)
    BY <2>1, <2>2, <1>1, ProcessConflictTuned DEF Same
  <2>3. CASE q = h \/ q = r
    BY <2>1, <2>3
  <2> QED BY <1>4, <2>2, <2>3 DEF HandleUsed
<1> QED BY <1>3, <1>4

LEMMA HandleDiscoverTuned ==
    ASSUME NEW r, Tuned(r), NEW m, Run(m.set), NEW q \in HandleDiscover(r, m)
    PROVE  Tuned(q)
BY SendDefendTuned DEF HandleDiscover

LEMMA StoreOfferTuned ==
    ASSUME NEW r, Tuned(r), NEW o \in Offers, NEW q \in StoreOffer(r, o)
    PROVE  Tuned(q)
<1>1. CASE q = r
  BY <1>1
<1>2. CASE ValidOffer(r, o) /\ q = [r EXCEPT !.offer = o]
  <2>1. /\ IsClient(q) /\ q.id = r.id /\ q.state = r.state /\ q.own = r.own /\ q.src = r.src
        /\ q.assigned = r.assigned /\ q.mcast = r.mcast /\ q.filter = r.filter /\ q.db = r.db
        /\ q.claim = r.claim /\ q.change = r.change /\ q.offer = o /\ q.out = r.out
    BY <1>2 DEF Tuned, Stocked, IsClient, Members
  <2>2. Roams(q) <=> Roams(r)
    BY <2>1 DEF Roams
  <2>3. Seeks(r) => Seeks(q)
    BY <1>2, <2>1, <2>2 DEF Seeks, OfferFits, ValidOffer, ClaimFree
  <2> QED BY <2>1, <2>2, <2>3 DEF Tuned, Stocked, Holds
<1> QED BY <1>1, <1>2 DEF StoreOffer

LEMMA AcceptOfferTuned ==
    ASSUME NEW r, Tuned(r), r.state = "defending", NEW o \in Offers, NEW q \in AcceptOffer(r, o)
    PROVE  Tuned(q)
<1> DEFINE n == [r EXCEPT !.own = IF Roams(r) THEN 0 ELSE @]
           p == CleanDefending(n)
<1>1. Stocked(n) /\ n.id = r.id
  BY DEF Tuned, Stocked, IsClient, Members
<1> HIDE DEF n
<1>2. Stocked(p) /\ p.id = r.id
  BY <1>1, DelKeeps DEF CleanDefending, Stocked, IsClient, Members
<1>3. \/ q = r
      \/ ValidOffer(r, o) /\ q \in StartRequesting(p, SourceOf(r, o), o.set, FALSE)
  BY DEF AcceptOffer, n
<1> HIDE DEF p
<1>4. Roams(p) <=> Roams(r)
  BY <1>2 DEF Roams
<1> QED BY <1>2, <1>3, <1>4, SourceIsFiltered, StartRequestingTuned

LEMMA HandleAckTuned ==
    ASSUME NEW r, Tuned(r), r.state = "requesting", NEW k, NEW q \in HandleAck(r, k)
    PROVE  Tuned(q)
<1> DEFINE n == [r EXCEPT !.own = r.src, !.src = 0, !.assigned = k.set]
           p == CleanRequesting(n)
<1>1. /\ IsClient(n) /\ n.id = r.id /\ n.own = r.src /\ n.src = 0 /\ n.mcast = r.mcast
      /\ n.filter = r.filter /\ n.db = r.db /\ n.out = r.out
  BY DEF Tuned, Stocked, IsClient, Members
<1> HIDE DEF n
<1>2. /\ IsClient(p) /\ p.id = r.id /\ p.own = r.src /\ p.mcast = r.mcast
      /\ p.filter = DropAddr(r.filter, 0) /\ p.db = r.db /\ p.out = r.out
  BY <1>1 DEF CleanRequesting, IsClient, Members
<1>3. q \in StartBound(p) \/ q \in Restart(r)
  BY DEF HandleAck, n
<1> HIDE DEF p
<1>4. p.filter = r.filter
  BY <1>2 DEF DropAddr
<1>5. Stocked(p) /\ ~p.mcast /\ (Roams(p) => Holds(p, p.own))
  BY <1>2, <1>4 DEF Tuned, Stocked, Roams, Holds
<1> QED BY <1>3, <1>5, StartBoundTuned, RestartTuned DEF Tuned

----------------------------------------------------------------------------
(* Timeouts: a client whose timer has fired is as it was but for its timers.   *)
LEMMA RungTuned ==
    ASSUME NEW r, Tuned(r), NEW timer
    PROVE  Tuned(Rung(r, timer)) /\ Rung(r, timer).state = r.state
<1> DEFINE q == Rung(r, timer)
<1>1. Same(q, r) /\ q.db = r.db /\ q.change = r.change
  BY DEF Rung, Same, Tuned, Stocked, IsClient, Members
<1> HIDE DEF q
<1>2. r.state = "discovery" => q.change \/ ClaimFree(q)
  BY <1>1 DEF Tuned, Seeks, ClaimFree, Same
<1> QED BY <1>1, <1>2, SameTuned DEF Tuned, Stocked, Same, q

LEMMA DiscoveryTimeoutTuned ==
    ASSUME NEW r, Tuned(r), r.state = "discovery", NEW q \in DiscoveryTimeout(r)
    PROVE  Tuned(q)
<1> DEFINE p == CleanDiscovery(r)
<1>1. Stocked(p) /\ p.id = r.id /\ p.mcast
  <2>1. Clean(r) = p
    BY DEF Clean
  <2> QED BY <2>1, CleanStocked DEF Tuned
<1>2. Roams(p) <=> Roams(r)
  BY <1>1 DEF Roams
<1> HIDE DEF p
<1>3. CASE r.offer # NoOffer /\ q \in StartRequesting(p, SourceOf(r, r.offer), r.offer.set, FALSE)
  <2>1. Roams(r) => SourceOf(r, r.offer) \in Filtered
    BY <1>3, SourceIsFiltered DEF Tuned, Seeks, OfferFits
  <2> QED BY <1>1, <1>2, <1>3, <2>1, StartRequestingTuned
<1>4. CASE q \in Restart(r)
  BY <1>4, RestartTuned DEF Tuned
<1>5. CASE q \in SendDiscover([r EXCEPT !.tries = @ - 1])
  <2> DEFINE n == [r EXCEPT !.tries = @ - 1]
  <2>1. Same(n, r) /\ n.db = r.db /\ n.change = r.change
    BY DEF Same, Tuned, Stocked, IsClient, Members
  <2> HIDE DEF n
  <2>2. n.change \/ ClaimFree(n)
    BY <2>1 DEF Tuned, Seeks, ClaimFree, Same
  <2>3. Tuned(n) /\ n.state = "discovery"
    BY <2>1, <2>2, SameTuned DEF Tuned, Stocked, Same
  <2> QED BY <1>5, <2>3, SendDiscoverTuned DEF Tuned, n
<1>6. ASSUME NEW S \in SelfSets(r), q \in StartDefending(p, S) PROVE Tuned(q)
  <2>1. SelfSize \in Nat \ {0}
    BY ClientAssumption, SizesAssumption DEF SelfSize, AtMost
  <2>2. Run(S) /\ S \subseteq r.claim
    BY <2>1, TrimRun, RandomSetsRun DEF SelfSets, Tuned, Seeks
  <2> QED BY <1>1, <1>6, <2>2, StartDefendingTuned DEF Tuned, Seeks
<1> QED BY <1>3, <1>4, <1>5, <1>6 DEF DiscoveryTimeout, p

LEMMA RequestTimeoutTuned ==
    ASSUME NEW r, Tuned(r), r.state = "requesting", NEW q \in RequestTimeout(r)
    PROVE  Tuned(q)
<1>1. CASE q = [r EXCEPT !.tries = @ - 1, !.timers = @ \cup {"request"}]
  <2>1. Same(q, r) /\ q.db = r.db
    BY <1>1 DEF Same, Tuned, Stocked, IsClient, Members
  <2> QED BY <2>1, SameTuned DEF Tuned, Stocked
<1>2. CASE q \in Restart(r)
  BY <1>2, RestartTuned DEF Tuned
<1> QED BY <1>1, <1>2 DEF RequestTimeout

(* A renewal goes on from the address that the client has.                     *)
LEMMA LeaseTimeoutTuned ==
    ASSUME NEW r, Tuned(r), r.state = "bound", NEW q \in LeaseTimeout(r)
    PROVE  Tuned(q)
<1> DEFINE p == CleanBound(r)
<1>1. Stocked(p) /\ p.id = r.id /\ p.filter = r.filter
  BY DEF CleanBound, Tuned, Stocked, IsClient, Members
<1> HIDE DEF p
<1>2. CASE q \in StartRequesting(p, r.own, r.assigned, TRUE)
  <2>1. Roams(p) => Holds(p, r.own)
    BY <1>1 DEF Tuned, Roams, Holds
  <2> QED BY <1>1, <1>2, <2>1, StartRequestingTuned
<1>3. CASE q \in Restart(r)
  BY <1>3, RestartTuned DEF Tuned
<1> QED BY <1>2, <1>3 DEF LeaseTimeout, p

----------------------------------------------------------------------------
(* The inductive invariant.                                                    *)
AllTuned == /\ DOMAIN client = Clients /\ \A c \in Clients : Tuned(client[c])
            /\ \A m \in net : IsPacket(m)

LEMMA BecomeTuned ==
    ASSUME AllTuned, NEW c \in Clients, NEW results, NEW rest \in SUBSET net,
           Become(c, results, rest), \A q \in results : Tuned(q)
    PROVE  AllTuned'
<1>1. PICK q \in results :
        /\ client' = [client EXCEPT ![c] = [q EXCEPT !.out = {}]]
        /\ net' = IF Cardinality(rest \cup Sent(c, q)) <= MaxInFlight
                  THEN rest \cup Sent(c, q) ELSE rest
  BY DEF Become
<1> DEFINE s == [q EXCEPT !.out = {}]
<1>2. /\ IsClient(s) /\ s.id = q.id /\ s.state = q.state /\ s.own = q.own
      /\ s.assigned = q.assigned /\ s.mcast = q.mcast /\ s.src = q.src /\ s.claim = q.claim
      /\ s.offer = q.offer /\ s.filter = q.filter /\ s.change = q.change /\ s.db = q.db
      /\ s.out = {}
  BY <1>1 DEF Tuned, Stocked, IsClient, Members
<1>3. Tuned(q)
  BY <1>1
<1>4. client' = [client EXCEPT ![c] = s]
  BY <1>1
<1> HIDE DEF s
<1>5. Stocked(s) /\ (Roams(s) <=> Roams(q))
  BY <1>2, <1>3 DEF Tuned, Stocked, Roams
<1>6. q.state = "discovery" => Seeks(s)
  BY <1>2, <1>3, <1>5 DEF Tuned, Seeks, OfferFits, ValidOffer, ClaimFree
<1>7. Tuned(s)
  BY <1>2, <1>3, <1>5, <1>6 DEF Tuned, Holds
<1>8. \A m \in Sent(c, q) : IsPacket(m)
  <2> SUFFICES ASSUME NEW p \in q.out, NEW d PROVE IsPacket([p EXCEPT !.to = d])
    BY DEF Sent
  <2>1. IsPacket(p)
    BY <1>3 DEF Tuned, Stocked
  <2> QED BY <2>1 DEF IsPacket
<1>9. \A m \in net' : IsPacket(m)
  BY <1>1, <1>8 DEF AllTuned
<1> QED BY <1>4, <1>7, <1>9 DEF AllTuned

LEMMA FreshTuned ==
    ASSUME NEW c
    PROVE  Tuned(Fresh(c))
<1> DEFINE r == Fresh(c)
           f == [a \in Memberships |->
                    IF Preassigned[c] # 0 /\ a = Member(Preassigned[c]) THEN 1 ELSE 0]
<1>1. /\ IsClient(r) /\ r.state = "start" /\ r.filter = f /\ r.db = WholePool /\ r.out = {}
  BY DEF Fresh, IsClient, Members
<1>2. f \in [Memberships -> Nat]
  OBVIOUS
<1> HIDE DEF r, f
<1> QED BY <1>1, <1>2, PoolSound DEF Tuned, Stocked, r

LEMMA AllTunedInductive == Spec => []AllTuned
<1>1. Init => AllTuned
  BY FreshTuned DEF Init, AllTuned
<1>2. AllFit /\ AllTuned /\ [Next]_vars => AllTuned'
  <2> SUFFICES ASSUME AllFit, AllTuned, Next PROVE AllTuned'
    BY DEF vars, AllTuned
  <2>1. ASSUME NEW c \in Clients, Start(c) PROVE AllTuned'
    BY <2>1, BeginTuned, BecomeTuned DEF Start, AllTuned, Tuned
  <2>2. ASSUME NEW c \in Clients, TimeoutOf(c) PROVE AllTuned'
    <3> DEFINE r == client[c]
    <3>1. Fits(r) /\ Tuned(r)
      BY DEF AllFit, AllTuned
    <3>2. \A timer : Tuned(Rung(r, timer)) /\ Rung(r, timer).state = r.state
      BY <3>1, RungTuned
    <3>3. CASE DiscoveryEnds(c)
      <4>1. r.state = "discovery"
        BY <3>1, <3>3 DEF DiscoveryEnds, Ring, Rings, Fits, TimersIn
      <4> QED BY <3>2, <3>3, <4>1, DiscoveryTimeoutTuned, BecomeTuned DEF DiscoveryEnds, Ring
    <3>4. CASE RequestEnds(c)
      <4>1. r.state = "requesting"
        BY <3>1, <3>4 DEF RequestEnds, Ring, Rings, Fits, TimersIn
      <4> QED BY <3>2, <3>4, <4>1, RequestTimeoutTuned, BecomeTuned DEF RequestEnds, Ring
    <3>5. CASE LeaseEnds(c)
      <4>1. r.state = "bound"
        BY <3>1, <3>5 DEF LeaseEnds, Ring, Rings, Fits, TimersIn
      <4> QED BY <3>2, <3>5, <4>1, LeaseTimeoutTuned, BecomeTuned DEF LeaseEnds, Ring
    <3>6. CASE SelfAssignmentEnds(c)
      <4>1. r.state = "defending"
        BY <3>1, <3>6 DEF SelfAssignmentEnds, Ring, Rings, Fits, TimersIn
      <4> QED BY <3>2, <3>6, <4>1, RestartTuned, BecomeTuned DEF SelfAssignmentEnds, Ring, Tuned
    <3>7. CASE AnnouncementEnds(c)
      <4> DEFINE p == Rung(r, "announcement")
      <4>1. r.state = "defending"
        BY <3>1, <3>7 DEF AnnouncementEnds, Ring, Rings, Fits, TimersIn
      <4>2. Tuned(p) /\ p.state = "defending"
        BY <3>2, <4>1
      <4> HIDE DEF p
      <4>3. Tuned(SendAnnounce(p))
        BY <4>2, SendAnnounceStocked DEF Tuned, Roams, Holds
      <4> QED BY <3>7, <4>3, BecomeTuned DEF AnnouncementEnds, Ring, p
    <3> QED BY <2>2, <3>3, <3>4, <3>5, <3>6, <3>7 DEF TimeoutOf
  <2>3. ASSUME NEW c \in Clients, ExclusionEnds(c) PROVE AllTuned'
    <3> DEFINE r == client[c]
    <3>1. PICK b \in Held(r.db) : Become(c, {[r EXCEPT !.db = Timeout(@, b)]}, net)
      BY <2>3 DEF ExclusionEnds
    <3> DEFINE q == [r EXCEPT !.db = Timeout(@, b)]
    <3>2. Tuned(r) /\ b \in r.db
      BY DEF AllTuned, Held
    <3>3. Same(q, r) /\ q.db = Timeout(r.db, b) /\ q.change = r.change
      BY <3>2 DEF Same, Tuned, Stocked, IsClient, Members
    <3>4. Sound(q.db)
      BY <3>2, <3>3, PoolSound DEF Tuned, Stocked
    <3>5. \A s \in Held(q.db) : s \in Held(r.db)
      BY <3>3 DEF Timeout, Held, FreeBlock, IsFree
    <3> HIDE DEF q
    <3>6. r.state = "discovery" => q.change \/ ClaimFree(q)
      BY <3>2, <3>3, <3>5 DEF Tuned, Seeks, ClaimFree, Same
    <3>7. Tuned(q)
      BY <3>2, <3>3, <3>4, <3>6, SameTuned
    <3> QED BY <3>1, <3>7, BecomeTuned DEF q
  <2>4. ASSUME NEW c \in Clients, Exit(c) PROVE AllTuned'
    <3> DEFINE p == Clean(client[c])
               q == [p EXCEPT !.state = "ended"]
    <3>1. Become(c, {q}, net)
      BY <2>4 DEF Exit
    <3>2. client[c].state \in {"discovery", "requesting", "bound", "defending"}
      BY <2>4 DEF Exit, AllFit, Fits, States
    <3>3. Stocked(p)
      BY <3>2, CleanStocked DEF AllTuned, Tuned
    <3> HIDE DEF p
    <3>4. Stocked(q) /\ q.state = "ended"
      BY <3>3 DEF Stocked, IsClient, Members
    <3> HIDE DEF q
    <3>5. Tuned(q)
      BY <3>4 DEF Tuned
    <3> QED BY <3>1, <3>5, BecomeTuned
  <2>5. ASSUME NEW c \in Clients, HearUsed(c) PROVE AllTuned'
    <3>1. PICK m \in net : Become(c, HandleUsed(client[c], m), net \ {m})
      BY <2>5 DEF HearUsed
    <3>2. Tuned(client[c]) /\ Run(m.set)
      BY DEF AllTuned, IsPacket
    <3>3. \A q \in HandleUsed(client[c], m) : Tuned(q)
      BY <3>2, HandleUsedTuned
    <3> QED BY <3>1, <3>3, BecomeTuned
  <2>6. ASSUME NEW c \in Clients, HearDiscover(c) PROVE AllTuned'
    <3>1. PICK m \in net : Become(c, HandleDiscover(client[c], m), net \ {m})
      BY <2>6 DEF HearDiscover
    <3>2. Tuned(client[c]) /\ Run(m.set)
      BY DEF AllTuned, IsPacket
    <3>3. \A q \in HandleDiscover(client[c], m) : Tuned(q)
      BY <3>2, HandleDiscoverTuned
    <3> QED BY <3>1, <3>3, BecomeTuned
  <2>7. ASSUME NEW c \in Clients, GetOffer(c) PROVE AllTuned'
    BY <2>7, StoreOfferTuned, AcceptOfferTuned, BecomeTuned DEF GetOffer, AllTuned
  <2>8. ASSUME NEW c \in Clients, GetAck(c) PROVE AllTuned'
    BY <2>8, HandleAckTuned, BecomeTuned DEF GetAck, AllTuned
  <2>9. CASE Lose
    BY <2>9 DEF Lose, AllTuned
  <2> QED BY <2>1, <2>2, <2>3, <2>4, <2>5, <2>6, <2>7, <2>8, <2>9 DEF Next
<1> QED BY <1>1, <1>2, AllFitInductive, PTL DEF Spec

(* Across offers, alternates, renewals, refusals and conflicts, a client is a   *)
(* member of PALMA_MCAST exactly while it needs to be, and the membership of    *)
(* the address that it talks from stands, whatever addresses share it.         *)
THEOREM MembershipsHold == Spec => []MembershipsStand
<1>1. AllFit /\ AllTuned => MembershipsStand
  <2> SUFFICES ASSUME AllFit, AllTuned, NEW c \in Clients
               PROVE  LET r == client[c] IN
                        /\ r.state \in {"discovery", "defending"} => r.mcast
                        /\ r.state \in {"requesting", "bound"} => ~r.mcast
                        /\ (Roams(r) /\ r.state \notin {"start", "ended"})
                             => r.filter[Member(Talks(r))] > 0
    BY DEF MembershipsStand
  <2> DEFINE r == client[c]
  <2>1. r.state \in States /\ Tuned(r)
    BY DEF AllFit, Fits, AllTuned
  <2> HIDE DEF r
  <2>2. /\ r.state \in {"discovery", "defending"} => r.mcast
        /\ r.state \in {"requesting", "bound"} => ~r.mcast
    BY <2>1 DEF Tuned
  <2>3. ASSUME Roams(r), r.state \notin {"start", "ended"} PROVE r.filter[Member(Talks(r))] > 0
    <3>1. CASE r.state \in {"bound", "defending"}
      BY <2>1, <2>3, <3>1 DEF Tuned, Talks, Holds
    <3>2. CASE r.state \in {"discovery", "requesting"}
      BY <2>1, <2>3, <3>2 DEF Tuned, Talks, Holds
    <3> QED BY <2>1, <2>3, <3>1, <3>2 DEF States
  <2> QED BY <2>2, <2>3 DEF r
<1> QED BY <1>1, AllFitInductive, AllTunedInductive, PTL

(* The set that a client asks for touches nothing its database holds, whatever *)
(* it hears meanwhile, or the client has noted that it must ask for another.   *)
THEOREM ClaimStaysFree == Spec => []ClaimIsFree
<1>1. AllTuned => ClaimIsFree
  BY DEF AllTuned, Tuned, Seeks, ClaimFree, ClaimIsFree
<1> QED BY <1>1, AllTunedInductive, PTL

----------------------------------------------------------------------------
(* The values of the members, and enough addresses.                            *)
Around == UNION Sets

Parts(r) ==
    /\ IsClient(r) /\ r.own \in Filtered \cup {0} /\ r.src \in Filtered \cup {0}
    /\ r.assigned \subseteq Around /\ r.claim \subseteq Around
    /\ r.tries \in 0 .. Retries /\ r.mcast \in BOOLEAN /\ r.change \in BOOLEAN
    /\ r.offer \in Offers \cup {NoOffer} /\ r.filter \in [Memberships -> 0 .. MaxMember]

(* A client that assigns itself as many addresses as it may has its minimum,   *)
(* and so has the aligned run of a block too large for a count.  The code does *)
(* not compare MIN_ADDR_CLAIM with either.                                     *)
MinimumFits ==
    /\ MinClaim <= SelfSize
    /\ \A lo, hi \in First .. Last : hi - lo >= WireMax => MinClaim <= AlignedRun(lo, hi)[2]

Ample(S) == Cardinality(S) >= MinClaim
Enough(r) ==
    /\ r.state = "discovery" => r.claim = {} \/ Ample(r.claim)
    /\ r.state \in {"bound", "defending"} => Ample(r.assigned)

Proper(r) ==
    /\ Parts(r)
    /\ r.state \in {"discovery", "requesting"} => r.tries > 0
    /\ MinimumFits => Enough(r)

LEMMA PoolIsAround ==
    /\ First .. Last \subseteq Around
    /\ \A o \in Offers : o.set \subseteq Around
    /\ \A k \in Acks : k.set \subseteq Around
<1>1. First \in First .. Last /\ Last \in First .. Last
  BY PoolAssumption
<1>2. First .. Last \in Sets
  BY <1>1 DEF Sets
<1>3. \A S \in Sets : S \subseteq Around
  BY DEF Around
<1>4. \A o \in Offers : o.set \in Sets
  BY DEF Sets
<1>5. \A k \in Acks : k.set \in Sets
  BY DEF Sets
<1> QED BY <1>2, <1>3, <1>4, <1>5

LEMMA SizeOfRun ==
    ASSUME NEW S, Run(S), Ample(S)
    PROVE  \E lo, hi \in Int : S = lo .. hi /\ Least(S) = lo /\ Greatest(S) = hi /\ hi - lo + 1 >= MinClaim
<1>1. S # {}
  BY FS_EmptySet, ClientAssumption DEF Ample
<1>2. PICK lo \in Int, hi \in Int : S = lo .. hi /\ Least(S) = lo /\ Greatest(S) = hi /\ lo <= hi
  BY <1>1, RunOfSome
<1>3. Cardinality(lo .. hi) = hi - lo + 1
  BY <1>2, FS_Interval
<1> QED BY <1>2, <1>3 DEF Ample

LEMMA LongIsAmple ==
    ASSUME NEW lo \in Int, NEW hi \in Int, hi - lo + 1 >= MinClaim
    PROVE  Ample(lo .. hi)
<1>1. lo <= hi /\ Cardinality(lo .. hi) = hi - lo + 1
  <2>1. lo <= hi
    BY ClientAssumption
  <2> QED BY <2>1, FS_Interval
<1> QED BY <1>1 DEF Ample

(* No cut below the minimum takes a set below it.                              *)
LEMMA CutIsAmple ==
    ASSUME NEW S, Run(S), Ample(S), NEW n \in Int, MinClaim <= n
    PROVE  Ample(Trim(S, n)) /\ \A T \in RandomSets(S, n) : Ample(T)
<1>1. PICK lo \in Int, hi \in Int :
        S = lo .. hi /\ Least(S) = lo /\ Greatest(S) = hi /\ hi - lo + 1 >= MinClaim
  BY SizeOfRun
<1> DEFINE e == IF hi < lo + n - 1 THEN hi ELSE lo + n - 1
<1>2. e \in Int /\ e - lo + 1 >= MinClaim /\ Trim(S, n) = lo .. e
  BY <1>1 DEF Trim
<1>3. Ample(Trim(S, n))
  BY <1>2, LongIsAmple
<1>4. ASSUME NEW T \in RandomSets(S, n)
      PROVE  Ample(T)
  <2>1. T = S \/ \E a \in lo .. hi - n : T = a .. a + n - 1
    BY <1>1, <1>4 DEF RandomSets
  <2>2. ASSUME NEW a \in lo .. hi - n, T = a .. a + n - 1
        PROVE  Ample(T)
    <3>1. a \in Int /\ a + n - 1 \in Int /\ (a + n - 1) - a + 1 >= MinClaim
      BY <1>1, ClientAssumption
    <3> QED BY <2>2, <3>1, LongIsAmple
  <2> QED BY <2>1, <2>2
<1> QED BY <1>3, <1>4

LEMMA DiscoverableIsAmple ==
    ASSUME NEW r, Sound(r.db), NEW S \in Discoverable(r), MinimumFits
    PROVE  S = {} \/ Ample(S)
<1> SUFFICES ASSUME S # {} PROVE Ample(S)
  OBVIOUS
<1>1. PICK f \in GetFreeSet(r.db, MinClaim, MaxClaim) : S = OnWire(Addrs(f))
  BY DEF Discoverable
<1>2. f \in r.db /\ Offerable(f, MaxClaim) >= MinClaim
  BY DEF GetFreeSet
<1>3. /\ f.lo \in Int /\ f.hi \in Int /\ f.lo <= f.hi /\ First <= f.lo /\ f.hi <= Last
  BY <1>2 DEF Sound, SoundIn, WellFormed, BlockOf, Tiles
<1>4. Addrs(f) = f.lo .. f.hi /\ Cardinality(f.lo .. f.hi) = f.hi - f.lo + 1
  BY <1>3, FS_Interval DEF Addrs
<1>5. MinClaim \in Nat /\ MaxClaim \in Nat /\ WireMax \in Nat
  BY ClientAssumption, SizesAssumption
<1>6. CASE f.hi - f.lo + 1 <= WireMax
  <2>1. S = f.lo .. f.hi
    BY <1>1, <1>3, <1>4, <1>5, <1>6 DEF OnWire
  <2>2. f.hi - f.lo + 1 >= MinClaim
    BY <1>2, <1>3, <1>5, <1>6 DEF Offerable, Size, AtMost
  <2> QED BY <1>3, <2>1, <2>2, LongIsAmple
<1>7. CASE ~(f.hi - f.lo + 1 <= WireMax)
  <2> DEFINE w == AlignedRun(f.lo, f.hi)
  <2>1. f.lo \in First .. Last /\ f.hi \in First .. Last /\ f.hi - f.lo >= WireMax
    BY <1>3, <1>5, <1>7, PoolAssumption
  <2>2. MinClaim <= w[2]
    BY <2>1 DEF MinimumFits
  <2>3. f.lo \in Nat /\ f.hi \in Nat
    BY <1>3, ClientAssumption
  <2>4. w[1] \in Int /\ w[2] \in Int
    BY <1>3, <2>3, AlignedRunInside
  <2>5. Least(f.lo .. f.hi) = f.lo /\ Greatest(f.lo .. f.hi) = f.hi
    BY <1>3, RunEnds
  <2>6. S = w[1] .. w[1] + w[2] - 1
    BY <1>1, <1>3, <1>4, <1>5, <1>7, <2>5 DEF OnWire
  <2> HIDE DEF w
  <2> QED BY <1>5, <2>2, <2>4, <2>6, LongIsAmple
<1> QED BY <1>6, <1>7

(* The filter counts no address above the bound.                               *)
LEMMA FilterStays ==
    ASSUME NEW f \in [Memberships -> 0 .. MaxMember], NEW a
    PROVE  /\ AddAddr(f, a) \in [Memberships -> 0 .. MaxMember]
           /\ DelAddr(f, a) \in [Memberships -> 0 .. MaxMember]
           /\ DropAddr(f, a) \in [Memberships -> 0 .. MaxMember]
<1> DEFINE m == Member(a)
<1>0. MaxMember \in Nat \ {0}
  BY ClientAssumption
<1>1. AddAddr(f, a) = [f EXCEPT ![m] = AtMost(f[m] + 1, MaxMember)]
  BY DEF AddAddr
<1>2. DelAddr(f, a) = IF m \in Memberships /\ f[m] > 0 THEN [f EXCEPT ![m] = @ - 1] ELSE f
  BY DEF DelAddr
<1> HIDE DEF m
<1>3. CASE m \in Memberships
  <2>1. f[m] \in 0 .. MaxMember
    BY <1>3
  <2>2. AtMost(f[m] + 1, MaxMember) \in 0 .. MaxMember
    BY <1>0, <2>1 DEF AtMost
  <2>3. f[m] > 0 => f[m] - 1 \in 0 .. MaxMember
    BY <1>0, <2>1
  <2> QED BY <1>1, <1>2, <1>3, <2>2, <2>3 DEF DropAddr
<1>4. CASE m \notin Memberships
  BY <1>1, <1>2, <1>4 DEF DropAddr
<1> QED BY <1>3, <1>4

----------------------------------------------------------------------------
(* Into a state.                                                               *)
LEMMA CleanParts ==
    ASSUME NEW r, Parts(r), r.state \in {"discovery", "requesting", "bound", "defending"}
    PROVE  Parts(Clean(r))
<1>1. CASE r.state = "discovery"
  <2>1. Parts(CleanDiscovery(r))
    BY FilterStays DEF CleanDiscovery, Parts, IsClient, Members
  <2> QED BY <1>1, <2>1 DEF Clean
<1>2. CASE r.state = "requesting"
  <2>1. Parts(CleanRequesting(r))
    BY FilterStays DEF CleanRequesting, Parts, IsClient, Members
  <2> QED BY <1>2, <2>1 DEF Clean
<1>3. CASE r.state = "defending"
  <2>1. Parts(CleanDefending(r))
    BY FilterStays DEF CleanDefending, Parts, IsClient, Members
  <2> QED BY <1>3, <2>1 DEF Clean
<1>4. CASE r.state = "bound"
  <2>1. Parts(CleanBound(r))
    BY DEF CleanBound, Parts, IsClient, Members
  <2> QED BY <1>4, <2>1 DEF Clean
<1> QED BY <1>1, <1>2, <1>3, <1>4

LEMMA SendDiscoverProper ==
    ASSUME NEW r, Proper(r), r.state = "discovery", NEW q \in SendDiscover(r)
    PROVE  Proper(q)
<1>1. PICK a \in IF Roams(r) THEN Probes ELSE {r.own} :
        q = [r EXCEPT !.src = a,
                      !.filter = IF Roams(r) THEN AddAddr(DropAddr(@, r.src), a) ELSE @,
                      !.timers = @ \cup {"discovery"},
                      !.out = {Packet("DISCOVER", a, Mcast, r.claim)}]
  BY DEF SendDiscover
<1>2. /\ q.filter = IF Roams(r) THEN AddAddr(DropAddr(r.filter, r.src), a) ELSE r.filter
      /\ IsClient(q) /\ q.state = r.state /\ q.mcast = r.mcast /\ q.src = a
      /\ q.claim = r.claim /\ q.offer = r.offer /\ q.change = r.change /\ q.own = r.own
      /\ q.assigned = r.assigned /\ q.tries = r.tries
  BY <1>1 DEF Proper, Parts, IsClient, Members
<1>3. a \in Filtered \cup {0}
  BY <1>1, ProbeIsFiltered DEF Proper, Parts
<1>4. q.filter \in [Memberships -> 0 .. MaxMember]
  BY <1>2, FilterStays DEF Proper, Parts
<1>5. Parts(q)
  BY <1>2, <1>3, <1>4 DEF Proper, Parts
<1> QED BY <1>2, <1>5 DEF Proper, Enough

LEMMA StartDiscoveryProper ==
    ASSUME NEW r, Parts(r), Sound(r.db), NEW q \in StartDiscovery(r)
    PROVE  Proper(q)
<1>1. PICK S \in Discoverable(r) :
        q \in SendDiscover([r EXCEPT !.state = "discovery", !.tries = Retries, !.src = 0,
                                     !.claim = S, !.offer = NoOffer, !.change = FALSE,
                                     !.mcast = TRUE])
  BY DEF StartDiscovery
<1> DEFINE p == [r EXCEPT !.state = "discovery", !.tries = Retries, !.src = 0,
                          !.claim = S, !.offer = NoOffer, !.change = FALSE, !.mcast = TRUE]
<1>2. S \subseteq Around
  BY DiscoverableIsFree, PoolIsAround
<1>3. /\ IsClient(p) /\ p.state = "discovery" /\ p.tries = Retries /\ p.src = 0 /\ p.claim = S
      /\ p.offer = NoOffer /\ p.change = FALSE /\ p.mcast = TRUE /\ p.own = r.own
      /\ p.assigned = r.assigned /\ p.filter = r.filter
  BY DEF Parts, IsClient, Members
<1> HIDE DEF p
<1>4. Retries \in 0 .. Retries /\ Retries > 0
  BY ClientAssumption
<1>5. Parts(p)
  BY <1>2, <1>3, <1>4 DEF Parts
<1>6. MinimumFits => Enough(p)
  BY <1>3, DiscoverableIsAmple DEF Enough
<1>7. Proper(p) /\ p.state = "discovery"
  BY <1>3, <1>4, <1>5, <1>6 DEF Proper
<1> QED BY <1>1, <1>7, SendDiscoverProper DEF p

LEMMA StartRequestingProper ==
    ASSUME NEW r, Parts(r), NEW src \in Filtered \cup {0}, NEW S \in SUBSET Around,
           NEW renewal \in BOOLEAN, NEW q \in StartRequesting(r, src, S, renewal)
    PROVE  Proper(q)
<1>1. Trim(S, MaxClaim) \subseteq Around
  BY DEF Trim
<1>2. /\ q.filter = IF ~renewal /\ Roams(r) THEN AddAddr(r.filter, src) ELSE r.filter
      /\ IsClient(q) /\ q.state = "requesting" /\ q.mcast = FALSE /\ q.src = src
      /\ q.tries = Retries /\ q.claim = Trim(S, MaxClaim)
      /\ q.assigned = (IF renewal THEN Trim(S, MaxClaim) ELSE r.assigned)
      /\ q.own = r.own /\ q.offer = r.offer /\ q.change = r.change
  <2> DEFINE T == Trim(S, MaxClaim)
             f == IF ~renewal /\ Roams(r) THEN AddAddr(r.filter, src) ELSE r.filter
             g == IF renewal THEN T ELSE r.assigned
  <2>1. IsClient(r)
    BY DEF Parts
  <2>2. q = [r EXCEPT !.state = "requesting", !.mcast = FALSE, !.tries = Retries, !.src = src,
                      !.claim = T, !.assigned = g, !.filter = f,
                      !.timers = @ \cup {"request"}]
    BY DEF StartRequesting
  <2> HIDE DEF T, f, g
  <2>3. /\ q.filter = f /\ IsClient(q) /\ q.state = "requesting" /\ q.mcast = FALSE
        /\ q.src = src /\ q.tries = Retries /\ q.claim = T /\ q.assigned = g
        /\ q.own = r.own /\ q.offer = r.offer /\ q.change = r.change
    BY <2>1, <2>2 DEF IsClient, Members
  <2> QED BY <2>3 DEF T, f, g
<1>3. q.filter \in [Memberships -> 0 .. MaxMember]
  BY <1>2, FilterStays DEF Parts
<1>4. Retries \in 0 .. Retries /\ Retries > 0
  BY ClientAssumption
<1>5. Parts(q)
  BY <1>1, <1>2, <1>3, <1>4 DEF Parts
<1> QED BY <1>2, <1>4, <1>5 DEF Proper, Enough

LEMMA BeginProper ==
    ASSUME NEW r, Parts(r), Sound(r.db), NEW q \in Begin(r)
    PROVE  Proper(q)
<1>1. r.own \in Filtered \cup {0} /\ First .. Last \in SUBSET Around
  BY PoolIsAround DEF Parts
<1> QED BY <1>1, StartRequestingProper, StartDiscoveryProper DEF Begin

LEMMA RestartProper ==
    ASSUME NEW r, Parts(r), Stocked(r), r.state \in {"discovery", "requesting", "bound", "defending"},
           NEW q \in Restart(r)
    PROVE  Proper(q)
<1> DEFINE p == Clean(r)
           n == [p EXCEPT !.filter = IF Roams(p) THEN DropAddr(@, p.own) ELSE @,
                          !.own = IF Roams(p) THEN 0 ELSE @, !.assigned = {}]
<1>1. Parts(p) /\ Sound(p.db)
  BY CleanParts, CleanStocked DEF Stocked
<1> HIDE DEF p
<1>2. Parts(n)
  BY <1>1, FilterStays DEF Parts, IsClient, Members
<1>3. n.db = p.db
  BY <1>1 DEF Parts, IsClient, Members
<1>4. q \in Begin(n)
  BY DEF Restart, p
<1> HIDE DEF n
<1> QED BY <1>1, <1>2, <1>3, <1>4, BeginProper

LEMMA SendAnnounceProper ==
    ASSUME NEW r, Proper(r)
    PROVE  Proper(SendAnnounce(r))
<1> DEFINE q == SendAnnounce(r)
<1>1. /\ IsClient(q) /\ q.state = r.state /\ q.mcast = r.mcast /\ q.src = r.src /\ q.own = r.own
      /\ q.claim = r.claim /\ q.offer = r.offer /\ q.change = r.change
      /\ q.assigned = r.assigned /\ q.tries = r.tries /\ q.filter = r.filter
  BY DEF SendAnnounce, Proper, Parts, IsClient, Members
<1> HIDE DEF q
<1> QED BY <1>1 DEF Proper, Parts, Enough, q

LEMMA StartDefendingProper ==
    ASSUME NEW r, Parts(r), NEW S, S \subseteq First .. Last, Run(S), MinimumFits => Ample(S),
           NEW q \in StartDefending(r, S)
    PROVE  Proper(q)
<1>1. PICK a \in IF Roams(r) THEN UNION RandomSets(S, 1) ELSE {r.own} :
        q = SendAnnounce([r EXCEPT !.state = "defending", !.assigned = S, !.own = a,
                                   !.filter = IF Roams(r) THEN AddAddr(@, a) ELSE @,
                                   !.timers = @ \cup {"lifetime"}])
  BY DEF StartDefending
<1> DEFINE p == [r EXCEPT !.state = "defending", !.assigned = S, !.own = a,
                          !.filter = IF Roams(r) THEN AddAddr(@, a) ELSE @,
                          !.timers = @ \cup {"lifetime"}]
<1>2. /\ IsClient(p) /\ p.state = "defending" /\ p.assigned = S /\ p.own = a
      /\ p.filter = (IF Roams(r) THEN AddAddr(r.filter, a) ELSE r.filter)
      /\ p.mcast = r.mcast /\ p.src = r.src /\ p.claim = r.claim /\ p.offer = r.offer
      /\ p.change = r.change /\ p.tries = r.tries
  BY DEF Parts, IsClient, Members
<1>3. q = SendAnnounce(p)
  BY <1>1
<1> HIDE DEF p
<1>4. a \in Filtered \cup {0}
  <2>1. \A T \in RandomSets(S, 1) : T \subseteq S
    BY RandomSetsRun
  <2> QED BY <1>1, <2>1, PoolIsFiltered DEF Parts
<1>5. p.filter \in [Memberships -> 0 .. MaxMember]
  BY <1>2, FilterStays DEF Parts
<1>6. S \subseteq Around
  BY PoolIsAround
<1>7. Parts(p)
  BY <1>2, <1>4, <1>5, <1>6 DEF Parts
<1>8. Proper(p)
  BY <1>2, <1>7 DEF Proper, Enough
<1> QED BY <1>3, <1>8, SendAnnounceProper

LEMMA StartBoundProper ==
    ASSUME NEW r, Parts(r), Stocked(r), NEW q \in StartBound(r)
    PROVE  Proper(q)
<1> DEFINE p == [r EXCEPT !.state = "bound"]
<1>1. Parts(p) /\ Stocked(p) /\ p.state = "bound"
  BY DEF Parts, Stocked, IsClient, Members
<1>2. q \in (IF Cardinality(p.assigned) >= MinClaim
             THEN {[p EXCEPT !.timers = @ \cup {"lease"}]} ELSE Restart(p))
  BY DEF StartBound
<1> HIDE DEF p
<1>3. CASE Ample(p.assigned) /\ q = [p EXCEPT !.timers = @ \cup {"lease"}]
  <2>1. Parts(q) /\ q.state = "bound" /\ q.assigned = p.assigned
    BY <1>1, <1>3 DEF Parts, IsClient, Members
  <2> QED BY <1>3, <2>1 DEF Proper, Enough
<1>4. CASE q \in Restart(p)
  BY <1>1, <1>4, RestartProper
<1> QED BY <1>2, <1>3, <1>4 DEF Ample

----------------------------------------------------------------------------
(* Packets and timeouts.                                                       *)
LEMMA AlikeProper ==
    ASSUME NEW r, Proper(r), NEW q, Same(q, r), q.change \in BOOLEAN, q.tries = r.tries
    PROVE  Proper(q)
BY DEF Proper, Parts, Enough, Same

LEMMA CutProper ==
    ASSUME NEW r, Proper(r), Tuned(r), r.state = "defending", NEW n \in Int, MinClaim <= n
    PROVE  LET q == [r EXCEPT !.assigned = Trim(@, n)]
           IN  Proper(q) /\ IsClient(q) /\ q.state = "defending"
<1> DEFINE q == [r EXCEPT !.assigned = Trim(@, n)]
<1>1. /\ IsClient(q) /\ q.state = "defending" /\ q.mcast = r.mcast /\ q.src = r.src
      /\ q.own = r.own /\ q.claim = r.claim /\ q.offer = r.offer /\ q.change = r.change
      /\ q.assigned = Trim(r.assigned, n) /\ q.tries = r.tries /\ q.filter = r.filter
  BY DEF Proper, Parts, IsClient, Members
<1>2. Trim(r.assigned, n) \subseteq r.assigned
  BY DEF Trim
<1>3. Ample(r.assigned) => Ample(Trim(r.assigned, n))
  BY CutIsAmple DEF Tuned
<1> HIDE DEF q
<1>4. Parts(q)
  BY <1>1, <1>2 DEF Proper, Parts
<1> QED BY <1>1, <1>3, <1>4 DEF Proper, Enough, q

LEMMA SendDefendProper ==
    ASSUME NEW r, Proper(r), NEW m
    PROVE  Proper(SendDefend(r, m))
<1> DEFINE q == SendDefend(r, m)
<1>1. /\ IsClient(q) /\ q.state = r.state /\ q.mcast = r.mcast /\ q.src = r.src /\ q.own = r.own
      /\ q.claim = r.claim /\ q.offer = r.offer /\ q.change = r.change
      /\ q.assigned = r.assigned /\ q.tries = r.tries /\ q.filter = r.filter
  BY DEF SendDefend, Proper, Parts, IsClient, Members
<1> HIDE DEF q
<1> QED BY <1>1 DEF Proper, Parts, Enough, q

LEMMA ProcessConflictProper ==
    ASSUME NEW r, Proper(r), Tuned(r), r.state = "defending", NEW m, Run(m.set),
           m.set \cap r.assigned # {}, NEW q \in ProcessConflict(r, m)
    PROVE  Proper(q)
<1> DEFINE left == LeftCount(r, m.set \cap r.assigned)
<1>1. left \in Int
  <2>1. PICK lo \in Int, hi \in Int : r.assigned = lo .. hi /\ Least(r.assigned) = lo
    BY RunOfSome DEF Tuned
  <2>2. Run(m.set \cap r.assigned)
    BY CommonRun DEF Tuned
  <2>3. PICK l \in Int, h \in Int : Least(m.set \cap r.assigned) = l
    BY <2>2, RunOfSome
  <2>4. 2 ^ AddrBits \in Nat \ {0}
    BY ClientAssumption
  <2> QED BY <2>1, <2>3, <2>4 DEF LeftCount
<1>2. MinClaim \in Int /\ MinClaim <= MinClaim
  BY ClientAssumption
<1>3. CASE left >= MinClaim /\ q = [r EXCEPT !.assigned = Trim(@, left)]
  BY <1>1, <1>3, CutProper, ClientAssumption
<1>4. CASE q = SendDefend([r EXCEPT !.assigned = Trim(@, MinClaim)], m)
  BY <1>2, <1>4, CutProper, SendDefendProper
<1>5. CASE q \in Restart(r)
  BY <1>5, RestartProper DEF Tuned, Proper
<1> QED BY <1>3, <1>4, <1>5 DEF ProcessConflict

LEMMA HandleUsedProper ==
    ASSUME NEW r, Proper(r), Tuned(r), NEW m, Run(m.set), NEW q \in HandleUsed(r, m)
    PROVE  Proper(q)
<1> DEFINE h == Hear(r, m.set)
<1>1. Same(h, r) /\ h.change = r.change /\ h.tries = r.tries
  <2>1. h.tries = r.tries
    BY DEF Hear, Proper, Parts, IsClient, Members
  <2> QED BY <2>1, HearSame DEF Tuned, Stocked
<1>2. Sound(h.db)
  BY HearHolds DEF Tuned, Stocked
<1>3. CASE r.state = "discovery"
  <2>1. q = [h EXCEPT !.change = @ \/ m.set \cap r.claim # {}]
    BY <1>3 DEF HandleUsed, CheckSet
  <2> HIDE DEF h
  <2>2. Same(q, r) /\ q.change = (h.change \/ m.set \cap r.claim # {}) /\ q.tries = r.tries
    BY <2>1, <1>1 DEF Same, IsClient, Members
  <2>3. q.change \in BOOLEAN
    BY <2>2
  <2> QED BY <2>2, <2>3, AlikeProper
<1>4. CASE r.state # "discovery"
  <2>1. Proper(h) /\ Tuned(h)
    BY <1>1, <1>2, <1>4, SameTuned, AlikeProper DEF Proper, Parts
  <2>2. CASE r.state = "defending" /\ m.set \cap r.assigned # {} /\ q \in ProcessConflict(h, m)
    BY <2>1, <2>2, <1>1, ProcessConflictProper DEF Same
  <2>3. CASE q = h \/ q = r
    BY <2>1, <2>3
  <2> QED BY <1>4, <2>2, <2>3 DEF HandleUsed
<1> QED BY <1>3, <1>4

LEMMA StoreOfferProper ==
    ASSUME NEW r, Proper(r), NEW o \in Offers, NEW q \in StoreOffer(r, o)
    PROVE  Proper(q)
<1>1. CASE q = r
  BY <1>1
<1>2. CASE q = [r EXCEPT !.offer = o]
  <2>1. /\ IsClient(q) /\ q.state = r.state /\ q.mcast = r.mcast /\ q.src = r.src /\ q.own = r.own
        /\ q.claim = r.claim /\ q.offer = o /\ q.change = r.change
        /\ q.assigned = r.assigned /\ q.tries = r.tries /\ q.filter = r.filter
    BY <1>2 DEF Proper, Parts, IsClient, Members
  <2> QED BY <2>1 DEF Proper, Parts, Enough
<1> QED BY <1>1, <1>2 DEF StoreOffer

LEMMA SourceIsIn ==
    ASSUME NEW r, Parts(r), NEW o \in Offers, ValidOffer(r, o)
    PROVE  SourceOf(r, o) \in Filtered \cup {0}
<1>1. CASE Roams(r)
  BY <1>1, SourceIsFiltered
<1>2. CASE ~Roams(r)
  BY <1>2 DEF SourceOf, Parts
<1> QED BY <1>1, <1>2

LEMMA AcceptOfferProper ==
    ASSUME NEW r, Proper(r), r.state = "defending", NEW o \in Offers, NEW q \in AcceptOffer(r, o)
    PROVE  Proper(q)
<1> DEFINE n == [r EXCEPT !.own = IF Roams(r) THEN 0 ELSE @]
           p == CleanDefending(n)
<1>1. Parts(n)
  BY DEF Proper, Parts, IsClient, Members
<1> HIDE DEF n
<1>2. Parts(p)
  BY <1>1, FilterStays DEF CleanDefending, Parts, IsClient, Members
<1>3. \/ q = r
      \/ ValidOffer(r, o) /\ q \in StartRequesting(p, SourceOf(r, o), o.set, FALSE)
  BY DEF AcceptOffer, n
<1> HIDE DEF p
<1>4. o.set \in SUBSET Around
  BY PoolIsAround
<1>5. ValidOffer(r, o) => SourceOf(r, o) \in Filtered \cup {0}
  BY SourceIsIn DEF Proper
<1> QED BY <1>2, <1>3, <1>4, <1>5, StartRequestingProper

LEMMA HandleAckProper ==
    ASSUME NEW r, Proper(r), Tuned(r), r.state = "requesting", NEW k \in Acks,
           NEW q \in HandleAck(r, k)
    PROVE  Proper(q)
<1> DEFINE n == [r EXCEPT !.own = r.src, !.src = 0, !.assigned = k.set]
           p == CleanRequesting(n)
<1>0. k.set \subseteq Around
  BY PoolIsAround
<1>1. Parts(n) /\ Stocked(n)
  BY <1>0 DEF Proper, Parts, Tuned, Stocked, IsClient, Members
<1> HIDE DEF n
<1>2. Parts(p) /\ Stocked(p)
  BY <1>1, FilterStays, DelKeeps DEF CleanRequesting, Parts, Stocked, IsClient, Members
<1>3. q \in StartBound(p) \/ q \in Restart(r)
  BY DEF HandleAck, n
<1> HIDE DEF p
<1> QED BY <1>2, <1>3, StartBoundProper, RestartProper DEF Tuned, Proper

LEMMA RungProper ==
    ASSUME NEW r, Proper(r), NEW timer
    PROVE  Proper(Rung(r, timer))
<1> DEFINE q == Rung(r, timer)
<1>1. Same(q, r) /\ q.change = r.change /\ q.tries = r.tries
  BY DEF Rung, Same, Proper, Parts, IsClient, Members
<1> HIDE DEF q
<1> QED BY <1>1, AlikeProper DEF Proper, Parts, q

LEMMA DiscoveryTimeoutProper ==
    ASSUME NEW r, Proper(r), Tuned(r), r.state = "discovery", NEW q \in DiscoveryTimeout(r)
    PROVE  Proper(q)
<1> DEFINE p == CleanDiscovery(r)
<1>1. Parts(p)
  <2>1. Clean(r) = p
    BY DEF Clean
  <2> QED BY <2>1, CleanParts DEF Proper
<1> HIDE DEF p
<1>2. CASE r.offer # NoOffer /\ q \in StartRequesting(p, SourceOf(r, r.offer), r.offer.set, FALSE)
  <2>1. r.offer \in Offers /\ ValidOffer(r, r.offer)
    BY <1>2 DEF Tuned, Seeks, OfferFits
  <2>2. SourceOf(r, r.offer) \in Filtered \cup {0} /\ r.offer.set \in SUBSET Around
    BY <2>1, SourceIsIn, PoolIsAround DEF Proper
  <2> QED BY <1>1, <1>2, <2>2, StartRequestingProper
<1>3. CASE q \in Restart(r)
  BY <1>3, RestartProper DEF Tuned, Proper
<1>4. CASE r.tries > 1 /\ q \in SendDiscover([r EXCEPT !.tries = @ - 1])
  <2> DEFINE n == [r EXCEPT !.tries = @ - 1]
  <2>1. /\ IsClient(n) /\ n.state = r.state /\ n.mcast = r.mcast /\ n.src = r.src /\ n.own = r.own
        /\ n.claim = r.claim /\ n.offer = r.offer /\ n.change = r.change
        /\ n.assigned = r.assigned /\ n.tries = r.tries - 1 /\ n.filter = r.filter
    BY DEF Proper, Parts, IsClient, Members
  <2>2. r.tries - 1 \in 0 .. Retries /\ r.tries - 1 > 0
    BY <1>4, ClientAssumption DEF Proper, Parts
  <2> HIDE DEF n
  <2>3. Proper(n)
    BY <2>1, <2>2 DEF Proper, Parts, Enough
  <2> QED BY <1>4, <2>1, <2>3, SendDiscoverProper DEF n
<1>5. ASSUME MayAssignItself(r), NEW S \in SelfSets(r), q \in StartDefending(p, S) PROVE Proper(q)
  <2>1. SelfSize \in Nat \ {0}
    BY ClientAssumption, SizesAssumption DEF SelfSize, AtMost
  <2>2. Run(S) /\ S \subseteq r.claim
    BY <2>1, TrimRun, RandomSetsRun DEF SelfSets, Tuned, Seeks
  <2>3. ASSUME MinimumFits PROVE Ample(S)
    <3>1. Ample(r.claim) /\ Run(r.claim)
      BY <1>5, <2>3 DEF MayAssignItself, Proper, Enough, Tuned, Seeks
    <3>2. MinClaim <= SelfSize
      BY <2>3 DEF MinimumFits
    <3> QED BY <2>1, <3>1, <3>2, CutIsAmple DEF SelfSets
  <2>4. S \subseteq First .. Last
    BY <2>2 DEF Tuned, Seeks
  <2> QED BY <1>1, <1>5, <2>2, <2>3, <2>4, StartDefendingProper
<1> QED BY <1>2, <1>3, <1>4, <1>5 DEF DiscoveryTimeout, p

LEMMA RequestTimeoutProper ==
    ASSUME NEW r, Proper(r), Tuned(r), r.state = "requesting", NEW q \in RequestTimeout(r)
    PROVE  Proper(q)
<1>1. CASE r.tries > 1 /\ q = [r EXCEPT !.tries = @ - 1, !.timers = @ \cup {"request"}]
  <2>1. /\ IsClient(q) /\ q.state = r.state /\ q.mcast = r.mcast /\ q.src = r.src /\ q.own = r.own
        /\ q.claim = r.claim /\ q.offer = r.offer /\ q.change = r.change
        /\ q.assigned = r.assigned /\ q.tries = r.tries - 1 /\ q.filter = r.filter
    BY <1>1 DEF Proper, Parts, IsClient, Members
  <2>2. r.tries - 1 \in 0 .. Retries /\ r.tries - 1 > 0
    BY <1>1, ClientAssumption DEF Proper, Parts
  <2> QED BY <2>1, <2>2 DEF Proper, Parts, Enough
<1>2. CASE q \in Restart(r)
  BY <1>2, RestartProper DEF Tuned, Proper
<1> QED BY <1>1, <1>2 DEF RequestTimeout

LEMMA LeaseTimeoutProper ==
    ASSUME NEW r, Proper(r), Tuned(r), r.state = "bound", NEW q \in LeaseTimeout(r)
    PROVE  Proper(q)
<1> DEFINE p == CleanBound(r)
<1>1. Parts(p)
  BY DEF CleanBound, Proper, Parts, IsClient, Members
<1> HIDE DEF p
<1>2. CASE q \in StartRequesting(p, r.own, r.assigned, TRUE)
  BY <1>1, <1>2, StartRequestingProper DEF Proper, Parts
<1>3. CASE q \in Restart(r)
  BY <1>3, RestartProper DEF Tuned, Proper
<1> QED BY <1>2, <1>3 DEF LeaseTimeout, p

----------------------------------------------------------------------------
(* The inductive invariant.                                                    *)
AllProper == DOMAIN client = Clients /\ \A c \in Clients : Proper(client[c])

LEMMA BecomeProper ==
    ASSUME AllProper, NEW c \in Clients, NEW results, NEW rest, Become(c, results, rest),
           \A q \in results : Proper(q)
    PROVE  AllProper'
<1>1. PICK q \in results : client' = [client EXCEPT ![c] = [q EXCEPT !.out = {}]]
  BY DEF Become
<1> DEFINE s == [q EXCEPT !.out = {}]
<1>2. /\ IsClient(s) /\ s.state = q.state /\ s.own = q.own /\ s.tries = q.tries
      /\ s.assigned = q.assigned /\ s.mcast = q.mcast /\ s.src = q.src /\ s.claim = q.claim
      /\ s.offer = q.offer /\ s.filter = q.filter /\ s.change = q.change
  BY <1>1 DEF Proper, Parts, IsClient, Members
<1>3. client' = [client EXCEPT ![c] = s]
  BY <1>1
<1> HIDE DEF s
<1>4. Proper(s)
  BY <1>1, <1>2 DEF Proper, Parts, Enough
<1> QED BY <1>3, <1>4 DEF AllProper

LEMMA FreshProper ==
    ASSUME NEW c \in Clients
    PROVE  Proper(Fresh(c))
<1> DEFINE r == Fresh(c)
           f == [a \in Memberships |->
                    IF Preassigned[c] # 0 /\ a = Member(Preassigned[c]) THEN 1 ELSE 0]
<1>1. /\ IsClient(r) /\ r.state = "start" /\ r.own = Preassigned[c] /\ r.assigned = {}
      /\ r.mcast = FALSE /\ r.src = 0 /\ r.claim = {} /\ r.tries = 0 /\ r.offer = NoOffer
      /\ r.change = FALSE /\ r.filter = f
  BY DEF Fresh, IsClient, Members
<1>2. f \in [Memberships -> 0 .. MaxMember] /\ 0 \in 0 .. Retries
  BY ClientAssumption
<1>3. Preassigned[c] \in Filtered \cup {0}
  BY DEF Filtered
<1> HIDE DEF r, f
<1>4. Parts(r)
  BY <1>1, <1>2, <1>3 DEF Parts
<1> QED BY <1>1, <1>4 DEF Proper, Enough, r

LEMMA AllProperInductive == Spec => []AllProper
<1>1. Init => AllProper
  BY FreshProper DEF Init, AllProper
<1>2. AllFit /\ AllTuned /\ AllProper /\ [Next]_vars => AllProper'
  <2> SUFFICES ASSUME AllFit, AllTuned, AllProper, Next PROVE AllProper'
    BY DEF vars, AllProper
  <2>0. \A c \in Clients : Fits(client[c]) /\ Tuned(client[c]) /\ Proper(client[c])
    BY DEF AllFit, AllTuned, AllProper
  <2>1. ASSUME NEW c \in Clients, Start(c) PROVE AllProper'
    BY <2>0, <2>1, BeginProper, BecomeProper DEF Start, Tuned, Stocked, Proper
  <2>2. ASSUME NEW c \in Clients, TimeoutOf(c) PROVE AllProper'
    <3> DEFINE r == client[c]
    <3>1. Fits(r)
      BY <2>0
    <3>2. \A timer : /\ Proper(Rung(r, timer)) /\ Tuned(Rung(r, timer))
                     /\ Rung(r, timer).state = r.state
      BY <2>0, RungProper, RungTuned
    <3>3. CASE DiscoveryEnds(c)
      <4>1. r.state = "discovery"
        BY <3>1, <3>3 DEF DiscoveryEnds, Ring, Rings, Fits, TimersIn
      <4> QED BY <3>2, <3>3, <4>1, DiscoveryTimeoutProper, BecomeProper DEF DiscoveryEnds, Ring
    <3>4. CASE RequestEnds(c)
      <4>1. r.state = "requesting"
        BY <3>1, <3>4 DEF RequestEnds, Ring, Rings, Fits, TimersIn
      <4> QED BY <3>2, <3>4, <4>1, RequestTimeoutProper, BecomeProper DEF RequestEnds, Ring
    <3>5. CASE LeaseEnds(c)
      <4>1. r.state = "bound"
        BY <3>1, <3>5 DEF LeaseEnds, Ring, Rings, Fits, TimersIn
      <4> QED BY <3>2, <3>5, <4>1, LeaseTimeoutProper, BecomeProper DEF LeaseEnds, Ring
    <3>6. CASE SelfAssignmentEnds(c)
      <4>1. r.state = "defending"
        BY <3>1, <3>6 DEF SelfAssignmentEnds, Ring, Rings, Fits, TimersIn
      <4> DEFINE p == Rung(r, "lifetime")
      <4>2. Parts(p) /\ Stocked(p) /\ p.state = "defending"
        BY <3>2, <4>1 DEF Proper, Tuned
      <4> HIDE DEF p
      <4> QED BY <3>6, <4>2, RestartProper, BecomeProper DEF SelfAssignmentEnds, Ring, p
    <3>7. CASE AnnouncementEnds(c)
      BY <3>2, <3>7, SendAnnounceProper, BecomeProper DEF AnnouncementEnds, Ring
    <3> QED BY <2>2, <3>3, <3>4, <3>5, <3>6, <3>7 DEF TimeoutOf
  <2>3. ASSUME NEW c \in Clients, ExclusionEnds(c) PROVE AllProper'
    <3> DEFINE r == client[c]
    <3>1. PICK b \in Held(r.db) : Become(c, {[r EXCEPT !.db = Timeout(@, b)]}, net)
      BY <2>3 DEF ExclusionEnds
    <3> DEFINE q == [r EXCEPT !.db = Timeout(@, b)]
    <3>2. Proper(r)
      BY <2>0
    <3>3. Same(q, r) /\ q.change = r.change /\ q.tries = r.tries
      BY <3>2 DEF Same, Proper, Parts, IsClient, Members
    <3> HIDE DEF q
    <3>4. Proper(q)
      BY <3>2, <3>3, AlikeProper DEF Proper, Parts
    <3> QED BY <3>1, <3>4, BecomeProper DEF q
  <2>4. ASSUME NEW c \in Clients, Exit(c) PROVE AllProper'
    <3> DEFINE p == Clean(client[c])
               q == [p EXCEPT !.state = "ended"]
    <3>1. Become(c, {q}, net)
      BY <2>4 DEF Exit
    <3>2. client[c].state \in {"discovery", "requesting", "bound", "defending"}
      BY <2>0, <2>4 DEF Exit, Fits, States
    <3>3. Parts(p)
      BY <2>0, <3>2, CleanParts DEF Proper
    <3> HIDE DEF p
    <3>4. Parts(q) /\ q.state = "ended"
      BY <3>3 DEF Parts, IsClient, Members
    <3> HIDE DEF q
    <3>5. Proper(q)
      BY <3>4 DEF Proper, Enough
    <3> QED BY <3>1, <3>5, BecomeProper
  <2>5. ASSUME NEW c \in Clients, HearUsed(c) PROVE AllProper'
    <3>1. PICK m \in net : Become(c, HandleUsed(client[c], m), net \ {m})
      BY <2>5 DEF HearUsed
    <3>2. Run(m.set)
      BY DEF AllTuned, IsPacket
    <3>3. \A q \in HandleUsed(client[c], m) : Proper(q)
      BY <2>0, <3>2, HandleUsedProper
    <3> QED BY <3>1, <3>3, BecomeProper
  <2>6. ASSUME NEW c \in Clients, HearDiscover(c) PROVE AllProper'
    <3>1. PICK m \in net : Become(c, HandleDiscover(client[c], m), net \ {m})
      BY <2>6 DEF HearDiscover
    <3>2. \A q \in HandleDiscover(client[c], m) : Proper(q)
      BY <2>0, SendDefendProper DEF HandleDiscover
    <3> QED BY <3>1, <3>2, BecomeProper
  <2>7. ASSUME NEW c \in Clients, GetOffer(c) PROVE AllProper'
    BY <2>0, <2>7, StoreOfferProper, AcceptOfferProper, BecomeProper DEF GetOffer
  <2>8. ASSUME NEW c \in Clients, GetAck(c) PROVE AllProper'
    BY <2>0, <2>8, HandleAckProper, BecomeProper DEF GetAck
  <2>9. CASE Lose
    BY <2>9 DEF Lose, AllProper
  <2> QED BY <2>1, <2>2, <2>3, <2>4, <2>5, <2>6, <2>7, <2>8, <2>9 DEF Next
<1> QED BY <1>1, <1>2, AllFitInductive, AllTunedInductive, PTL DEF Spec

(* The members of a client fit their use, through every handler: what it has   *)
(* and asks for are addresses of its pool or ones that a server named, it      *)
(* sends from addresses that its filter can hold, and a state that asks has    *)
(* tries left.                                                                 *)
THEOREM ClientTyped == Spec => []TypeInvariant
<1>1. AllFit /\ AllProper => TypeInvariant
  BY DEF AllFit, Fits, AllProper, Proper, Parts, Around, TypeInvariant
<1> QED BY <1>1, AllFitInductive, AllProperInductive, PTL

(* However many conflicts take addresses from it, and whatever servers answer, *)
(* a client in BOUND or DEFENDING has the addresses it needs at least, where   *)
(* its minimum is no more than it may assign itself.                           *)
THEOREM KeepsItsMinimum ==
    ASSUME MinimumFits
    PROVE  Spec => []NeverTooFew
<1>1. AllProper => NeverTooFew
  BY DEF AllProper, Proper, Enough, Ample, NeverTooFew
<1> QED BY <1>1, AllProperInductive, PTL
----------------------------------------------------------------------------
(* What a client sends.                                                        *)
Fields == {"to", "type", "sa", "da", "set"}
Silent == \A c \in Clients : client[c].out = {}
Polite(q) == \A o \in q.out : DOMAIN o = Fields /\ o.type # "DEFEND"

(* A DEFEND asks for addresses that are still the client's, which has given    *)
(* some up.                                                                    *)
Yields(q, S) == \A o \in q.out : /\ DOMAIN o = Fields
                                 /\ o.type = "DEFEND" => /\ q.assigned \subseteq S
                                                         /\ q.assigned # S
                                                         /\ o.set \subseteq q.assigned

LEMMA SilentHolds == Spec => []Silent
<1>1. Init => Silent
  BY DEF Init, Silent, Fresh
<1>2. AllFit /\ AllFit' /\ Silent /\ [Next]_vars => Silent'
  <2> SUFFICES ASSUME AllFit, AllFit', Silent, Next PROVE Silent'
    BY DEF vars, Silent
  <2>1. ASSUME NEW c \in Clients, NEW results, NEW rest, Become(c, results, rest) PROVE Silent'
    <3>1. PICK q \in results : client' = [client EXCEPT ![c] = [q EXCEPT !.out = {}]]
      BY <2>1 DEF Become
    <3>2. client'[c] = [q EXCEPT !.out = {}] /\ "out" \in DOMAIN client'[c]
      BY <3>1 DEF AllFit, Fits, IsClient, Members
    <3>3. client'[c].out = {}
      BY <3>2
    <3>4. \A d \in Clients : d # c => client'[d] = client[d]
      BY <3>1 DEF AllFit
    <3> QED BY <3>3, <3>4 DEF Silent
  <2>2. ASSUME NEW c \in Clients, Start(c) PROVE Silent'
    BY <2>1, <2>2 DEF Start
  <2>3. ASSUME NEW c \in Clients, TimeoutOf(c) PROVE Silent'
    BY <2>1, <2>3 DEF TimeoutOf, DiscoveryEnds, RequestEnds, AnnouncementEnds,
                      SelfAssignmentEnds, LeaseEnds, Ring
  <2>4. ASSUME NEW c \in Clients, ExclusionEnds(c) \/ Exit(c) PROVE Silent'
    BY <2>1, <2>4 DEF ExclusionEnds, Exit
  <2>5. ASSUME NEW c \in Clients, HearUsed(c) \/ HearDiscover(c) PROVE Silent'
    BY <2>1, <2>5 DEF HearUsed, HearDiscover
  <2>6. ASSUME NEW c \in Clients, GetOffer(c) \/ GetAck(c) PROVE Silent'
    BY <2>1, <2>6 DEF GetOffer, GetAck
  <2>7. CASE Lose
    BY <2>7 DEF Lose, Silent
  <2> QED BY <2>2, <2>3, <2>4, <2>5, <2>6, <2>7 DEF Next
<1> QED BY <1>1, <1>2, AllFitInductive, PTL DEF Spec

LEMMA BeginIsPolite ==
    ASSUME NEW r, IsClient(r), r.out = {}, NEW q \in Begin(r)
    PROVE  Polite(q)
<1>1. CASE q \in StartRequesting(r, r.own, First .. Last, FALSE)
  <2>1. q.out = {}
    BY <1>1 DEF StartRequesting, IsClient, Members
  <2> QED BY <2>1 DEF Polite
<1>2. CASE q \in StartDiscovery(r)
  <2>1. PICK S \in Discoverable(r) :
          q \in SendDiscover([r EXCEPT !.state = "discovery", !.tries = Retries, !.src = 0,
                                       !.claim = S, !.offer = NoOffer, !.change = FALSE,
                                       !.mcast = TRUE])
    BY <1>2 DEF StartDiscovery
  <2> DEFINE n == [r EXCEPT !.state = "discovery", !.tries = Retries, !.src = 0,
                            !.claim = S, !.offer = NoOffer, !.change = FALSE, !.mcast = TRUE]
  <2>2. IsClient(n) /\ q \in SendDiscover(n)
    BY <2>1 DEF IsClient
  <2> HIDE DEF n
  <2>3. PICK a : q = [n EXCEPT !.src = a,
                        !.filter = IF Roams(n) THEN AddAddr(DropAddr(@, n.src), a) ELSE @,
                        !.timers = @ \cup {"discovery"},
                        !.out = {Packet("DISCOVER", a, Mcast, n.claim)}]
    BY <2>2 DEF SendDiscover
  <2>4. q.out = {Packet("DISCOVER", a, Mcast, n.claim)}
    BY <2>2, <2>3 DEF IsClient, Members
  <2> QED BY <2>4 DEF Polite, Packet, Fields
<1> QED BY <1>1, <1>2 DEF Begin

LEMMA RestartIsPolite ==
    ASSUME NEW r, IsClient(r), r.out = {}, r.state = "defending", NEW q \in Restart(r)
    PROVE  Polite(q)
<1> DEFINE p == CleanDefending(r)
           n == [p EXCEPT !.filter = IF Roams(p) THEN DropAddr(@, p.own) ELSE @,
                          !.own = IF Roams(p) THEN 0 ELSE @, !.assigned = {}]
<1>1. IsClient(p) /\ p.out = {}
  BY DEF CleanDefending, IsClient, Members
<1>2. q \in Begin(n)
  BY DEF Restart, Clean
<1> HIDE DEF p
<1>3. IsClient(n) /\ n.out = {}
  BY <1>1 DEF IsClient, Members
<1> HIDE DEF n
<1> QED BY <1>2, <1>3, BeginIsPolite

(* Only a client with more addresses than it needs answers by a DEFEND.        *)
LEMMA ConflictYields ==
    ASSUME NEW r, Tuned(r), r.out = {}, r.state = "defending", NEW m, NEW q \in ProcessConflict(r, m)
    PROVE  Yields(q, r.assigned)
<1> DEFINE S == r.assigned
<1>0. IsClient(r) /\ Run(S)
  BY DEF Tuned, Stocked
<1>1. CASE q = [r EXCEPT !.assigned = Trim(@, LeftCount(r, m.set \cap r.assigned))]
  <2>1. q.out = {}
    BY <1>0, <1>1 DEF IsClient, Members
  <2> QED BY <2>1 DEF Yields
<1>2. CASE /\ MinClaim < Cardinality(S)
           /\ q = SendDefend([r EXCEPT !.assigned = Trim(@, MinClaim)], m)
  <2>1. q.assigned = Trim(S, MinClaim)
    BY <1>0, <1>2 DEF SendDefend, IsClient, Members
  <2>2. \A o \in q.out : DOMAIN o = Fields /\ o.set \subseteq Trim(S, MinClaim)
    BY <1>0, <1>2 DEF SendDefend, Packet, Fields, IsClient, Members
  <2> HIDE DEF S
  <2>3. Trim(S, MinClaim) \subseteq S
    BY DEF Trim
  <2>4. Trim(S, MinClaim) # S
    <3>1. S # {}
      <4>1. MinClaim \in Nat /\ MinClaim < Cardinality(S)
        BY <1>2, ClientAssumption
      <4>2. Cardinality({}) = 0
        BY FS_EmptySet
      <4> QED BY <4>1, <4>2
    <3>2. PICK lo \in Int, hi \in Int : S = lo .. hi /\ Least(S) = lo /\ lo <= hi
      BY <1>0, <3>1, RunOfSome
    <3>3. Cardinality(lo .. hi) = hi - lo + 1
      BY <3>2, FS_Interval
    <3>4. hi >= lo + MinClaim
      BY <1>2, <3>2, <3>3, ClientAssumption
    <3>5. hi \in S /\ hi \notin Trim(S, MinClaim)
      BY <3>2, <3>4, ClientAssumption DEF Trim
    <3> QED BY <3>5
  <2> QED BY <2>1, <2>2, <2>3, <2>4 DEF Yields, S
<1>3. CASE q \in Restart(r)
  <2>1. Polite(q)
    BY <1>0, <1>3, RestartIsPolite
  <2> QED BY <2>1 DEF Polite, Yields
<1> QED BY <1>1, <1>2, <1>3 DEF ProcessConflict

LEMMA UsedYields ==
    ASSUME NEW r, Tuned(r), r.out = {}, NEW m, Run(m.set), NEW q \in HandleUsed(r, m)
    PROVE  Yields(q, r.assigned)
<1> DEFINE h == Hear(r, m.set)
<1>1. Same(h, r) /\ h.out = {} /\ Sound(h.db)
  BY HearSame, HearHolds DEF Tuned, Stocked, Same
<1>2. CASE r.state = "defending" /\ q \in ProcessConflict(h, m)
  <2>1. h.state = "defending" /\ h.assigned = r.assigned
    BY <1>1, <1>2 DEF Same
  <2>2. Tuned(h)
    BY <1>1, <1>2, SameTuned
  <2> HIDE DEF h
  <2> QED BY <1>1, <1>2, <2>1, <2>2, ConflictYields
<1>3. CASE q = h \/ q = r \/ q = CheckSet(r, m.set)
  <2>1. CheckSet(r, m.set).out = {}
    BY <1>1 DEF CheckSet, Same, IsClient, Members
  <2>2. q.out = {}
    BY <1>1, <1>3, <2>1
  <2> QED BY <2>2 DEF Yields
<1> QED BY <1>2, <1>3 DEF HandleUsed

(* An exchange of DEFENDs comes to an end, whatever sets the clients have and  *)
(* however large the pool: each one costs its sender an address at least.      *)
THEOREM DefendsCostAddresses == Spec => DefendsGiveWay
<1>1. AllTuned /\ Silent =>
        \A c \in Clients : \A p \in net' \ net :
          (HearUsed(c) /\ p.type = "DEFEND" /\ p.to # c) =>
             /\ client'[c].assigned \subseteq client[c].assigned
             /\ client'[c].assigned # client[c].assigned
             /\ p.set \subseteq client'[c].assigned
  <2> SUFFICES ASSUME AllTuned, Silent, NEW c \in Clients, NEW p \in net' \ net,
                      HearUsed(c), p.type = "DEFEND"
               PROVE  /\ client'[c].assigned \subseteq client[c].assigned
                      /\ client'[c].assigned # client[c].assigned
                      /\ p.set \subseteq client'[c].assigned
    OBVIOUS
  <2>1. PICK m \in net : Become(c, HandleUsed(client[c], m), net \ {m})
    BY DEF HearUsed
  <2>2. PICK q \in HandleUsed(client[c], m) :
          /\ client' = [client EXCEPT ![c] = [q EXCEPT !.out = {}]]
          /\ net' = net \ {m} \/ net' = (net \ {m}) \cup Sent(c, q)
    BY <2>1 DEF Become
  <2>3. Yields(q, client[c].assigned)
    BY UsedYields DEF AllTuned, IsPacket, Silent
  <2>4. PICK d \in Clients, o \in q.out : p = [o EXCEPT !.to = d]
    BY <2>2 DEF Sent
  <2>5. p.type = o.type /\ p.set = o.set
    BY <2>3, <2>4 DEF Yields, Fields
  <2>6. client'[c].assigned = q.assigned
    BY <2>2 DEF AllTuned
  <2> QED BY <2>3, <2>5, <2>6 DEF Yields
<1> QED BY <1>1, AllTunedInductive, SilentHolds, PTL DEF DefendsGiveWay
=============================================================================
