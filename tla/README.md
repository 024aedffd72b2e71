# PALMA: the address assignment protocol in TLA+

This directory specifies the C++ implementation of PALMA (Protocol for Assignment of Local and
Multicast Addresses) in this repository: the address database down to its 2-3 tree, the server, the
client, the timers and the packets between them. The modules are translated from `src/common`, `src/server` and `src/client`; the report
`src/PALMA.pdf` is used only for what it says the program should do.

## The system

One server process (or several) distributes sets of MAC addresses. A client finds a set by
DISCOVER / OFFER / REQUEST / ACK, keeps it for a lifetime, renews or releases it; when no server
answers it assigns itself a set and defends it with ANNOUNCE and DEFEND. Every process is single
threaded: `EventLoop::run` fires the timers that are due, waits, and hands one packet at a time to
a handler, which runs to its end. So all concurrency is between processes: packets are lost,
repeated and late, and timers of different processes race.

| Component | State | Operations | Interacts with | Correct when |
|---|---|---|---|---|
| Set database (`common/database.cpp`) | blocks (first, size, free / reserved / assigned, security id, timer), total set | `reserve`, `assign` x 2, `release`, `exclude`, `checkStatus`, `timeout` | called by server and client; timers call back | the blocks tile the pool; an address has one holder; what is held ends |
| 2-3 tree, free list (`TreeNode`, `chain`) | nodes, parents, a circular list | `add`, `del`, redistribution, `locate`, `chain`, `unchain` | the database only | finds exactly the blocks of the database |
| Server (`server/palma-server.cpp`) | four databases, configuration | `processClaim`, `processRequest`, `processRelease` | packets from clients, timers | keeps what OFFERs and ACKs say; answers retries; leaks nothing |
| Client (`client/states.cpp`, `palma-client.cpp`) | current state, set, source, token, timers, a database of sets heard of | five states, `restart`, `processConflict`, retries | packets from servers and other clients | uses only addresses it holds; ends bound or defending; two self-assigned clients do not share |
| Timers (`common/timer.cpp`, `eventloop.cpp`) | list of differences | `add`, `del`, `read`, `check` | everything above | a timer fires once, when it is due, in order |
| Address sets (`common/addrset.cpp`) | first, count or mask | intersection, alignment | everything above | an aligned set lies inside the set |
| Packets (`common/packet.cpp`) | fields and parameters | `add...`, `toBuffer`, `parse`, `check`, getters | handlers, the interface | what is sent is accepted and read as it was meant |
| Wireshark dissector (`packet-palma.c`) | offset, bytes left | `dissect_palma` | the wire only | shows what the program reads |
| Security id (`common/siphash.cpp`) | hash state | `getSecurityId` | server | different sessions differ |
| Configuration, interface, `main`, tests | | | | not modelled: input and output |

The hard parts, each listed at its line under `hazards` in `PROJECT.json`: retried, late and lost
packets against leases that end; two databases changed by one handler, with a roll-back when the
second has nothing left; the borders between blocks under long call sequences; seconds added and
subtracted in different places; limits of 16 bits; exhaustion; simultaneous self-assignment.

## Modules

    LeasePool          what a pool promises (abstract)
      ^ implemented by
    AddressBlocks ---> AddressPool ----> SetDatabase ---> ClientDatabase
      |  |  |            `-----> PalmaClient
      |  |  `--> PalmaServer ---> PalmaService
      |  `-----> LinkedDatabase        (with SearchTree)
      `--------> Packets ---> PacketDissector

    AddressBlockProofs ---> SetDatabaseProofs ---> ClientDatabaseProofs
      |  |  `---> PalmaClientProofs
      |  `------> PalmaServerProofs ---> PalmaServiceProofs
      `---------> PacketsProofs      (Packets and PacketDissector)

    Deadlines          what handlers rely on in their timers (abstract)
      ^ implemented by
    TimerList ---> TimerListProofs

**AddressBlocks** has the operators: a database is a *set of blocks*, each `[lo, hi, use, id, left]`,
and `Carve` is `extract`, `Timeout` is `AssignableSet::timeout`, `FindSet` is `findSet` with
`getFreeSet`, and so on; `PROJECT.json` maps each definition to its lines. Here the 2-3 tree and the free
list are abstracted (LinkedDatabase has them): a block is found by what it holds, and where several free blocks serve a claim
equally, the one the free list happens to reach first is a nondeterministic choice (so `Reserve` and
`AssignCount` are sets of results). `left` is the time left on the block's timer, in whole seconds.
Free blocks have no id and no timer in the model; in the code their fields are stale, and
`checkStatus` answers FREE before it reads them.

**AddressPool** names the pool of one database, for SetDatabase and PalmaClient alike, so that what is proved of
the operations on a pool serves both.

**SetDatabase** is one database under a server's calls, in any order, with any caller: `DbReserve`,
`DbAssignCount`, `DbAssignIn` (guarded as `processRequest` guards it: the container is free or the
caller's), `DbRelease`, `Expire` (one timer fires), `Tick` (a second passes once no timer is due).

**ClientDatabase** adds the client's only call, `exclude`, for any announced set, also one that
reaches outside the pool. `heard` records the last lifetime announced per address, for the
properties; the code has no such variable, and that is what `AnnouncedIsNotFree` is about.

**SearchTree** is class `TreeNode` on a heap `[root, node, block, free]`: `node` maps each node to
its `m_parent`, `m_child` and `m_set`, `block` each `AssignableSet`, named by its first address, to what it holds. The
operators are the members: `Locate`, `AddTo` (with `Halves` and `Grow` for the splits), `DelAt`, and under it
`Refill` = `redistribute`, which tries `BorrowLeft`, `BorrowRight`, `FoldUp` and `MergeWith` in that order. What is deleted leaves
the domain of its map, as the destructor does it with all that hangs below, so a dangling pointer is
an error of TLC and not a value.

**LinkedDatabase** is `SetDatabase` once more on these structures and on the circular list of free blocks (`next`
is `m_next_free`, `ptr` is `m_ptr`): `chain`, `unchain`, `splitAndInsert`, `joinAndDelete`, `extract`, `getFreeSet`'s walk
round the ring, `assign`, `exclude`, `timeout`. Ids and timers are left to SetDatabase, so `reserve` and
`assign(count)` are one call, and so are `release` and a timer that fires. `KeepsBlocks` is the refinement: seen as a set of
blocks, each call is an operation of AddressBlocks. `Renamed` names nodes by their first
block after each call, because an address in memory means nothing.

**LeasePool** is the abstract specification: a function from addresses to holders, and a step that
concerns one holder, who takes free addresses or gives back its own. `SetDatabase` implements it
under `holder[a] = BlockWith(a).id`.

**PalmaServer** is the server: a database per kind of address and one action per handler. A handler is
split by its outcome (`OfferSet`, `OfferSetAndAddr`, `TakeBack`; `Lease`, `Confirm`, `Alternate`,
`AlternateOfNone`, `Refuse`), each disjunct with all the state changes of that path. `Lease` keeps the block it found for the set while it leases
the source, as the code keeps a pointer; where both were in that block (`StaleContainer`), `LeftOf` is what the pointer denotes by then, the part in front of the
source, and a set that is not in that part (`~StillHolds`) ends the model. The security id
is the pair it hashes: `<<session>>` for an offer, `<<session, source>>` for a lease, where a session
is a station id and token. `sent` keeps the OFFERs and ACKs that promise something, with the seconds
left of each; failures promise nothing and are not kept. `up` is FALSE after a NULL pointer, that of `assign(count, ...)`
or of `splitAndInsert`. `conf` has the two switches that processRequest reads, in all four settings.

**PalmaService** composes the server with its clients' packets. A session discovers, answers one OFFER
by one REQUEST (`TakeOffer` builds it as `DiscoveryTimer::timeout` and `RequestingState::start` do),
and may send that REQUEST at any later time and any number of times, which covers loss, delay,
retries and duplication; it may renew or release any ACK it was sent. What is never sent twice by a
client is not sent twice here: a new DISCOVER after a REQUEST has a new token, so it is another
session.

**PalmaClient** is `states.cpp` and `palma-client.cpp` for any number of clients. A client is a record
with the members of `PalmaClient` and of its current state; the operators (`StartDiscovery`,
`CleanRequesting`, `ProcessConflict`, `DiscoveryTimeout`, ...) are the functions of those names and give
the records a client may be left with, because the addresses it draws and the block it finds are open.
`filter` counts how often the interface has each membership, as the kernel does. The membership of an address is what
`NetItf::fillMreq` makes of it (`Member`): it copies the first six of the eight bytes of a 48-bit address in network order, so its last two bytes
are lost, what is left stands two bytes too far to the right, and addresses that differ in these two bytes share one membership (here one bit, `LowBits`).
`LetsIn` is what the card lets in: everything, as the virtual interfaces of mininet in `src/test` do (`CardFilters` FALSE),
or only what there is a membership for. The server gives its own address to the interface in the same way (`palma-server.cpp:22`). `timers` is
the set of timers that run; any of them may fire at any time, so every order of timeouts and packets
is covered. The actions are `Start`, `Exit`, the five timeouts, the end of an exclusion, `HearUsed` (ANNOUNCE and DEFEND),
`HearDiscover`, `GetOffer`, `GetAck`. Packets between clients are in `net`, one copy per receiver, and
may be lost or arrive late; servers are the sets `Offers` and `Acks` of what they may send, whenever
the client listens. Left out: tokens and station ids (packets that fail those checks change
nothing), which server is asked, lifetimes. `AddrSet()` is the single address 0 in the code and `{}` in the model.

**Packets** is class `Packet` and everything that fills one: the constructor, the `add...` calls with their
flags, `toBuffer` with the widths of lengths and counts, `parse`, `check` and the getters. Each action is a sender of
the client or the server (`Discover`, `Offer`, `Request`, `Ack`, `Release`, `Announce`, `Defend`), which answers what it `heard`
where the code does; `Receive` is `NetItf::onInput`. What a database or a timer would have said is a choice. A text is a
name with a number of letters, a set an interval with its form (count or mask) and kind. `conf.build` is what `slapType` leaves,
which has no return statement: its operand's bits alone, or the value meant. In `check`, `word & X != X` is `word & 0`, as C++ reads it.

**PacketDissector** is the Wireshark plugin's walk over the same bytes: it moves an offset of its own by what it takes each parameter to be.
Its loop is written as its six rounds (`Round`), and where parameters really start as the sum of those before them (`StartsAt`), because proofs cannot
go through a recursive operator.

**TimerList** is the list of differences of `timer.cpp`, where only the first timer counts down, and
only when `refresh` reads the clock: `elapsed` is the time since `m_ref`. `StartTimer`, `StopTimer`
and `Check` (one round of the loop in `check`) correspond to the calls of the same names, `Refresh` to
every call that refreshes and changes nothing else. `duration` keeps what `m_duration` holds of a timer that
is not active, because `startTimer` with 0 goes on with it. **Deadlines** is the abstract
specification: every timer has a time of its own.

## What is checked

`WireMax`, 65535 in the code, is 2 in the runs of databases and server, so that a set of three addresses takes the
path of sets too large for a count; it is 3 in `packets`, and out of reach in `linked_database` and the runs of clients.

| Run | Instance | Shows |
|---|---|---|
| `set_database` | four addresses, two callers, claims of 1 and 3, lifetime 1 | `PoolTiled`: no call sequence loses or duplicates an address. `LeasesKept`: implements LeasePool. `ReservationEnds` under fairness |
| `client_database` | four addresses, lifetimes 1 to 3 | `PoolTiled`, and `ExclusionsFresh`: what is excluded has the timer of the last announcement, within the second that `exclude` tolerates |
| `client_database_forgets` | the same | *violation*: an announced address is in a free set (report p. 38) |
| `palma_service` | unicast 1-2, multicast 11; sessions *m* (multicast, no address), *u* (unicast, with the preassigned address 2 of that pool), *v* (unicast, no address), *k* (own address, known server, a set of one address or one too large); lifetime 1 unicast and 2 multicast, a renewal up to 1 s late | `PromisesKept`, `SourcesKept`, `OffersKept`, `ReservedWasOffered`, `PoolsTiled`; `ContainerHolds`: what is left of the block that was found holds the set; `LeasesEnd` under fairness |
| `palma_service_exhausted` | as `palma_service` | *violation*: with the pool used up and alternates on, a REQUEST for a taken set stops the server |
| `timer_list` | three timers, durations 0 to 3, up to one unit late | `KeepsDeadlines`: implements Deadlines. `ListInOrder`: a timer behind one that is not due is not due either |
| `palma_client` | two clients, one with a preassigned address, addresses 1-4, sets of 2; offers with and without an address and too small; ACKs with what was asked for, an alternate, too small a set, a refusal; renewal on | `TimersOfState`, `MembershipsStand`: no addition or deletion on any path takes the membership of the address in use away. `NeverTooFew`, and `AsksNotForEver` under fairness |
| `palma_client_filtered` | two clients without a preassigned address, on cards that let in only what they have a membership for | *violation*: what is sent to the address a client sends from does not reach it (report p. 17) |
| `self_assign` | two clients without servers that claim the addresses 1-3, sets of 1 or 2, one packet in flight | the same invariants (but the type invariant), `ClaimIsFree`: what is known to be used is not asked for, and `DefendsGiveWay`: a conflict is answered with a DEFEND only by a client that gives addresses up, so an exchange of DEFENDs is as long as the sets are large |
| `self_assign_silent` | the same | *violation*: a conflict in the upper part of a set is ignored (report p. 28-29) |
| `linked_database` | thirteen addresses, claims of 1, the sets 2-2 and 1-4 assigned or excluded, no call with more than two free blocks | `TreeBalanced`, `SearchFinds`: search finds the one block of every address. `FreeListIsRing`. `KeepsBlocks`: implements the operations of AddressBlocks |
| `packets` | every sender; sets of 1, 3, 4 and 6 addresses, aligned and not, 48-bit unicast and 64-bit multicast; texts of 1, 2 and 253 characters or none; both builds of `slapType`; `WireMax` 3 | `Understood`, `ReadBack`, `SetsArrive`, `TakenByItsAsker`, and `DissectorAgrees`: the dissector stays in step |

Why the bounds are enough for the cases to happen: four addresses allow a block with a free, a held
and an unspliced free neighbour at once; three lifetimes make one timer end in the middle of another;
with two unicast addresses, one multicast address and four sessions every handler outcome is reached (TLC's coverage shows
each), among them the roll-back of a reservation, alternates, refusals, the NULL pointer, and a lease of address 1 to a client that sends from address 2, both of
one reserved block. Two
callers are enough for `LeasesKept`, which relates one step's caller to one other holder. Three addresses and
sets of up to two make two clients' sets equal, nested, overlapping at either end or apart, so `ProcessConflict` takes
each of its branches. One packet in flight is enough for every order of handlers, because a packet may wait for
any number of timeouts before it arrives; what it excludes is two packets that overtake each other.
Thirteen addresses let the tree of blocks get three levels: borrowing inside the tree needs twelve or thirteen
blocks, folding eleven, merging up to the root fewer; a claim takes one address at a time, so that the tree grows to its full size, and the
set 1-4 is joined from up to four blocks and cut out again. At most two free blocks per call keep the run within minutes: three or more lie on
the same ring and are reached from it one call at a time. The texts of `packets` are the shortest, the shortest that is accepted, and the
longest that has room in a packet.
`Retries` is 2 where the code has 3; `MaxMember`, the highest count of a membership, is 2 because one count
belongs to the address in use and one to a leak or to an address that shares the membership: with `LowBits` 1 the two probes share one, and so do 2 and 3.

`palma_service` is run with `CHECK_DEADLOCK FALSE` because a server that has
stopped (`up = FALSE`) really does nothing any more; the runs of `PalmaClient` because clients end (`Exit`).

**Time.** A step of time is one second, and timers that are due fire before the next second, one in an
action (`Expire`), in any order. In `SetDatabase` calls may come between them. In `PalmaServer` no packet is
handled while a timer is due (`Ready`): `EventLoop::run` calls `TimerList::check`, which fires all that are due, before it waits for
input. `NetItf::onInput` (`netitf.cpp:61-73`) however handles every packet that waits before `check` is called again, so that a timer may become due
between the first and the last of them: a packet is then handled by a server whose timer is a moment late. The model has no such packet. There the
block is still held, and what `readTimer` answers may be negative, the hazard of `database.cpp:580` in `PROJECT.json`. Timers that were started in the same second are due together in the model; in the code they are due within that
second, in the order they were started.

**Fairness.** Weak fairness of `Tick` and `Expire` only: time passes, and `EventLoop::run` calls
`TimerList::check` in every round, whatever packets come; in `PalmaClient` of `Start` and of the timers that
retry, for the same reason. `TimerList` assumes none: only its safety is checked. No fairness is assumed of clients or packets.

**Each property can fail.** For every property of a passing run `PROJECT.json` names a mutant: an operator
defined beside the original, with a plausible slip (a remainder dropped, neighbours spliced without a
look at their use, a reservation that serves anyone), under which TLC finds the property violated.
The modules mark them "A slip".

## What is proved

Eight modules hold proofs checked by TLAPS, for every value of the constants that their assumptions allow. Every safety property that a
run checks of a database, the server, the service, the clients, the timers, the packets and the dissector is a theorem, except those of
`LinkedDatabase`; the list is under `theorems` in `PROJECT.json`.

**AddressBlockProofs** has no theorem of its own: one lemma per operation on blocks says that it keeps a sound set of blocks sound
(`SoundIn`: well formed, and tiling the pool between two bounds), and what it does to the blocks that are held. The pool and the ids are
parameters of the lemmas, so that one database, a client's database and the server's four use the same ones. The argument that matters is
the same everywhere: `Timeout` takes the least and greatest address of a block and its free neighbours, and that they
make one run (`SpanIsRun`) needs that at most one block ends just before another begins (`NeighbourUnique`), which is tiling.
That `findSet` may return a run anywhere inside a free block is all the proofs need of alignment.

**SetDatabaseProofs**, for every pool, every set of ids, sizes and lifetimes and every
`WireMax`, from the assumptions `PoolAssumption`, `IdsAssumption`, `AskAssumption` and `SizesAssumption` only:

- `TypeCorrect`: `Spec => []TypeInvariant`
- `PoolStaysTiled`: `Spec => []PoolTiled`
- `DatabaseKeepsLeases`: `Spec => LeasesKept`, that SetDatabase implements LeasePool.

**ClientDatabaseProofs**, for every pool, every announced set, inside the pool, across its border or outside, and every lifetime:

- `ClientTypeCorrect`: `ClientSpec => []TypeInvariant`
- `ClientPoolStaysTiled`: `ClientSpec => []PoolTiled`
- `ExclusionsStayFresh`: `ClientSpec => []ExclusionsFresh`.

The inductive invariant `ClientInv` adds what was last heard of each address to the tiling. The blocks
that an announcement touches are one run, so that joining them and cutting the set out of them again leaves the pool
tiled, and no other block has an address of it. That makes the new timer the last word on each of its addresses.

**PalmaServerProofs** says what `processClaim`, `processRequest`, `processRelease`, a timeout and a second do to the blocks of each kind that are
held: who reserves, who leases, what is freed. **PalmaServiceProofs** has the theorems, for any sessions, pools, lifetimes and requests:

| Theorem | Property | Beside `FitsTheWire` |
|---|---|---|
| `ServiceTyped` | `TypeInvariant` | |
| `ServiceTiles` | `PoolsTiled` | |
| `OfferedIsReserved` | `OffersKept` | |
| `ReservedIsOffered` | `ReservedWasOffered` | |
| `ContainersHold` | `ContainerHolds` | `ReserveLife > 0` |
| `SourcesAreKept` | `SourcesKept` | `ReserveLife > 0` |
| `PromisesAreKept` | `PromisesKept` | `ReserveLife > 0` |

The invariant is built in layers. `Base` is what every step keeps by itself: sound databases, typed packets, REQUESTs that are the session's own, and every
held block reserved for a session or leased by one (`Holders`). Under it a step of the service is one of six (`Step`: a timer fades, a second passes, a claim
reserves, a session decides on its REQUEST, a lease, a confirmation, blocks that are freed), and the later proofs have one case for each instead of one per handler.
`Backed` (an OFFER still standing has its reservation, at least as long) and `Offered` (the reverse) need only `Base`. `PromisesKept` needs more
than itself, because a session's second REQUEST goes through the block of its first: `SourceIsFirst` and `WholeSets` (a session that asks from an
address of the unicast pool asks from the first address of its set, its reservation reaches to the end of that set, and its leases and ACKs are parts of it; here for clients of other kinds of address), `SourcesLead` and
`SourcesHeld` (the source's lease ends after the set's), and in `Promised` that what an ACK promises is in one block, which lasts longer than the ACK,
unless another ACK of the session has taken its place.

For a client that wants unicast addresses and asks from an address of that pool, its preassigned one included, `PoolSets` says what the server holds for it. Either the source is *inside*
the set (`WholeSet`): then it is not leased apart, and every lease and ACK of the session is the whole set. Or it is *apart* (`ApartSet`): then it is leased by itself, a block reserved for the
session that has the first address of the set starts with it, and what an ACK gave is not reserved any more. A block that holds both source and set is then reserved and starts with the set,
so the set is in front of the source, and `ContainerHolds` follows. It rests on what the client does: it asks for the first addresses of an OFFER.
The mutant, a client that asks for the last ones, has the server work on the wrong block.

The hypotheses are conditions on the configuration that the code does not check. `FitsTheWire`: no maximum exceeds 65535, or `sendOffer` would align a
block that is in the database (`palma-server.cpp:187`). `ReserveLife > 0`: a reservation of 0 s may be over before its OFFER is taken. The instance of
`palma_service` satisfies both.

**TimerListProofs**, for any number of timers, durations and any lateness, from `TimersAssumption` only:

- `ListStaysInOrder`: `Spec => []ListInOrder`
- `TimesStayBounded`: `Spec => []TypeInvariant`
- `ListKeepsDeadlines`: `Spec => KeepsDeadlines`, that TimerList implements Deadlines.

The invariant is `Lists` (no timer twice, no difference behind the first negative) with `Spans` for the bounds. The refinement is about sums: the time
left of a timer is the sum of the differences up to it (`Until`). What `add`, `del` and `refresh` do to every timer's sum are lemmas
(`AddTimes`, `DelTimes`, `RefreshedTimes`), by induction along the list in the form of a least counterexample (`LeastExists`), because the library's induction
theorems take an operator as a parameter, which the provers cannot instantiate. Then each call changes one timer's sum and no other's.

**PalmaClientProofs**, for any number of clients, any pools, offers, acknowledgements and retries:

- `TimersFollowTheState`: `Spec => []TimersOfState`.

A timer of a state that was left would run a handler of that state on members that `clean` has reset. The inductive invariant `AllFit` says of each client
which timers run, exactly; one lemma per handler says what it leaves (`Fits`, `Quiet` after `clean`, `Busy` between), along the calls from `restart`
within `start` within a timeout.

and in the second part of the module, under `PoolAssumption` and `ClientAssumption`:

- `MembershipsHold`: `Spec => []MembershipsStand`, whichever addresses share a membership and whether or not cards filter
- `ClaimStaysFree`: `Spec => []ClaimIsFree`
- `ClientTyped`: `Spec => []TypeInvariant`
- `KeepsItsMinimum`: `MinimumFits` implies `Spec => []NeverTooFew`
- `DefendsCostAddresses`: `Spec => DefendsGiveWay`.

The inductive invariant `AllTuned` needs, beside the first two properties: that every client's database is sound, that the sets
claimed, assigned and in packets are runs (an announced set with a hole would take addresses in the hole out of the database that no claim was compared with), that
a claim lies in the pool, and that a stored offer was valid. `AlignedRunInside` shows that `getAlignedMask` finds a run inside the block in any
block; that it is a largest one the definition says. From `ClientAssumption` it takes that neither a probe's source nor an offered address is 0,
and that 2^AddrBits is a natural number, which the prover does not know of powers. `AllProper` adds the types and, under `MinimumFits`, that a claim
not empty and a set assigned have the minimum: in DISCOVERY already, because a client that assigns itself a set takes it from its claim.
`DefendsGiveWay` is a property of steps: in `processConflict` the branch that sends a DEFEND has cut the set first, and since the set is a run longer than
the minimum, the cut takes its last address.

`MinimumFits` says that `MIN_ADDR_CLAIM` is at most what a client may assign itself (`MAX_AUTOASSIGN_UNICAST`, 16, for unicast, `states.cpp:183`) and at most the
aligned run of any part of the pool larger than the wire's limit, since `getFreeSet` counts such a block for 0xffff addresses and `DiscoveryState::start` then
claims its aligned run. The code checks neither (`config-client.cpp:56-58` compares the minimum with `MAX_ADDR_CLAIM` only); the runs keep to pools and minima where both hold.

**PacketsProofs**, for any sets, kinds of address, stations, networks, vendors, lifetimes and limits, in both builds of `slapType`:

- `PacketsUnderstood`: `Spec => []Understood`
- `PacketsReadBack`: `Spec => []ReadBack`
- `PacketsSetsArrive`: `Spec => []SetsArrive`
- `PacketsTakenByItsAsker`: `Spec => []TakenByItsAsker`
- `PacketsDissected`: `Spec => []DissectorAgrees`.

A packet is a sequence that senders fill in different orders, so the proofs compare it with its *content*: a record with one value, or none, for every
parameter and the second set of a DEFEND. `Carries` says that a packet implements a content: which parameters it has, with which lengths and flags, and that its
`m_length` is what they take. There is one lemma for each `add...` call (it puts one value into the content), one for what each sender may say (`Fitting`), and
one each for `toBuffer` with `parse` (`ComesThrough`: the content that comes out is the one that went in, but for sets cut to 16 bits), for `check` (`CheckAccepts`)
and for the getters. So no proof looks at two senders together, and an eighth sender would need one lemma. The inductive invariant `PacketsInv` says that `sent`
carries a fitting content, that `wire` is its bytes, and that `heard` is what `Receive` makes of them, which the next sender relies on when it answers: a block
offered has the kind that was asked for, and an ACK repeats a station. A packet has at most six parameters because its content has (`MAX_PAR` is never
reached by a seventh), and so it is never longer than `MAX_PKT_SIZE`.

For the dissector the invariant is of its loop: after *k* rounds (`InStep`) the offset is where the next parameter starts, `msglen` is what is left of the frame,
and the parameters shown are those passed. It rests on `LineAdvance`: the lengths that `MacSetPar` writes are the ones that the switch tells apart.

Of the constants the proofs need `PacketAssumption` and `NoneAssumption`. The first says of texts that their number of characters, which the code keeps in 8 bits, is
at most 253: `MAX_PKT_SIZE`, and with it the buffer of `netsend`, has 255 bytes for each text parameter, two of which are its type and length. The configuration
reads values of up to 255 characters (`config.cpp:291`) and does not check it. The second says that the model's value for "none" is no packet and no value of a parameter.

Only model-checked: `ReservationEnds`, `LeasesEnd` and `AsksNotForEver`, since liveness under fairness is outside the prover; and
`TypeInvariant`, `TreeBalanced`, `SearchFinds`, `FreeListIsRing` and `KeepsBlocks` of `LinkedDatabase`. A 2-3 tree is defined by recursion over its height,
its deletion recurs up to the root, and the ring is walked recursively; what such a definition computes for every tree needs induction over data, which the
installed provers cannot do.

## Findings

Four, each with its run: the forgotten announcement and the ignored conflict, where the report says
otherwise; the NULL pointer of `assign(count, ...)`, where the caller expects a refusal; and the membership that `fillMreq` asks for, which
is not the address in use: 2a:00:12:34:56:78 becomes 00:00:2a:00:12:34, and PALMA_MCAST 00:00:01:80:c2:ab. On a card that filters by its memberships no client hears an answer, an ANNOUNCE or a DEFEND; on the
virtual networks of the tests, which do not filter, nothing is lost. With `Member(a) == a` the instance of `palma_client_filtered` has no violation, so no path of the five states adds a second cause.

Seen while modelling, and modelled as the code does it:

- Free blocks may stay unspliced: `assign(container, ...)` puts the container of a held set in the free list and extracts from it, and
  `timeout` later joins only the neighbours of the block that ends. A pool that nobody holds any of may be in pieces. The report
  (p. 39) says that free consecutive blocks are spliced every time.
- `RequestingState::clean` takes the membership of a preassigned address away, which every other deletion spares. That is why
  the last part of `MembershipsStand` is about clients without a preassigned address. `PalmaClient` also reproduces a leak,
  the source address that stays in the filter when a defending client takes an OFFER, which costs the interface a membership and no client an answer.
- `processRequest` looks up the block of the requested set, leases the source address out of its block, and then leases the set out of the block it found
  before (`palma-server.cpp:266-276`). For a client of the unicast pool with a preassigned address from that pool both may be one block, which the first lease has split.
  The pointer then denotes the part in front of the source. A set there is leased rightly; one behind the source would make `extract` compute a size that wraps around, and
  dereference the NULL of `splitAndInsert` (`database.cpp:370-373`). The clients of this program never ask for such a set, because they ask for the first addresses of
  what was reserved: `ContainerHolds` says it, `palma_service` has the case, and `ContainersHold` proves it.
- A client with a unicast set and a `MIN_ADDR_CLAIM` above 16 that no server answers assigns itself 16 addresses (`states.cpp:183`): fewer than its minimum, which
  `processConflict` then takes it to have.
- A station, network or vendor text of one character makes every packet that has it unreadable (`Understood` states it as the one exception).
- An ACK with an alternate set and the conflict of a DEFEND are not made a mask when they are too large for a count, and arrive cut
  (`SetsArrive` states them as the two exceptions, `MayBeCut`).
- A text of 254 or 255 characters takes more room than `MAX_PKT_SIZE` counts for it, and its length byte wraps; the configuration lets it pass and the
  model leaves it out (`PacketAssumption`).
- `slapType` has no return statement; in each of the two builds that the model has, both sides compute the same flags.

## Not modelled

The XML configuration and the command line (read once, before the event loop runs: they are constants and initial states here), the opening of
sockets, the measurement scripts. The hash is taken to be injective. A restarted server or client begins anew: nothing is stored and no code handles it.
Ethernet frames that a card pads to 60 bytes, which `parse` refuses, are the network's and not in the model. Packets that this program does not
send are not received. Lifetimes and sizes of 0 in the handlers, which the configuration allows (what a timer does with 0 is in TimerList, a lifetime
of 0 travels in Packets). A server's `AutoassignObjection` turned off only removes claims; a DISCOVER without a set is sent in Packets and not served in
PalmaServer.

## Plan

What would add most next, in this order:

1. **PalmaNetwork** = PalmaServer + PalmaClient + a network that loses, repeats and delays: no two clients use one address while
   both leases run, both sides' clocks, and an abstract specification of exclusive use.
2. **PalmaClient**, further: multicast sets and two packets in flight.
3. **PalmaServer** with maxima above the wire's limit, where `sendOffer` aligns a block in the database.
4. **Proofs**: the ring of free blocks of `LinkedDatabase`, once its walk is written without recursive operators.
