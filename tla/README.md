# A TLA+ model of manet-beacon-trust

The repository simulates a mobile ad-hoc network in which a few *beacon* nodes
may lie about their position or drop the packets they should relay, detects
them from logs, and replays the verdicts into the simulator to measure what
excluding them costs. This directory holds TLA+ modules of the parts that carry
its logic, the TLC configurations that check them on small instances, and proofs
checked by TLAPS.

    tlc -config MCVerdict.cfg Verdict.tla        # a run; PROJECT.json names the module of each
    tlapm IsolationProofs.tla                    # proofs; likewise the other *Proofs, SumTheorems

## 1. Inventory

The programs run one after another and meet in CSV files; inside the simulators
everything is one event queue, and concurrency is the order in which events of
different nodes and timers run.

    mbtr-sim ──behaviour.csv, beacon_rx.csv──> features ──> trust ──> decide
       ^                                                              │
       └──────────── isolation schedule <── make_schedules <──────────┘
    manet-gen ──features of the AODV fork (aodvatk)──> external learners

| Component | State | Operations | What is hard | What makes it correct |
|---|---|---|---|---|
| Verdict (`analysis/decide.py`) | `state`, `bad_streak`, `good_streak` per target | one loop body per (window, target) group | long sequences of rows; windows without a row; streaks that outlive a verdict | a conviction and a release are earned; a conviction dwells |
| Isolation schedules (`analysis/make_schedules.py`) | state of the E loop, set of events | `build_schedules`, `_write` | edges of a stream, empty arms | the replay isolates what the arm promises, when it promises |
| Isolation registry and replay (`ns3/mbtr-isolation.h`, `mbtr-sim.cc`) | blocked targets per observer, event queue | `Isolate`, `Release`, `ApplyIsolationEvent` | events at one instant, partial application; isolated nodes still hear and speak | observers agree, an isolated target is released by its own event only |
| Blacklist queue discipline (`mbtr-isolation.h`) | internal queue | `DoEnqueue`, `DoDequeue` | routing does not see the drop; frames queued before the event | an isolated node is cut off once those have left |
| Node monitor (`mbtr-sim.cc`) | cumulative counters, their last snapshot, entry time per packet, sampling event | `RouteInput`, two IP traces, `SampleWindow` | a packet's two events may lie windows apart; unsigned differences; end of run | counters account for every packet, rows add up to them |
| Beacons (`mbtr-sim.cc`) | log of receptions | `BeaconApp::Send`, `BeaconMonitor::HandleRead` | signal strength of the right frame | evidence belongs to the node it names |
| Evidence table (`analysis/features.py`) | none (batch) | `window_localization`, `build_evidence` | two grids that must meet; boundaries of windows | no beacon is lost, no window gets another's behaviour |
| Trust model (`analysis/trust.py`) | trust history per (observer, target) | `compute_direct`, `_trimmed_bounded_mean`, `compute_trust` | each part may be missing; history stands in for missing evidence | missing evidence is not evidence; one liar does not move a consensus |
| Route discovery (`aodvatk-routing-protocol.cc`) | entries, retry timers, rate limit counter, postponed calls | `RouteOutput`, `DeferredRouteOutput`, `SendRequest`, `RouteRequestTimerExpire`, `RecvReply`, ... | timers racing replies; retries against a rate limit; counters that wrap | no packet waits unwatched or is lost, attempts and backoff bounded |
| Request queue (`aodvatk-rqueue.cc`) | queue of packets | `Enqueue`, `Dequeue`, `DropPacketWithDst`, `Purge` | full queue, purge within every call | bounded, every packet reported once |
| AODV message handlers (`aodvatk-routing-protocol.cc`) | tables of all nodes, messages in flight | `RecvRequest`, `SendReply`, `SendReplyByIntermediateNode`, `RecvReply`, `RecvError`, hello | lost, reordered, duplicated messages; stale sequence numbers; entries without an interface | sequence numbers never run ahead of their owner; floods end; every unicast finds a socket |
| Routing table (`aodvatk-rtable.*`) | entries with lifetime, flag, precursors | `AddRoute`, `Update`, `Purge`, `InvalidateRoutesWithDst`, ... | expiry between two lookups | an entry changes flag only along the life cycle |
| Data plane of AODV (`aodvatk-routing-protocol.cc`) | lifetimes of the entries | `RouteOutput` with a route, `RouteInput`, `Forwarding` | using a route prolongs it, while the purge a lookup or a new neighbour sets off takes routes away | a route in use is watched |
| Neighbours (`aodvatk-neighbor.*`) | list with expiry and `close`, purge timer | `Update`, `Purge`, `ProcessTxError` | purges within updates, the callback that changes the routing table, a timer every purge restarts | nobody stays a neighbour for ever |
| Duplicate caches (`aodvatk-id-cache.*`, `-dpd.*`) | timed set of identifiers | `IsDuplicate`, `Purge` | expiry against late copies | a flood is handled once per node |
| Packet headers (`aodvatk-packet.*`) | the message | `Serialize`, `Deserialize`, the places that fill and rewrite fields | fields and flags rewritten apart at each relay, units, a count of one byte | the receiver understands what was meant |
| Attacker of the fork (`aodvatk-routing-protocol.cc`) | drop probability | forged replies, `Forwarding`, `FloodStep` | acts along the entries it happens to have | part of the properties of the handlers |
| Feature emitter (`manet-gen.cc`) | counters of the fork, neighbours and frames heard, their last snapshot | `SnifferRx`, `EmitWindow` | counters, neighbours and frames have resets of their own | rows add up; an honest row never looks like an attacker's |
| Calibration, metrics, dataset split (`analysis/`) | none | `recovery_metrics`, `check_leakage`, ... | boundaries, empty sets | recovery is sustained; no run on both sides of a split |
| synth, tables, scripts, helper, tests, docs, results | none | - | - | not modelled: one-pass scripts, wiring and output |

`PROJECT.json` repeats the list with a status for each part, and lists under
`hazards` the lines where this code is hard to test, each with the properties
that cover it, or the reason why none does.

## 2. Modules

### Verdict
`decide()` walks groups of trust rows; `Decide(t, v)` is the loop body for one
group whose aggregated view compares with the thresholds as `v` says, `NoRow(t)`
is a window in which nobody heard the target: no group, the body does not run.
`rows` is the output table; properties read it, not the dictionaries.

### Isolation, IsolationPolicy
`Isolation` extends `Verdict`: three phases (decide, schedule, replay), the loop
of `build_schedules` one row at a time (`ScheduleRow`), the file written
(`ScheduleFile`, with the no-op row for an empty arm), the choice of the arm, the
events replayed into
the registry in time order, in any order within one instant.
`IsolationPolicy` is the abstract specification: time passes over a recorded
table and the isolated set follows it, per arm. `ImplementsPolicy` is the
refinement.

### RouteDiscovery
One node of the AODV fork. `rt`, `timer`, `m_rreqCount`, `m_queue` are the
members of that name; `loop` holds packets on their way through the loopback
device, `delayed` and `ready` the postponed calls of `SendRequest`. The other
nodes appear through what their messages write into an entry (`RecvReply`,
`HearNeighbor`, `HearRequest`), in any order. Packets are numbered by age. Queue
operations take `k`: the packets up to `k` have expired, which covers every
timing of `Purge` because age order is expiry order.

### AodvNetwork
The tables of several nodes and the messages between them. `air` is the set of
message copies under way, one per receiver; `Deliver` hands any of them to the
handler `RecvAodv` would choose, so messages overtake one another freely, and a
copy that is never chosen is lost. Each handler is one action per outcome
(`RecvDuplicate`, `ForgeReply`, `ReplyAsDestination`, `DropLoop`,
`SendReplyByIntermediateNode`, `ForwardRequest` make up `RecvRequest`;
`RecvReply`, `DropReply`, `ForwardReply`, `ProcessHello` make up
`RecvReply`), and all begin with `UpdateRouteToNeighbor`. The table a handler leaves
is an operator on the table it found, composed in the order of the code, because
the code works on copies of entries that it writes back with `Update`. What no
message causes is bounded by `MaxOutside`: a request, a hello, a broken link, data
that arrives without a route. `Expire` turns valid entries invalid and erases the
others at any moment. `NoHop` is the gateway of an entry that never got one; a
message `to` it stands for a send without a socket, after which nothing more
happens: `NS_ASSERT(socket)` fails, or, in the optimized build that
`scripts/setup_ns3.sh` makes, the null pointer is followed.

### NodeMonitor
One node of `mbtr-sim`: `RouteInput` of the wrapper (an action per outcome),
the traces, `SampleWindow`, a clock in ticks. AODV behind the wrapper is stock
ns-3 and external: it forwards, loses, or queues a packet. Packets of the node's
own that have no route return through the loopback device, as the comment and
code at `aodvatk-routing-protocol.cc:487-575` show for the fork. One that comes in
over the radio, round a loop, is counted in `transitRx` and then dropped by AODV
without any callback (565-569): `ConsumeOwn`, the fate `"consumed"`.

### Evidence
Extends `NodeMonitor` with the beacons heard and with `features.py`: the grid of
windows (`Grid`, the `np.arange` of the code), the samples in each, and the row a
window and an observer get (`RowOf`): a count of beacons, left joined with the row of
behaviour.csv of the same time. The monitor has its own variables and steps, so
whatever holds of it holds while the table is built.

### DataPlane
What one AODV node does with data, and how it notices that a neighbour has gone:
lifetimes of routing entries, the neighbour list and its purge timer, and what
*every* handler of a message does to them (`Hears`). Times are what is left of them
in ticks and stop falling below the point where more makes no difference, so that a
node may run for ever. A handler is a value `s = [rt, nb, timer]` that `Purge`,
`Update`, `UpdateRouteLifeTime`, ... turn into the next one, in the order of the
code: `Neighbors::Update` of a new neighbour purges the list, a purge reports who is
gone to `SendRerrWhenBreaksLinkToNextHop`, which changes the routing table under
the handler that is running. `Purged` is the purge with which each lookup of the
table begins. `used` remembers the routes the node has forwarded along since they
were last valid without interruption; only the properties read it. What an ARP
lookup finds is an input. `SpeaksOf` says of which hosts a neighbour can
have news: the topology behind it. `UpdateRouteToNeighbor` leaves a neighbour's
own entry with a valid number as it is, because the code prolongs a copy of it only
(1378-1382).

Two peculiarities of the code take a used route out of the care of the neighbour
list, and `adrift` names the routes they concern. A lost neighbour is put
among its own unreachable destinations (2196) whatever hop its route takes by now,
so forwarding to a destination that timed out as a neighbour and is reached through
another one can invalidate the very route the packet takes (`CutOff`). And the loss
of a neighbour breaks nothing once the neighbour's own entry is gone (2156-2159), which a
hop used by other routes may have lost before. `UsedRoutesWatched` says that nothing
else does; `ForwardingKeepsRoute` and `NoneAdrift` say that these do not, and are violated
(section 3).

### IsolationRecovery
`DataPlane` with the registry of one observer and the queue discipline of
`mbtr-isolation.h` below it. `queue` stands for the queue discipline and the MAC
queue behind it; `Transmit` sends its head or gives it up, which is the only way the
MAC tells AODV of a broken link. `Hear` is open to isolated nodes, too: the
discipline works on the way out. `quiet` is the moment after which nothing is sent
to this node or through it, for the property about silence.

### IsolatedNetwork
`AodvNetwork` with network-wide isolation: a step of the protocol whose new unicast
frames for an isolated node are discarded. Broadcasts and whatever the isolated node
sends pass, as in `DoEnqueue`.

### PacketHeaders
One message at a time, as a sequence of cells: its sender writes a header
(`SendRequest`, `SendReply`, ... fill the fields, `Serialize...` writes them),
each receiver reads the cells in turn and may write a changed header for the next.
`meant` is what the sender wanted to say, `got` what the receiver makes of it. Flags
are sets of bits, words and bytes keep their width (`WordMod`, `ByteMod`), lifetimes
are cut to milliseconds. `AddUnDestination` never returns false, so the branches of
`RoutingProtocol` that would split an error are dead. Its assertion is compiled out
of the optimized build (`scripts/setup_ns3.sh:21`): with 256 destinations or more the
count wraps (`GetDestCount`), as many pairs travel as it says, none if it is 0, and
the others are written past the room made for the header. That write may do no visible
harm or end the program (`stopped`); what else it might do to memory is not modelled.

### Trust
One observer and one target of `trust.py`, window after window: `ComputeDirect` by
its cases, `Trimmed` and `TrimmedBoundedMean` for the recommendations, `Aggregate`
with renormalised weights, `History` with the asymmetric decay; the three
ablations are the values of `mode`. Scores are whole parts of `Scale`. Stouffer's combination
of two branches enters as the interval its formula allows. The cap on one
recommendation's influence (`trust.py`) multiplies all weights alike before they are
normalised and has no effect, so it is not in the model. With fewer than five
recommendations nothing is trimmed. Trust itself, as opposed to its history, rebounds in
one clean window: only history is slow.

### FeatureEmitter
The counters the fork keeps for `manet-gen.cc` and its `EmitWindow`: rows of all
nodes at one instant, the differences to the last snapshot, and the three histories
it compares (counters and neighbours since the last row, frames heard since the
start of the run). `moves` counts what really happened to a neighbour list; only
`ChurnIsReal` reads it. The tunnel of a wormhole and `NbAddresses`, which
`manet-gen.cc` uses, are not defined in this tree: a neighbour is a node that was
heard, or the other end of a tunnel. The window that would end at `SimTime` is lost
(the stop was scheduled before it), unless it is the only one. `MonitorSnifferRx` is
connected twice; hearing a node twice is hearing it.

### Proofs
Modules that extend one another share a module of proofs: `IsolationProofs` is about
`Verdict` and `Isolation`, `EvidenceProofs` about `NodeMonitor` and `Evidence`,
`AnalysisProofs` about `FeatureEmitter` and `Trust`, which both work on the tables
the simulators leave. The other `<Module>Proofs` are about `<Module>`. `SumTheorems`
holds what the last three modules need of sums over finite sets.

## 3. Runs

| Run | Shows | Bounds | States |
|---|---|---|---|
| `verdict` | convictions and releases are earned, the recovery counter exists when indexed, convictions dwell | 1 target, 7 windows, persistence 2, clear_persistence 3: a conviction, a release and a second conviction fit; targets do not interact | 336 000 |
| `isolation` | the replay implements the policy of its arm, observers agree, an isolation is never repeated, the empty arm reaches the simulator as a no-op, replay settles | each of the arms C, D and E; 2 targets, 3 nodes, 3 windows, both persistences 1: conviction, release and a second target in one trace | 1.4 million |
| `route_discovery` | nothing waits unwatched, one custodian per packet, bounded queue, computable backoff, every packet is resolved while the rate limit postpones nothing | a reachable and an unreachable destination, 2 packets for a queue of 1, rate limit 1, 1 retry, a flooding attacker, `uint8_t` and `int` shortened to 2 bits: full queue, postponed calls, wrapped counters and retries all occur | 42 000 |
| `route_discovery_retries` | *violation*: attempts exceed RreqRetries | nothing reachable, 4 packets | |
| `evidence` | the counters account for every packet, the rows of behaviour.csv add up to them and none is missing; beacons are neither lost nor counted too often; grids meet | 2 packets, 2 observers, 2 beacons, window 4, step 2, 8 ticks: packets that span two windows, beacons on both sides of each edge, and the windows after the last row | 3.8 million |
| `aodv_network` | sequence numbers have a source, floods end, honest unicasts find a socket, one hop means neighbour | 3 nodes in a line, the last an attacker, rings that start at 2, 2 spontaneous events: a search across two hops with another flood, hello, broken link or missing route in between. The default start of 1 was run, too (113 000 states). Three nodes in range of each other, a ring of four and seven events were simulated at length | 1.2 million |
| `isolation_recovery` | neighbours and used routes stay watched, an isolated node is cut off, silence ends neighbours and routes | a node between an origin and a suspected destination, each of which can also be reached through the other, all lifetimes 1 tick, a queue of 1: a frame queued before the isolation, a timeout, a failed transmission, and routes that are cut off or adrift, in every order | 88 000 |
| `recovery_unprompted` | *violation*: isolation breaks the route through the isolated node | as above | |
| `isolated_answers` | *violation*: an isolated node does not answer into a route | 3 honest nodes in a line, 2 spontaneous events | |
| `headers` | requests, replies and errors are understood as meant, relays change only what they may | 6 hosts, up to 2 relays, 2 sequence numbers, lifetimes below, between and at whole milliseconds, a byte of 5 values, so that of errors about up to 6 destinations some fit, some wrap to 1 and some to 0 | 48 000 |
| `trust` | trust stays within the evidence, one liar does not move a consensus of five, silence changes nothing | the three ablations, up to 5 others, scores 0, 1/2 and 1, windows in any order and without end | 9 800 |
| `features` | honest rows look honest, rows add up to the counters, churn is real | an honest node and both ends of a tunnel, 3 windows, 4 events: events in each window and on both sides of a row | 4 million |

A violation run checks one statement quoted from a comment or document of
the repository; `findings` in `PROJECT.json` gives the quotation and the reason.
Every other property has a mutant: an operator ending in `Wrong...` that changes
one mapped definition as a slip in that line would, and that the run detects.

Twelve further configurations show disagreements of the code with its comments that
are not part of the list; each is violated:

| Configuration | Violated |
|---|---|
| `MCVerdictGap`, `MCVerdictFaint` (Verdict) | "consecutive windows" means consecutive *rows*; faint bad rows do not interrupt a clean streak |
| `MCMonitorSliding`, `MCMonitorShare`, `MCMonitorComplement`, `MCMonitorTransit` (NodeMonitor) | a row covers a step and not the window; the drop ratio, a difference of unsigned deltas, wraps; forwarding and dropping ratio are not complements; a node's own packets are counted as transit |
| `MCEvidenceLabels` (Evidence) | an attacker's last window is labelled honest |
| `MCRouteDiscoveryCount` (RouteDiscovery) | requests counted exceed requests sent |
| `MCHeadersLimit` (PacketHeaders) | `AddUnDestination` returns false when no more destinations fit (`aodvatk-packet.h:613`), so that a neighbour learns of all of them |
| `MCRecoveryCutOff`, `MCRecoveryAdrift` (MCIsolationRecovery) | forwarding along a route never costs the node that route; a route in use breaks with its next hop |
| `MCAodvSocket` (MCAodvNetwork) | a forged reply along the attacker's own search has no socket |

`CHECK_DEADLOCK FALSE` appears where programs end: a table of `MaxWindows`
windows (`verdict`), a replay (`isolation`), a run of `SimTime` (`evidence`,
`features`), a send without a socket (`aodv_network`), a write past a packet (`headers`), or a network in which
every table is empty and every spontaneous event spent (`aodv_network`,
`isolated_answers`). `RouteDiscovery`, `IsolationRecovery` and `Trust` never stop and are checked
for deadlock.

`CounterRange`, `CntRange`, `IntBits`, `WordMod`, `ByteMod` are the widths of
counters and fields; `MaxPackets`, `MaxWindows`, `MaxBeacons`, `MaxOutside`,
`MaxRelays`, `MaxOthers`, `MaxEvents` bound inputs and appear in guards.
`rrepSent` counts requests since the last lift of the limit and stops one above
it. Type invariants that are theorems for all constants (`Verdict`, `RouteDiscovery`,
`NodeMonitor`, `IsolationRecovery`) are not listed in a configuration again.

### Fairness
`EveryPacketResolved` and `EndsSettled` assume that the simulator runs every
event it has scheduled (`WF` on timers, postponed calls, deferred packets, the
replay): `Simulator::Run` processes the queue in time order until the end of the
run. Nothing is assumed of the network: no reply need ever come.
`EveryPacketResolved` speaks of behaviours in which the rate limit postpones no
call, because otherwise `route_discovery_retries` shows that a search may never give
up. `isolation_recovery` and `recovery_unprompted` assume the same of the clock and
the purge timer, and that the MAC gets its turn with the head of its queue. Nobody
is obliged to send, to be heard, or to fall silent: `IsolatedIsCutOff` has the
lasting isolation and `SilenceEndsRoutes` the silence as its hypothesis, and the
counterexample of `recovery_unprompted` is a network with steady traffic.

## 4. Proofs

All theorems hold for every value of the constants under the assumptions named
in the modules. Every invariant and every action property of a passing run is a
theorem; liveness and `ENABLED` stay with TLC.

`IsolationProofs`, the verdict (any number of targets and windows).
`IInv` says of each target's table that a summary links it to the dictionaries:
the state is the verdict of the last row, a positive bad streak *is* a run of
bad rows reaching the end, a held conviction has its run and a good streak
counted from clean rows that follow it. The properties alone are not inductive,
because they say nothing about the streaks. Appending a row (`AppendRow`) and a
window without a row (`AppendGap`) keep the summary and the properties; the
steps do nothing else. Proved: `TypeCorrect`, `ConvictionIsEarned`,
`ReleaseIsEarned`, `RecoveryCounterIsReady`, `ConvictionDwells`.

`IsolationProofs`, the replay (any nodes and targets, where a target is never the only node,
`NodesAssumption`). What an arm wants of a target is a function of its verdict
table (`Wanted`); the writer of the arm puts one event exactly where that wish turns
(`Follows`). The writer looks at convictions and releases only, while a conviction
also ends where a mere suspicion follows it; that none does is `NoRelapse`, from the
invariant of the verdict. During the replay the registry is a
function of the table, the time and the events still to run (`Sides`,
`Remaining`). Proved: types, `SchedulesAreReplayable`, `ArmDReactsFirst`,
`NetworkAgrees`, `CountIsExact`, and `ThePolicyIsImplemented`: the initial states map to
initial states of `IsolationPolicy`, a decision to `Record`, loading an arm to
`Choose`, a tick to `Advance`, an event to `Revise`, and every other step to a
stutter.

What `EndsSettled` rests on but for fairness is proved, too. `PipelineNeverStalls`: before the
end the guard of a step of the running program holds; in `decide` it is the turn
of a shortest table, in `schedule` at most one group is open (`InTurn`), in the replay
no event is overdue (`Remaining`). `PipelineWindsDown`: every step shrinks the finite set
of what is left to do (`Left`: phases, rows, cursor positions, windows, events), so that a trace
has at most `StepsLeft` steps. `TheEndIsSettled`: where the replay is over the network
isolates the targets the arm wants isolated. What is left to TLC is that a step whose
guard holds is taken.

`RouteDiscoveryProofs` (any destinations, packets, rate limit, capacity, under
`ConstantsAssumption` and `TtlAssumption`). `WaitingIsWatched` and `OneCustodian`
are inductive together with `TypeOK`; the proofs go action by action. A backoff
fails only if a counter has stepped over `RreqRetries`, which `overrun` records
(`BackoffInv`). The bound of the queue rests on the existence of a most aged
packet in a non-empty set of packets (well-foundedness of the naturals) and on
cardinalities. Proved: `TypeCorrect`, `NothingWaitsInVain`, `NoPacketLost`,
`QueueNeverOverflows`, `BackoffIsComputable`.

`AodvNetworkProofs` (every topology, any attackers, ring geometry and number of
outside events, under `NetworkAssumption`). `Inv` says of each table entry and each
message copy that it is good, with the sequence numbers as a parameter: a step
that raises them (`Later`) keeps everything else good (`TableStays`,
`MessageStays`), so a handler has to be argued only for the table and the messages it
makes. Three facts make it inductive: an entry whose number is valid has a next hop
even while it is searched for (a reply acknowledgement may turn it VALID); the
number of a way back has a source even where `PreviousHop` unmarks it (a
gratuitous reply carries it); a message without a receiver is an attacker's.
Proved from it: `TypeCorrect`, `SequenceNumbersHaveSource`, `HonestNodesFindSockets`.
`FloodsDieOut` (neither TtlStart nor TtlThreshold above NetDiameter) adds that a
copy of a request has made no more hops than there are caches that know it, and no
more than its ring allows (`BoundedCopy`): caches only grow, and a step makes a copy of a request only by starting a flood or by passing on
one the node had not seen. `OneHopMeansNeighbour` (`NetDiameter` above 1) adds
where a hop count of one may come from (`HopInv`): the hop count of an entry that
is searched for holds the radius of the ring, which is 1 for a first search with
the default TtlStart; an entry with that radius has no valid sequence number, so no node
answers from it and nothing copies the radius as a distance.

`IsolationRecoveryProofs` (every topology, traffic, queue and set of timeouts). `Good(s)`
is what every operation on a value `s = [rt, nb, timer]` preserves: the types,
that entries lead to neighbours, that the timer runs while the list is not empty
and ticks no later than its neighbours time out (`Watched`), and that no neighbour
with an entry leaves the list without the valid routes through it (`Keeps`). An `Update` of a
known neighbour only prolongs; the next hop `Forwarding` has just prolonged
survives the purge of the second `Update`, and so does the route but in the case
`CutOff` describes, which needs both a destination that has timed out and a
neighbour that is new; a tick lowers lifetimes and timer
together. Proved: `TypeCorrect`, `NeighboursStayWatched`, `UsedRoutesStayWatched`.
The safety halves of the two liveness properties follow from the same
invariant. `IsolatedOnlyDrains`: while a node is isolated what waits for it only moves
towards the head of the queue, one place with each transmission, so that `MaxQueue`
transmissions clear it. `SilenceOnlyForgets`: once a node is left in silence no neighbour
comes back or stays longer, and no route becomes usable, changes its next hop or lives longer.

`SumTheorems`. The sums of the community modules are folds along whatever elements
CHOOSE picks, and the library's induction over finite sets takes an operator as a
parameter. The module argues with a least counterexample instead: of the subsets of a finite set
for which something fails, one has no smaller one (`LeastSubset`, from the library's
`WFMin`). In this way the recursion is shown to define a function (`AddsExists`)
and any element may be taken last (`SumOfOneMore`); that sums depend on the values
only (`SumsAgree`), are integers (`SumType`), and lie between multiples of the
size (`SumBounds`) follows.

`EvidenceProofs`, the monitor (any window, step, length of run and number of packets
up to `MaxPackets < CounterRange`). The
packets of each fate are finite sets, a packet moves from one to another, and the
counters follow their cardinalities (`Account`); the next sample is the next point
of the grid or the run ends before it (`SampleGrid`). For `RowsAddUp` the invariant adds that
no counter is behind the snapshot (`Behind`) or beyond its range
(`CountersInRange`), so that the unsigned differences of `SampleWindow` are exact
(`MinusExact`), and that the columns of the table add up to the snapshot
(`Columns`), which a row more keeps (`SumOfAppended`). `delaySum` is a double in
the code and never wraps. Proved: `TypeCorrect`, `PacketsAreAccountedFor`,
`NoRowIsMissing`, `EventsAreReportedOnce`.

`EvidenceProofs`, the table (also any observers and beacons). The table is a function of the
rows of the monitor and of the beacons heard, and neither changes once it is built;
its steps are steps of the monitor or leave the monitor's variables alone, so the theorems
about the monitor carry over. The rest is arithmetic on the two grids:
every beacon is followed by a grid point within a step, the greatest beacon exists by
well-foundedness, and the rows a beacon is in inject into
`ceil(Window / WindowStep)` grid points. Proved: `TableKeepsAccount`,
`TableKeepsGrid`, `TableKeepsSums`, `TableTypeCorrect`, `TheGridsMeet`, `NoBeaconIsLost`.

`PacketHeadersProofs` (any hosts, identifiers, sequence numbers, hop counts and
lifetimes that fit their fields, any number of relays the hop count holds, and any number of
destinations, `HeadersAssumption`; the TTL keeps the code within it). What is on its way is a header, serialised, that agrees
with the message as far as relays must not change it (`Travels`): the invariant of the
run, which speaks of the last receiver only, says nothing of the next. Each header
is read back as it was written. For an error this is a
lemma of its own (`ErrorReadBack`): the keys of the map can be listed, each once, because it is
finite; the receiver reads the first `GetDestCount` of them with their numbers, in
whichever order they were listed; listed once each they are that many, and
all of them where their number fits the byte. A lifetime is divided once and multiplied back, and
its quotient does not overflow the word (`LifeTimeCut`). Proved:
`RequestsAreUnderstood`, `RepliesAreUnderstood`, `ErrorsAreUnderstood`.

`AnalysisProofs`, the emitter (any nodes, attackers, windows and events). An honest node
has dropped nothing, now or at the last snapshot, and has no neighbour it never
heard (`HonestNodes`); its rows therefore have the ratio 1 and no unheard neighbour.
The rows written so far add up to the snapshot (`Written`); a row
written now is none of them, because all of them are older than `nextEmit`, which is
what keeps two equal windows from being one element of the set. The counters of
packets to forward balance in the table of counters and in the snapshot
(`Balanced`), so they do in the difference. A move changes the difference of
two neighbour lists by one element at most (`ChangedByOne`, `Moves`).
Proved: `HonestRowsLookHonest`, `FeatureRowsAddUp`, `FeatureChurnIsReal`.

`AnalysisProofs`, trust (any scores, scale, weights, decays, number of observers and
trimmed fraction below one half). A weighted mean rounded down lies between any two bounds
of its parts (`MeanBetween`, `AggregateBetween`, `HistoryBetween`), parts that are missing count
nothing and not all are missing unless no score ever entered. A list in order is in
order over any distance (`FarInOrder`, by a least counterexample), and an inner
element of it lies between two elements other than any one given (`RestBounds`):
with at least one cut from each end (`TrimmedList`) the mean does, too. This is where
`OneLiarMovesNothing` needs a trimmed fraction of a fifth or more (`trim_fraction` is 0.2):
with less, five recommendations are not trimmed at all, and the statement is false.
Proved: `TrustStaysWithinEvidence`, `OneLiarMovesNothing`, `SilenceKeepsTrust`.

Only model-checked, because they need fairness and `ENABLED`: `EveryPacketResolved`,
`EndsSettled`, `IsolatedIsCutOff`, `SilenceEndsRoutes`.

## 5. What is abstracted or left out

- Real numbers. Trust values, residuals and ratios enter as the outcomes of the
  comparisons the code makes on them, as whole parts of a scale, or as numerator and
  denominator, whichever a property needs. The rounding of the end point of
  `np.arange` is left out: its grid is in ticks.
- Time is windows or ticks; jitter is part of the freedom with which messages are
  delivered. In `AodvNetwork` and `RouteDiscovery` lifetimes of routing entries end at any
  moment, in `DataPlane` they are kept.
- One interface per node, as both scenarios configure: interface and address
  changes are not modelled.
- `mbtr-sim` runs the AODV of ns-3, which is not in this tree; the fork `aodvatk` copies
  its text and adds the attacker. `DataPlane` and `IsolationRecovery` take the lines
  of the fork without the attacker. `EnableHello` is a parameter.
- In `Evidence`, the peer statistics of `build_evidence` and all targets but one.
- In `AodvNetwork`: sequence numbers do not wrap (32 bits are not reached), the
  duplicate cache keeps identifiers for ever, the RERR rate limit is left out,
  and control unicasts reach their next hop without the IP layer. There is no
  blacklist because none arises: its timer is armed on a copy of the entry and
  never started. Loop freedom is not a property: simulations of the model with
  three mutual neighbours reach two honest nodes that point at each other, and
  errors that the two repeat until the entries are purged. No document claims it.
- When a neighbour sends a hello, or leaves it out because it broadcast something
  else, is not modelled: in `DataPlane` nothing need ever be heard of it.

Not modelled:

- Calibration and metrics (`calibrate.py`, `metrics.py`, `run_verify.py`):
  statistics over a finished run, without state from one step to the next.
- Dataset split (`dataset.py`): assembles files and checks once that no run is on
  both sides.
- Synthetic evidence, tables and inventory (`synth.py`, `ablate_agg.py`,
  `build_tables.py`, `inventory.py`): scripts of one pass that draw random data or
  print.
- Shell scripts: run the programs above in sequence.
- Helper and build files: create objects and assign random streams.
- Tests, documents and results: read as statements about the code.

## 6. Plan

Done: every component with state of its own, alone and composed where they interact
(`Isolation` with `Verdict`, `Evidence` with `NodeMonitor`, `IsolationRecovery` with
`DataPlane`, `IsolatedNetwork` with `AodvNetwork`), and the proofs above.

Left, in this order:

1. `RecoveryMetrics`: the rule by which a recovery counts as sustained
   (`metrics.py:166-170`) against a reference definition, and `DatasetSplit`, the leakage check, as pure operators.
2. The RERR rate limit in `AodvNetwork`: two of the three paths that send an error compare
   `m_rerrCount` without incrementing it.
3. Two nodes of `DataPlane` with a common clock, for hellos suppressed by other
   broadcasts.
4. What can be proved towards `EveryPacketResolved` without fairness, as for the other
   liveness properties: that a search left alone comes to an end.
