--------------------------- MODULE RouteDiscovery ---------------------------
(***************************************************************************)
(* Route discovery as one AODV node runs it for its own packets            *)
(* (ns3-modules/aodvatk: RoutingProtocol, RequestQueue, RoutingTable).     *)
(*                                                                         *)
(* A packet without a valid route goes through the loopback device into    *)
(* the request queue; an expanding ring of route requests looks for its    *)
(* destination; a reply, a timer or the timeout of the queue takes it out. *)
(* The rest of the network is an environment that may answer, be heard     *)
(* from, or break links at any time.                                       *)
(*                                                                         *)
(* Time is left out: a timer may fire whenever it runs, an entry may       *)
(* expire whenever it can.  Sequence numbers enter only through the        *)
(* comparison a reply makes.  The node has one interface.                  *)
(***************************************************************************)
EXTENDS Integers, Sequences, FiniteSets

CONSTANTS
    Dsts, Reachable,        \* destinations, and those that exist out there
    Hops,                   \* hop counts heard in replies and requests
    RateLimit,              \* m_rreqRateLimit
    RreqRetries,            \* m_rreqRetries
    TtlStart, TtlIncrement, TtlThreshold, NetDiameter,
    MaxLen,                 \* capacity of the request queue
    MaxPackets,             \* bound: packets the application sends
    CntRange, IntBits,      \* values of a uint8_t, bits of an int but the sign
    Flooding,               \* FloodRate > 0: the node also asks for nobody
    MaxOutside              \* bound: requests heard and requests for nobody

ASSUME ConstantsAssumption ==
    /\ Reachable \subseteq Dsts
    /\ Hops \subseteq Nat \ {0}
    /\ RateLimit \in Nat \ {0} /\ RreqRetries \in Nat \ {0}
    /\ TtlStart \in Nat /\ TtlIncrement \in Nat /\ TtlThreshold \in Nat
    /\ NetDiameter \in Nat
    /\ MaxLen \in Nat \ {0} /\ MaxPackets \in Nat /\ MaxOutside \in Nat
    /\ CntRange \in Nat /\ CntRange > RreqRetries + 1
    /\ IntBits \in Nat /\ IntBits >= RreqRetries
    /\ Flooding \in BOOLEAN

(* The defaults are 1, 7 and 35.  DoInitialize refuses the first over the  *)
(* last; that the threshold is no larger either is left to the user.       *)
ASSUME TtlAssumption == TtlStart <= NetDiameter /\ TtlThreshold <= NetDiameter

VARIABLES
    rt,             \* routing table: one entry per destination
    timer,          \* destinations whose m_addressReqTimer runs
    m_rreqCount,    \* requests sent since the rate limit timer fired
    delayed, ready, \* postponed SendRequests, before and after that timer
    dest,           \* destination of every packet sent so far
    loop,           \* packets on their way through the loopback device
    m_queue,        \* packets in the request queue; a lower number is older
    sent, dropped,  \* packets given to IP, packets reported as errors
    outside,        \* requests heard, or injected by FloodStep, so far
    rrepSent,       \* requests counted since then, up to RateLimit + 1
    overrun,        \* some destination was tried more than RreqRetries times
    failed          \* a backoff could not be computed

retry_vars == <<timer, m_rreqCount, delayed, ready, rrepSent, overrun, failed>>
search_vars == <<rt, retry_vars>>
packet_vars == <<dest, loop, m_queue, sent, dropped>>
vars == <<search_vars, packet_vars, outside>>

Flags == {"NONE", "VALID", "INVALID", "IN_SEARCH"}

(* No entry: what a failed lookup leaves in a fresh RoutingTableEntry. *)
NoRoute == [flag |-> "NONE", hop |-> 0, cnt |-> 0, vsn |-> FALSE]

Entry == [flag : Flags, hop : Nat, cnt : 0..(CntRange - 1), vsn : BOOLEAN]

Route(hop, vsn) == [flag |-> "VALID", hop |-> hop, cnt |-> 0, vsn |-> vsn]

Packets == 1..MaxPackets

Init ==
    /\ rt = [d \in Dsts |-> NoRoute]
    /\ timer = {}
    /\ m_rreqCount = 0
    /\ delayed = [d \in Dsts |-> 0] /\ ready = [d \in Dsts |-> 0]
    /\ dest = <<>>
    /\ loop = {} /\ m_queue = {} /\ sent = {} /\ dropped = {}
    /\ outside = 0
    /\ rrepSent = 0 /\ overrun = FALSE /\ failed = FALSE

----------------------------------------------------------------------------
(* The request queue.  Every operation first purges what has timed out,    *)
(* which is the packets up to some number k, k = 0 being none.             *)

Kept(k) == {p \in m_queue : p > k}
Outdated(k) == {p \in m_queue : p <= k}
For(d, Q) == {p \in Q : dest[p] = d}

MostAgedWrongLate(Q) ==
    {p \in Q : Cardinality(Q) > MaxLen /\ \A q \in Q : p <= q}

(* What a full queue gives up for a new packet: its most aged one. *)
MostAged(Q) == {p \in Q : Cardinality(Q) = MaxLen /\ \A q \in Q : p <= q}

EnqueueWrongSilent(p, k) ==
    /\ m_queue' = (Kept(k) \ MostAged(Kept(k))) \cup {p}
    /\ dropped' = dropped \cup Outdated(k)

Enqueue(p, k) ==
    /\ m_queue' = (Kept(k) \ MostAged(Kept(k))) \cup {p}
    /\ dropped' = dropped \cup Outdated(k) \cup MostAged(Kept(k))

DropPacketWithDst(d, k) ==
    /\ m_queue' = Kept(k) \ For(d, Kept(k))
    /\ dropped' = dropped \cup Outdated(k) \cup For(d, Kept(k))
    /\ UNCHANGED sent

SendPacketFromQueue(d, k) ==
    /\ m_queue' = Kept(k) \ For(d, Kept(k))
    /\ sent' = sent \cup For(d, Kept(k))
    /\ dropped' = dropped \cup Outdated(k)

----------------------------------------------------------------------------
(* Sending a request.                                                      *)

RingTtlWrongThreshold(e) ==
    CASE e.flag = "NONE"      -> TtlStart
      [] e.flag = "IN_SEARCH" -> e.hop + TtlIncrement
      [] OTHER                -> IF e.hop + TtlIncrement < NetDiameter
                                 THEN e.hop + TtlIncrement ELSE NetDiameter

(* The hop field of the entry carries the radius of the previous ring. *)
RingTtl(e) ==
    CASE e.flag = "NONE"      -> TtlStart
      [] e.flag = "IN_SEARCH" -> IF e.hop + TtlIncrement > TtlThreshold
                                 THEN NetDiameter ELSE e.hop + TtlIncrement
      [] OTHER                -> IF e.hop + TtlIncrement < NetDiameter
                                 THEN e.hop + TtlIncrement ELSE NetDiameter

(* IncrementRreqCnt on a uint8_t. *)
Incremented(n) == IF n + 1 = CntRange THEN 0 ELSE n + 1

Searching(e) ==
    [flag |-> "IN_SEARCH", hop |-> RingTtl(e), vsn |-> e.vsn,
     cnt |-> IF RingTtl(e) = NetDiameter THEN Incremented(e.cnt) ELSE e.cnt]

OverLimit == m_rreqCount = RateLimit

Postpone(d) == [delayed EXCEPT ![d] = @ + 1]

(* At full radius ScheduleRreqRetry shifts 1 by the attempts less one: it  *)
(* aborts when none is counted, and the int overflows when too many are.   *)
NoBackoff(e) == e.hop >= NetDiameter /\ (e.cnt = 0 \/ e.cnt > IntBits)

(* A request over the limit changes nothing yet: the whole call is         *)
(* repeated after the limit is lifted.  Otherwise ScheduleRreqRetry arms   *)
(* the timer of d.  The counter of requests counts every call.             *)
SendRequest(d, running) ==
    /\ rrepSent' = IF rrepSent > RateLimit THEN rrepSent ELSE rrepSent + 1
    /\ \/ /\ OverLimit
          /\ delayed' = Postpone(d)
          /\ timer' = running
          /\ UNCHANGED <<rt, m_rreqCount, overrun, failed>>
       \/ /\ ~OverLimit
          /\ m_rreqCount' = m_rreqCount + 1
          /\ rt' = [rt EXCEPT ![d] = Searching(@)]
          /\ timer' = running \cup {d}
          /\ overrun' = (overrun \/ rt'[d].cnt > RreqRetries)
          /\ failed' = (failed \/ NoBackoff(rt'[d]))
          /\ UNCHANGED delayed

SendDelayedRequest(d) ==
    /\ ready[d] > 0
    /\ ready' = [ready EXCEPT ![d] = @ - 1]
    /\ SendRequest(d, timer)
    /\ UNCHANGED <<packet_vars, outside>>

(* The flooding misbehaviour asks for destinations that do not exist.      *)
FloodStep(d) ==
    /\ Flooding /\ d \notin Reachable
    /\ outside < MaxOutside
    /\ outside' = outside + 1
    /\ SendRequest(d, timer)
    /\ UNCHANGED <<ready, packet_vars>>

(* Postponed calls run 100 us after the timer that lifts the limit, long   *)
(* before it fires again.                                                  *)
RreqRateLimitTimerExpire ==
    /\ \A d \in Dsts : ready[d] = 0
    /\ m_rreqCount' = 0 /\ rrepSent' = 0
    /\ ready' = delayed
    /\ delayed' = [d \in Dsts |-> 0]
    /\ UNCHANGED <<rt, timer, overrun, failed, packet_vars, outside>>

----------------------------------------------------------------------------
(* Packets of the node's own applications.                                 *)

RouteOutput(d) ==
    LET p == Len(dest) + 1
    IN  /\ p \in Packets
        /\ dest' = Append(dest, d)
        /\ IF rt[d].flag = "VALID"
           THEN sent' = sent \cup {p} /\ UNCHANGED loop
           ELSE loop' = loop \cup {p} /\ UNCHANGED sent
        /\ UNCHANGED <<m_queue, dropped, search_vars, outside>>

(* The route may have come up since; a search is started all the same. *)
DeferredRouteOutput(p, k) ==
    /\ p \in loop /\ \A q \in loop : p <= q
    /\ loop' = loop \ {p}
    /\ Enqueue(p, k)
    /\ IF rt[dest[p]].flag # "IN_SEARCH"
       THEN SendRequest(dest[p], timer)
       ELSE UNCHANGED <<rt, timer, m_rreqCount, delayed, rrepSent, overrun, failed>>
    /\ UNCHANGED <<ready, dest, sent, outside>>

RouteFoundWrongReturn(d, k) == k = 0 /\ UNCHANGED <<m_queue, sent, dropped>>

RouteFound(d, k) == SendPacketFromQueue(d, k)

RouteRequestTimerExpire(d, k) ==
    /\ d \in timer
    /\ \/ /\ rt[d].flag = "VALID"
          /\ RouteFound(d, k)
          /\ timer' = timer \ {d}
          /\ UNCHANGED <<rt, m_rreqCount, delayed, rrepSent, overrun, failed>>
       \/ /\ rt[d].flag = "IN_SEARCH" /\ rt[d].cnt # RreqRetries
          /\ k = 0
          /\ SendRequest(d, timer \ {d})
          /\ UNCHANGED <<m_queue, sent, dropped>>
       \/ /\ \/ rt[d].flag \in {"NONE", "INVALID"}
             \/ rt[d].flag = "IN_SEARCH" /\ rt[d].cnt = RreqRetries
          /\ rt' = [rt EXCEPT ![d] = NoRoute]
          /\ timer' = timer \ {d}
          /\ DropPacketWithDst(d, k)
          /\ UNCHANGED <<m_rreqCount, delayed, rrepSent, overrun, failed>>
    /\ UNCHANGED <<ready, dest, loop, outside>>

----------------------------------------------------------------------------
(* Messages from the network and the expiry of entries.                    *)

(* Circumstances (i) to (iv): order compares the sequence number of the    *)
(* reply with the one in the entry.                                        *)
Accepts(e, hop, order) ==
    \/ ~e.vsn
    \/ order = "greater"
    \/ order = "equal" /\ (e.flag # "VALID" \/ hop < e.hop)

(* RecvReply at the node the reply is for.  An entry in search is replaced *)
(* whatever the comparison says, and its timer stopped; the queue is       *)
(* emptied along the entry, valid or not.                                  *)
RecvReply(d, hop, order, k) ==
    /\ rt' = IF rt[d].flag \in {"NONE", "IN_SEARCH"} \/ Accepts(rt[d], hop, order)
             THEN [rt EXCEPT ![d] = Route(hop, TRUE)] ELSE rt
    /\ timer' = IF rt[d].flag = "IN_SEARCH" THEN timer \ {d} ELSE timer
    /\ SendPacketFromQueue(d, k)
    /\ UNCHANGED <<m_rreqCount, delayed, ready, rrepSent, overrun, failed, dest, loop, outside>>

(* A neighbour is heard: by UpdateRouteToNeighbor and the toNeighbor part  *)
(* of RecvRequest without, by ProcessHello with a sequence number.  When   *)
(* UpdateRouteToNeighbor finds its entry up to date, nothing happens.      *)
HearNeighbor(d, vsn) ==
    /\ rt' = [rt EXCEPT ![d] = Route(1, vsn)]
    /\ UNCHANGED <<retry_vars, packet_vars, outside>>

(* A request of d itself, over several hops: the reverse route keeps the   *)
(* flag of the entry it overwrites.                                        *)
HearRequest(d, hop) ==
    /\ outside < MaxOutside
    /\ outside' = outside + 1
    /\ rt' = [rt EXCEPT ![d] =
                IF @.flag = "NONE" THEN Route(hop, TRUE)
                ELSE [@ EXCEPT !.hop = hop, !.vsn = TRUE]]
    /\ UNCHANGED <<retry_vars, packet_vars>>

(* A valid route times out, or the link it uses breaks. *)
Invalidate(d) ==
    /\ rt[d].flag = "VALID"
    /\ rt' = [rt EXCEPT ![d].flag = "INVALID"]
    /\ UNCHANGED <<retry_vars, packet_vars, outside>>

PurgeInvalid(d) ==
    /\ rt[d].flag = "INVALID"
    /\ rt' = [rt EXCEPT ![d] = NoRoute]
    /\ UNCHANGED <<retry_vars, packet_vars, outside>>

----------------------------------------------------------------------------
Orders == {"less", "equal", "greater"}

Network ==
    \/ \E d \in Reachable, hop \in Hops, order \in Orders, k \in 0..MaxPackets :
          RecvReply(d, hop, order, k)
    \/ \E d \in Reachable, vsn \in BOOLEAN : HearNeighbor(d, vsn)
    \/ \E d \in Reachable, hop \in Hops : HearRequest(d, hop)
    \/ \E d \in Dsts : Invalidate(d) \/ PurgeInvalid(d)

Next ==
    \/ \E d \in Dsts : RouteOutput(d) \/ SendDelayedRequest(d) \/ FloodStep(d)
    \/ \E p \in loop, k \in 0..MaxPackets : DeferredRouteOutput(p, k)
    \/ \E d \in Dsts, k \in 0..MaxPackets : RouteRequestTimerExpire(d, k)
    \/ RreqRateLimitTimerExpire
    \/ Network

Spec == Init /\ [][Next]_vars

(* What the simulator's event queue owes the node: every event scheduled   *)
(* is run.                                                                 *)
Fairness ==
    /\ WF_vars(\E p \in loop, k \in 0..MaxPackets : DeferredRouteOutput(p, k))
    /\ WF_vars(RreqRateLimitTimerExpire)
    /\ \A d \in Dsts : /\ WF_vars(\E k \in 0..MaxPackets : RouteRequestTimerExpire(d, k))
                       /\ WF_vars(SendDelayedRequest(d))

FairSpec == Spec /\ Fairness

----------------------------------------------------------------------------
TypeOK ==
    /\ rt \in [Dsts -> Entry]
    /\ timer \subseteq Dsts
    /\ m_rreqCount \in 0..RateLimit
    /\ delayed \in [Dsts -> Nat] /\ ready \in [Dsts -> Nat]
    /\ dest \in Seq(Dsts) /\ Len(dest) <= MaxPackets
    /\ loop \subseteq 1..Len(dest) /\ m_queue \subseteq 1..Len(dest)
    /\ sent \subseteq 1..Len(dest) /\ dropped \subseteq 1..Len(dest)
    /\ outside \in 0..MaxOutside
    /\ rrepSent \in 0..(RateLimit + 1)
    /\ overrun \in BOOLEAN /\ failed \in BOOLEAN

(* Something scheduled will come back to destination d. *)
Watched(d) == d \in timer \/ delayed[d] + ready[d] > 0

(***************************************************************************)
(* No packet waits for nothing: whatever replies, neighbours and expiring  *)
(* entries do to the table, a destination with packets in the queue has a  *)
(* running timer or a postponed request.  RecvReply erases the timer,      *)
(* RouteRequestTimerExpire lets it lapse, SendRequest may return early.    *)
(* The same holds of every entry in search: DeferredRouteOutput sends no   *)
(* request for it and relies on the search that is said to go on.          *)
(***************************************************************************)
WaitingIsWatched ==
    /\ \A p \in m_queue : Watched(dest[p])
    /\ \A d \in Dsts : rt[d].flag = "IN_SEARCH" => Watched(d)

(***************************************************************************)
(* Every packet the application sent is in one place: in the loopback,     *)
(* queued, sent, or reported to its error callback.  Purging, dropping,    *)
(* emptying and overflow never lose a packet silently nor report it twice. *)
(***************************************************************************)
OneCustodian ==
    /\ loop \cup m_queue \cup sent \cup dropped = 1..Len(dest)
    /\ loop \cap m_queue = {}
    /\ (loop \cup m_queue) \cap sent = {}
    /\ (loop \cup m_queue \cup sent) \cap dropped = {}

(* Enqueue tests for equality with the capacity; the queue never passes it.*)
QueueBounded == Cardinality(m_queue) <= MaxLen

(***************************************************************************)
(* The backoff can be computed, the assertion of ScheduleRreqRetry holding *)
(* and the shift staying within an int, whatever replies, requests and     *)
(* neighbours have written into the hop count that also steers the ring:   *)
(* unless a destination has been tried more than RreqRetries times.        *)
(***************************************************************************)
BackoffComputable == failed => overrun

(* The rate limit has postponed nothing. *)
Unhurried == \A d \in Dsts : delayed[d] = 0 /\ ready[d] = 0

(***************************************************************************)
(* As long as the rate limit postpones nothing, every packet leaves the    *)
(* node: sent, or reported to the application as undeliverable.            *)
(***************************************************************************)
EveryPacketResolved ==
    []Unhurried => \A p \in Packets :
        (p \in loop \cup m_queue) ~> (p \in sent \cup dropped)

(***************************************************************************)
(* "If a route discovery has been attempted RreqRetries times at the       *)
(* maximum TTL ... all data packets ... SHOULD be dropped": no destination *)
(* is tried more often than that.                                          *)
(***************************************************************************)
AttemptsBounded == \A d \in Dsts : rt[d].cnt <= RreqRetries

(***************************************************************************)
(* The counter read into the feature rreq_sent counts "ALL originated      *)
(* RREQs" (results/findings.md): it cannot grow faster than requests may   *)
(* leave the node, RREQ_RATELIMIT per second.                              *)
(***************************************************************************)
CountsOriginated == rrepSent <= RateLimit

=============================================================================
