------------------------ MODULE RouteDiscoveryProofs ------------------------
(***************************************************************************)
(* Proofs about RouteDiscovery, for every set of destinations, every rate  *)
(* limit, number of retries, ring geometry with TtlAssumption, widths of   *)
(* the counters, and queue capacity.                                       *)
(***************************************************************************)
EXTENDS RouteDiscovery, FiniteSetTheorems, WellFoundedInduction, TLAPS

(* The radius of a ring is a number, and the entry it is stored in is one. *)
LEMMA SearchingEntry ==
    ASSUME NEW e \in Entry
    PROVE  Searching(e) \in Entry
<1>1. RingTtl(e) \in Nat
  BY ConstantsAssumption DEF RingTtl, Entry
<1>2. Incremented(e.cnt) \in 0..(CntRange - 1)
  BY ConstantsAssumption DEF Incremented, Entry
<1> QED
  BY <1>1, <1>2 DEF Searching, Entry, Flags

(* SendRequest keeps the types of everything it touches. *)
LEMMA SendRequestTypes ==
    ASSUME TypeOK, NEW d \in Dsts, NEW running \in SUBSET Dsts,
           SendRequest(d, running)
    PROVE  /\ rt' \in [Dsts -> Entry]
           /\ timer' \subseteq Dsts
           /\ m_rreqCount' \in 0..RateLimit
           /\ delayed' \in [Dsts -> Nat]
           /\ rrepSent' \in 0..(RateLimit + 1)
           /\ overrun' \in BOOLEAN /\ failed' \in BOOLEAN
<1>1. rrepSent' \in 0..(RateLimit + 1)
  BY ConstantsAssumption DEF SendRequest, TypeOK
<1>2. CASE OverLimit
  <2>1. /\ delayed' = [delayed EXCEPT ![d] = @ + 1] /\ timer' = running
        /\ UNCHANGED <<rt, m_rreqCount, overrun, failed>>
    BY <1>2 DEF SendRequest, Postpone
  <2> QED
    BY <1>1, <2>1 DEF TypeOK
<1>3. CASE ~OverLimit
  <2>1. Searching(rt[d]) \in Entry
    BY SearchingEntry DEF TypeOK
  <2>2. /\ overrun' = (overrun \/ rt'[d].cnt > RreqRetries)
        /\ failed' = (failed \/ NoBackoff(rt'[d]))
    BY <1>3 DEF SendRequest
  <2>3. overrun' \in BOOLEAN /\ failed' \in BOOLEAN
    BY <2>2, Zenon
  <2>4. rt' \in [Dsts -> Entry] /\ timer' \subseteq Dsts
    BY <1>3, <2>1 DEF SendRequest, TypeOK
  <2>5. m_rreqCount' \in 0..RateLimit /\ delayed' \in [Dsts -> Nat]
    BY <1>3, ConstantsAssumption DEF SendRequest, OverLimit, TypeOK
  <2> QED
    BY <1>1, <2>3, <2>4, <2>5
<1> QED
  BY <1>2, <1>3

(* The fields of TypeOK that speak of packets. *)
PacketTypes ==
    /\ dest \in Seq(Dsts) /\ Len(dest) <= MaxPackets
    /\ loop \subseteq 1..Len(dest) /\ m_queue \subseteq 1..Len(dest)
    /\ sent \subseteq 1..Len(dest) /\ dropped \subseteq 1..Len(dest)

(* And the others. *)
SearchTypes ==
    /\ rt \in [Dsts -> Entry]
    /\ timer \subseteq Dsts
    /\ m_rreqCount \in 0..RateLimit
    /\ delayed \in [Dsts -> Nat] /\ ready \in [Dsts -> Nat]
    /\ outside \in 0..MaxOutside
    /\ rrepSent \in 0..(RateLimit + 1)
    /\ overrun \in BOOLEAN /\ failed \in BOOLEAN

(* TypeOK in two halves: most steps disturb only one. *)
LEMMA TypeParts == TypeOK <=> PacketTypes /\ SearchTypes
BY DEF TypeOK, PacketTypes, SearchTypes

(* What the handlers put into the table is an entry. *)
LEMMA FreshRoutes ==
    /\ NoRoute \in Entry
    /\ \A hop \in Hops \cup {1}, vsn \in BOOLEAN : Route(hop, vsn) \in Entry
BY ConstantsAssumption DEF NoRoute, Route, Entry, Flags

(* RouteOutput: one more packet, sent or looped back. *)
LEMMA RouteOutputType ==
    ASSUME TypeOK, NEW d \in Dsts, RouteOutput(d)
    PROVE  TypeOK'
<1>1. SearchTypes'
  BY DEF RouteOutput, TypeOK, SearchTypes, search_vars, retry_vars
<1>2. /\ dest' \in Seq(Dsts)
      /\ Len(dest') = Len(dest) + 1
      /\ Len(dest) \in Nat /\ Len(dest) + 1 <= MaxPackets
  BY ConstantsAssumption DEF RouteOutput, TypeOK, Packets
<1>3. /\ 1..Len(dest) \subseteq 1..Len(dest')
      /\ Len(dest) + 1 \in 1..Len(dest')
  BY <1>2
<1>4. /\ loop' \subseteq loop \cup {Len(dest) + 1}
      /\ sent' \subseteq sent \cup {Len(dest) + 1}
      /\ m_queue' = m_queue /\ dropped' = dropped
  BY DEF RouteOutput
<1>5. PacketTypes'
  BY <1>2, <1>3, <1>4 DEF TypeOK, PacketTypes
<1> QED
  BY <1>1, <1>5 DEF TypeOK, PacketTypes, SearchTypes

(* DeferredRouteOutput: the queue, and perhaps a request. *)
LEMMA DeferredType ==
    ASSUME TypeOK, NEW p \in loop, NEW k \in 0..MaxPackets, DeferredRouteOutput(p, k)
    PROVE  TypeOK'
<1>1. dest[p] \in Dsts
  BY DEF TypeOK
<1>2. SearchTypes'
  <2>1. CASE rt[dest[p]].flag # "IN_SEARCH"
    <3>1. SendRequest(dest[p], timer) /\ UNCHANGED <<ready, outside>>
      BY <2>1 DEF DeferredRouteOutput
    <3>2. timer \in SUBSET Dsts
      BY DEF TypeOK
    <3> QED
      BY <1>1, <3>1, <3>2, SendRequestTypes DEF SearchTypes, TypeOK
  <2>2. CASE rt[dest[p]].flag = "IN_SEARCH"
    BY <2>2 DEF DeferredRouteOutput, SearchTypes, TypeOK
  <2> QED
    BY <2>1, <2>2
<1>3. PacketTypes'
  BY DEF DeferredRouteOutput, Enqueue, Kept, Outdated, MostAged, PacketTypes, TypeOK
<1> QED
  BY <1>2, <1>3 DEF TypeOK, PacketTypes, SearchTypes

(* RouteRequestTimerExpire: its three outcomes keep the types. *)
LEMMA TimerType ==
    ASSUME TypeOK, NEW d \in Dsts, NEW k \in 0..MaxPackets, RouteRequestTimerExpire(d, k)
    PROVE  TypeOK'
<1>1. PacketTypes'
  BY DEF RouteRequestTimerExpire, RouteFound, SendPacketFromQueue, DropPacketWithDst,
         Kept, Outdated, For, PacketTypes, TypeOK
<1>2. SearchTypes'
  <2>1. CASE SendRequest(d, timer \ {d})
    BY <2>1, SendRequestTypes DEF RouteRequestTimerExpire, SearchTypes, TypeOK
  <2>2. CASE ~SendRequest(d, timer \ {d})
    BY <2>2, FreshRoutes DEF RouteRequestTimerExpire, SearchTypes, TypeOK
  <2> QED
    BY <2>1, <2>2
<1> QED
  BY <1>1, <1>2 DEF TypeOK, PacketTypes, SearchTypes

(* A postponed SendRequest. *)
LEMMA DelayedType ==
    ASSUME TypeOK, NEW d \in Dsts, SendDelayedRequest(d)
    PROVE  TypeOK'
<1>1. SendRequest(d, timer) /\ timer \in SUBSET Dsts
  BY DEF SendDelayedRequest, TypeOK
<1>2. ready' \in [Dsts -> Nat]
  BY DEF SendDelayedRequest, TypeOK
<1>3. UNCHANGED <<packet_vars, outside>>
  BY DEF SendDelayedRequest
<1> QED
  BY <1>1, <1>2, <1>3, SendRequestTypes DEF TypeOK, packet_vars

(* FloodStep sends a request like any other. *)
LEMMA FloodType ==
    ASSUME TypeOK, NEW d \in Dsts, FloodStep(d)
    PROVE  TypeOK'
<1>1. SendRequest(d, timer) /\ timer \in SUBSET Dsts
  BY DEF FloodStep, TypeOK
<1>2. outside' \in 0..MaxOutside
  BY ConstantsAssumption DEF FloodStep, TypeOK
<1>3. UNCHANGED <<ready, packet_vars>>
  BY DEF FloodStep
<1> QED
  BY <1>1, <1>2, <1>3, SendRequestTypes DEF TypeOK, packet_vars

(* RreqRateLimitTimerExpire. *)
LEMMA RateLimitType ==
    ASSUME TypeOK, RreqRateLimitTimerExpire
    PROVE  TypeOK'
BY ConstantsAssumption DEF RreqRateLimitTimerExpire, TypeOK, packet_vars

(* Replies, neighbours, requests and expiring entries. *)
LEMMA NetworkType ==
    ASSUME TypeOK, Network
    PROVE  TypeOK'
<1>1. CASE \E d \in Reachable, hop \in Hops, order \in Orders, k \in 0..MaxPackets :
             RecvReply(d, hop, order, k)
  <2>1. PICK d \in Reachable, hop \in Hops, order \in Orders, k \in 0..MaxPackets :
               RecvReply(d, hop, order, k)
    BY <1>1
  <2>2. PacketTypes'
    BY <2>1 DEF RecvReply, SendPacketFromQueue, Kept, Outdated, For, PacketTypes, TypeOK
  <2>3. SearchTypes'
    BY <2>1, FreshRoutes DEF RecvReply, SearchTypes, TypeOK
  <2> QED
    BY <2>2, <2>3 DEF TypeOK, PacketTypes, SearchTypes
<1>2. CASE \E d \in Reachable, vsn \in BOOLEAN : HearNeighbor(d, vsn)
  <2>1. PICK d \in Reachable, vsn \in BOOLEAN : HearNeighbor(d, vsn)
    BY <1>2
  <2>2. rt' \in [Dsts -> Entry]
    BY <2>1, FreshRoutes DEF HearNeighbor, TypeOK
  <2> QED
    BY <2>1, <2>2 DEF HearNeighbor, TypeOK, packet_vars, retry_vars
<1>3. CASE \E d \in Reachable, hop \in Hops : HearRequest(d, hop)
  <2>1. PICK d \in Reachable, hop \in Hops : HearRequest(d, hop)
    BY <1>3
  <2>2. d \in Dsts
    BY ConstantsAssumption
  <2>3. [rt[d] EXCEPT !.hop = hop, !.vsn = TRUE] \in Entry
    BY <2>2, ConstantsAssumption DEF TypeOK, Entry
  <2>4. rt' \in [Dsts -> Entry]
    <3> DEFINE new == IF rt[d].flag = "NONE" THEN Route(hop, TRUE)
                      ELSE [rt[d] EXCEPT !.hop = hop, !.vsn = TRUE]
    <3>1. new \in Entry
      BY <2>3, FreshRoutes
    <3>2. rt' = [rt EXCEPT ![d] = new]
      BY <2>1 DEF HearRequest
    <3> HIDE DEF new
    <3> QED
      BY <3>1, <3>2 DEF TypeOK
  <2>5. outside' \in 0..MaxOutside
    <3>1. outside < MaxOutside /\ outside' = outside + 1
      BY <2>1 DEF HearRequest
    <3>2. outside \in 0..MaxOutside
      BY DEF TypeOK
    <3> QED
      BY <3>1, <3>2, ConstantsAssumption
  <2>6. UNCHANGED <<retry_vars, packet_vars>>
    BY <2>1 DEF HearRequest
  <2> QED
    BY <2>4, <2>5, <2>6 DEF TypeOK, packet_vars, retry_vars
<1>4. CASE \E d \in Dsts : Invalidate(d) \/ PurgeInvalid(d)
  <2>1. PICK d \in Dsts : Invalidate(d) \/ PurgeInvalid(d)
    BY <1>4
  <2>2. [rt[d] EXCEPT !.flag = "INVALID"] \in Entry
    BY DEF TypeOK, Entry, Flags
  <2>3. rt' \in [Dsts -> Entry]
    BY <2>1, <2>2, FreshRoutes DEF Invalidate, PurgeInvalid, TypeOK
  <2> QED
    BY <2>1, <2>3 DEF Invalidate, PurgeInvalid, TypeOK, packet_vars, retry_vars
<1> QED
  BY <1>1, <1>2, <1>3, <1>4 DEF Network

(* Type correctness of RouteDiscovery. *)
THEOREM TypeCorrect == Spec => []TypeOK
<1>1. Init => TypeOK
  <2> SUFFICES ASSUME Init PROVE TypeOK
    OBVIOUS
  <2>1. SearchTypes
    <3>1. /\ rt \in [Dsts -> Entry]
          /\ delayed \in [Dsts -> Nat] /\ ready \in [Dsts -> Nat]
      BY FreshRoutes DEF Init
    <3>2. m_rreqCount \in 0..RateLimit /\ outside \in 0..MaxOutside
      BY ConstantsAssumption DEF Init
    <3>3. overrun \in BOOLEAN /\ failed \in BOOLEAN /\ timer \subseteq Dsts
      BY DEF Init
    <3>4. rrepSent \in 0..(RateLimit + 1)
      BY ConstantsAssumption DEF Init
    <3> QED
      BY <3>1, <3>2, <3>3, <3>4 DEF SearchTypes
  <2>2. dest \in Seq(Dsts) /\ Len(dest) <= MaxPackets
    BY ConstantsAssumption DEF Init
  <2>3. PacketTypes
    BY <2>2 DEF Init, PacketTypes
  <2> QED
    BY <2>1, <2>3, TypeParts
<1>2. TypeOK /\ [Next]_vars => TypeOK'
  <2> SUFFICES ASSUME TypeOK, [Next]_vars PROVE TypeOK'
    OBVIOUS
  <2>1. ASSUME NEW d \in Dsts, RouteOutput(d) PROVE TypeOK'
    BY <2>1, RouteOutputType
  <2>2. ASSUME NEW d \in Dsts, SendDelayedRequest(d) PROVE TypeOK'
    BY <2>2, DelayedType
  <2>8. ASSUME NEW d \in Dsts, FloodStep(d) PROVE TypeOK'
    BY <2>8, FloodType
  <2>3. ASSUME NEW p \in loop, NEW k \in 0..MaxPackets, DeferredRouteOutput(p, k) PROVE TypeOK'
    BY <2>3, DeferredType
  <2>4. ASSUME NEW d \in Dsts, NEW k \in 0..MaxPackets, RouteRequestTimerExpire(d, k)
        PROVE  TypeOK'
    BY <2>4, TimerType
  <2>5. CASE RreqRateLimitTimerExpire
    BY <2>5, RateLimitType
  <2>6. CASE Network
    BY <2>6, NetworkType
  <2>7. CASE UNCHANGED vars
    BY <2>7 DEF vars, search_vars, retry_vars, packet_vars, TypeOK
  <2> QED
    BY <2>1, <2>2, <2>3, <2>4, <2>5, <2>6, <2>7, <2>8 DEF Next
<1> QED
  BY <1>1, <1>2, PTL DEF Spec

----------------------------------------------------------------------------
(* The backoff of ScheduleRreqRetry.                                       *)

(* A counter beyond RreqRetries does not go unnoticed. *)
OverrunIsNoted == \A d \in Dsts : rt[d].cnt > RreqRetries => overrun

BackoffInv == OverrunIsNoted /\ BackoffComputable

(* A search at full radius has counted its attempt; only a counter far     *)
(* beyond RreqRetries can wrap to zero or outgrow the shift.               *)
LEMMA BackoffNeedsOverrun ==
    ASSUME NEW e \in Entry, NoBackoff(Searching(e))
    PROVE  e.cnt > RreqRetries \/ Searching(e).cnt > RreqRetries
<1>1. RingTtl(e) <= NetDiameter
  BY ConstantsAssumption, TtlAssumption DEF RingTtl, Entry
<1>2. RingTtl(e) \in Nat
  BY ConstantsAssumption DEF RingTtl, Entry
<1>3. RingTtl(e) = NetDiameter
  BY <1>1, <1>2, ConstantsAssumption DEF Searching, NoBackoff
<1>4. Searching(e).cnt = Incremented(e.cnt)
  BY <1>3 DEF Searching
<1>5. Incremented(e.cnt) = 0 \/ Incremented(e.cnt) > IntBits
  BY <1>4 DEF NoBackoff
<1>6. e.cnt \in 0..(CntRange - 1)
  BY DEF Entry
<1> QED
  BY <1>4, <1>5, <1>6, ConstantsAssumption DEF Incremented

(* One call of SendRequest keeps the invariant. *)
LEMMA SendRequestBackoff ==
    ASSUME TypeOK, BackoffInv, NEW d \in Dsts, NEW running, SendRequest(d, running)
    PROVE  BackoffInv'
<1>1. CASE OverLimit
  BY <1>1 DEF SendRequest, BackoffInv, OverrunIsNoted, BackoffComputable
<1>2. CASE ~OverLimit
  <2>1. /\ rt'[d] = Searching(rt[d]) /\ \A e \in Dsts \ {d} : rt'[e] = rt[e]
        /\ overrun' = (overrun \/ rt'[d].cnt > RreqRetries)
        /\ failed' = (failed \/ NoBackoff(rt'[d]))
    BY <1>2 DEF SendRequest, TypeOK
  <2>2. OverrunIsNoted'
    BY <2>1 DEF BackoffInv, OverrunIsNoted
  <2>3. NoBackoff(rt'[d]) => rt[d].cnt > RreqRetries \/ rt'[d].cnt > RreqRetries
    BY <2>1, BackoffNeedsOverrun DEF TypeOK
  <2>4. BackoffComputable'
    BY <2>1, <2>3 DEF BackoffInv, OverrunIsNoted, BackoffComputable
  <2> QED
    BY <2>2, <2>4 DEF BackoffInv
<1> QED
  BY <1>1, <1>2

(* Steps that send no request leave the counters where they are, or zero   *)
(* them. *)
LEMMA OtherStepBackoff ==
    ASSUME BackoffInv, UNCHANGED <<overrun, failed>>,
           \A d \in Dsts : rt'[d].cnt = rt[d].cnt \/ rt'[d].cnt = 0
    PROVE  BackoffInv'
BY ConstantsAssumption DEF BackoffInv, OverrunIsNoted, BackoffComputable

(* Steps of the environment are of that kind. *)
LEMMA NetworkBackoff ==
    ASSUME TypeOK, BackoffInv, Network
    PROVE  BackoffInv'
<1>1. UNCHANGED <<overrun, failed>>
  BY DEF Network, RecvReply, HearNeighbor, HearRequest, Invalidate, PurgeInvalid, retry_vars
<1>2. \A d \in Dsts : rt'[d].cnt = rt[d].cnt \/ rt'[d].cnt = 0
  <2>1. CASE \E d \in Reachable, hop \in Hops, order \in Orders, k \in 0..MaxPackets :
               RecvReply(d, hop, order, k)
    BY <2>1 DEF RecvReply, Route, TypeOK
  <2>2. CASE \E d \in Reachable, vsn \in BOOLEAN : HearNeighbor(d, vsn)
    BY <2>2 DEF HearNeighbor, Route, TypeOK
  <2>3. CASE \E d \in Reachable, hop \in Hops : HearRequest(d, hop)
    <3>1. PICK d \in Reachable, hop \in Hops : HearRequest(d, hop)
      BY <2>3
    <3>2. rt' = [rt EXCEPT ![d] = IF rt[d].flag = "NONE" THEN Route(hop, TRUE)
                                  ELSE [rt[d] EXCEPT !.hop = hop, !.vsn = TRUE]]
      BY <3>1 DEF HearRequest
    <3>3. d \in Dsts /\ rt[d] \in Entry
      BY ConstantsAssumption DEF TypeOK
    <3>4. [rt[d] EXCEPT !.hop = hop, !.vsn = TRUE].cnt = rt[d].cnt
      BY <3>3 DEF Entry
    <3>5. Route(hop, TRUE).cnt = 0
      BY DEF Route
    <3> QED
      BY <3>2, <3>3, <3>4, <3>5 DEF TypeOK
  <2>4. CASE \E d \in Dsts : Invalidate(d) \/ PurgeInvalid(d)
    <3>1. PICK d \in Dsts : Invalidate(d) \/ PurgeInvalid(d)
      BY <2>4
    <3>2. rt[d] \in Entry
      BY DEF TypeOK
    <3>3. [rt[d] EXCEPT !.flag = "INVALID"].cnt = rt[d].cnt /\ NoRoute.cnt = 0
      BY <3>2 DEF Entry, NoRoute
    <3> QED
      BY <3>1, <3>3 DEF Invalidate, PurgeInvalid, TypeOK
  <2> QED
    BY <2>1, <2>2, <2>3, <2>4 DEF Network
<1> QED
  BY <1>1, <1>2, OtherStepBackoff

(* The backoff of a retry can be computed as long as no destination has    *)
(* been tried more than RreqRetries times, for every width of the counter  *)
(* and of the shift beyond RreqRetries.                                    *)
THEOREM BackoffIsComputable == Spec => []BackoffComputable
<1>1. Init => BackoffInv
  BY ConstantsAssumption DEF Init, BackoffInv, OverrunIsNoted, BackoffComputable, NoRoute
<1>2. TypeOK /\ BackoffInv /\ [Next]_vars => BackoffInv'
  <2> SUFFICES ASSUME TypeOK, BackoffInv, [Next]_vars PROVE BackoffInv'
    OBVIOUS
  <2>1. ASSUME NEW d \in Dsts, RouteOutput(d) PROVE BackoffInv'
    BY <2>1, OtherStepBackoff DEF RouteOutput, search_vars, retry_vars
  <2>2. ASSUME NEW d \in Dsts, SendDelayedRequest(d) \/ FloodStep(d) PROVE BackoffInv'
    BY <2>2, SendRequestBackoff DEF SendDelayedRequest, FloodStep
  <2>3. ASSUME NEW p \in loop, NEW k \in 0..MaxPackets, DeferredRouteOutput(p, k)
        PROVE  BackoffInv'
    <3>1. dest[p] \in Dsts
      BY DEF TypeOK
    <3>2. SendRequest(dest[p], timer) \/ UNCHANGED <<rt, overrun, failed>>
      BY <2>3 DEF DeferredRouteOutput
    <3> QED
      BY <3>1, <3>2, SendRequestBackoff, OtherStepBackoff
  <2>4. ASSUME NEW d \in Dsts, NEW k \in 0..MaxPackets, RouteRequestTimerExpire(d, k)
        PROVE  BackoffInv'
    <3>1. \/ SendRequest(d, timer \ {d})
          \/ UNCHANGED <<overrun, failed>> /\ (rt' = rt \/ rt' = [rt EXCEPT ![d] = NoRoute])
      BY <2>4 DEF RouteRequestTimerExpire
    <3>2. NoRoute.cnt = 0
      BY DEF NoRoute
    <3> QED
      BY <3>1, <3>2, SendRequestBackoff, OtherStepBackoff DEF TypeOK
  <2>5. CASE RreqRateLimitTimerExpire
    BY <2>5, OtherStepBackoff DEF RreqRateLimitTimerExpire
  <2>6. CASE Network
    BY <2>6, NetworkBackoff
  <2>7. CASE UNCHANGED vars
    BY <2>7, OtherStepBackoff DEF vars, search_vars, retry_vars
  <2> QED
    BY <2>1, <2>2, <2>3, <2>4, <2>5, <2>6, <2>7 DEF Next
<1>3. BackoffInv => BackoffComputable
  BY DEF BackoffInv
<1> QED
  BY <1>1, <1>2, <1>3, TypeCorrect, PTL DEF Spec

----------------------------------------------------------------------------
(* Nothing waits in vain.                                                  *)

(* After SendRequest its destination is watched, and others still are: the *)
(* early return of a request over the limit leaves a postponed call.       *)
LEMMA SendRequestWatches ==
    ASSUME TypeOK, NEW d \in Dsts, NEW running \in SUBSET Dsts,
           timer \ {d} \subseteq running,
           SendRequest(d, running),
           ready' \in [Dsts -> Nat],
           \A e \in Dsts \ {d} : ready'[e] = ready[e]
    PROVE  /\ Watched(d)'
           /\ \A e \in Dsts \ {d} : Watched(e) => Watched(e)'
           /\ \A e \in Dsts \ {d} : rt'[e] = rt[e]
<1>1. CASE OverLimit
  <2>1. /\ delayed' = [delayed EXCEPT ![d] = @ + 1]
        /\ timer' = running /\ rt' = rt
    BY <1>1 DEF SendRequest, Postpone
  <2>2. delayed'[d] + ready'[d] > 0
    BY <2>1 DEF TypeOK
  <2>3. \A e \in Dsts \ {d} : delayed'[e] = delayed[e]
    BY <2>1 DEF TypeOK
  <2> QED
    BY <2>1, <2>2, <2>3 DEF Watched
<1>2. CASE ~OverLimit
  <2>1. /\ timer' = running \cup {d} /\ delayed' = delayed
        /\ rt' = [rt EXCEPT ![d] = Searching(@)]
    BY <1>2 DEF SendRequest
  <2> QED
    BY <2>1 DEF Watched, TypeOK
<1> QED
  BY <1>1, <1>2

(* A step that stops no timer and takes back no postponed request, queues  *)
(* nothing and starts no search keeps what it must. *)
LEMMA QuietStep ==
    ASSUME TypeOK, WaitingIsWatched,
           timer \subseteq timer', delayed' = delayed, ready' = ready,
           m_queue' \subseteq m_queue, \A p \in m_queue' : dest'[p] = dest[p],
           \A d \in Dsts : rt'[d].flag = "IN_SEARCH" => rt[d].flag = "IN_SEARCH"
    PROVE  WaitingIsWatched'
<1>1. \A d : Watched(d) => Watched(d)'
  BY DEF Watched
<1> QED
  BY <1>1 DEF WaitingIsWatched

(* A new packet is not queued yet. *)
LEMMA RouteOutputWatched ==
    ASSUME TypeOK, WaitingIsWatched, NEW d \in Dsts, RouteOutput(d)
    PROVE  WaitingIsWatched'
<1>1. \A p \in m_queue : dest'[p] = dest[p]
  BY DEF RouteOutput, TypeOK
<1>2. m_queue' = m_queue /\ UNCHANGED search_vars
  BY DEF RouteOutput
<1> QED
  BY <1>1, <1>2, QuietStep DEF search_vars, retry_vars

(* The packet queued finds a search going on, or starts one. *)
LEMMA DeferredWatched ==
    ASSUME TypeOK, WaitingIsWatched,
           NEW p \in loop, NEW k \in 0..MaxPackets, DeferredRouteOutput(p, k)
    PROVE  WaitingIsWatched'
<1>1. dest[p] \in Dsts /\ timer \in SUBSET Dsts /\ m_queue \subseteq 1..Len(dest)
  BY DEF TypeOK
<1>2. m_queue' \subseteq m_queue \cup {p} /\ dest' = dest /\ ready' = ready
  BY DEF DeferredRouteOutput, Enqueue, Kept, MostAged
<1>3. \A q \in m_queue : dest[q] \in Dsts
  BY <1>1 DEF TypeOK
<1>4. CASE rt[dest[p]].flag # "IN_SEARCH"
  <2>1. PICK d \in Dsts : d = dest[p]
    BY <1>1
  <2>2. SendRequest(d, timer)
    BY <1>4, <2>1 DEF DeferredRouteOutput
  <2>3. ready' \in [Dsts -> Nat] /\ \A e \in Dsts \ {d} : ready'[e] = ready[e]
    BY <1>2 DEF TypeOK
  <2>4. /\ Watched(d)'
        /\ \A e \in Dsts \ {d} : Watched(e) => Watched(e)'
        /\ \A e \in Dsts \ {d} : rt'[e] = rt[e]
    BY <1>1, <2>2, <2>3, SendRequestWatches
  <2>5. \A q \in m_queue' : dest'[q] = d \/ (q \in m_queue /\ dest'[q] = dest[q])
    BY <1>2, <2>1
  <2> QED
    BY <1>3, <2>4, <2>5 DEF WaitingIsWatched
<1>5. CASE rt[dest[p]].flag = "IN_SEARCH"
  <2>1. UNCHANGED <<rt, timer, delayed>>
    BY <1>5 DEF DeferredRouteOutput
  <2>2. \A d : Watched(d) => Watched(d)'
    BY <1>2, <2>1 DEF Watched
  <2>3. Watched(dest[p])
    BY <1>1, <1>5 DEF WaitingIsWatched
  <2> QED
    BY <1>2, <2>1, <2>2, <2>3 DEF WaitingIsWatched
<1> QED
  BY <1>4, <1>5

(* A postponed call that runs leaves its destination watched. *)
LEMMA DelayedWatched ==
    ASSUME TypeOK, WaitingIsWatched, NEW d \in Dsts, SendDelayedRequest(d)
    PROVE  WaitingIsWatched'
<1>1. SendRequest(d, timer) /\ timer \in SUBSET Dsts
  BY DEF SendDelayedRequest, TypeOK
<1>2. ready' \in [Dsts -> Nat] /\ \A e \in Dsts \ {d} : ready'[e] = ready[e]
  BY DEF SendDelayedRequest, TypeOK
<1>3. m_queue' = m_queue /\ dest' = dest
  BY DEF SendDelayedRequest, packet_vars
<1>4. \A q \in m_queue : dest[q] \in Dsts
  BY DEF TypeOK
<1>5. /\ Watched(d)'
      /\ \A e \in Dsts \ {d} : Watched(e) => Watched(e)'
      /\ \A e \in Dsts \ {d} : rt'[e] = rt[e]
  BY <1>1, <1>2, SendRequestWatches
<1> QED
  BY <1>3, <1>4, <1>5 DEF WaitingIsWatched

(* So does a request of FloodStep. *)
LEMMA FloodWatched ==
    ASSUME TypeOK, WaitingIsWatched, NEW d \in Dsts, FloodStep(d)
    PROVE  WaitingIsWatched'
<1>1. SendRequest(d, timer) /\ timer \in SUBSET Dsts
  BY DEF FloodStep, TypeOK
<1>2. ready' \in [Dsts -> Nat] /\ \A e \in Dsts \ {d} : ready'[e] = ready[e]
  BY DEF FloodStep, TypeOK
<1>3. m_queue' = m_queue /\ dest' = dest
  BY DEF FloodStep, packet_vars
<1>4. \A q \in m_queue : dest[q] \in Dsts
  BY DEF TypeOK
<1>5. /\ Watched(d)'
      /\ \A e \in Dsts \ {d} : Watched(e) => Watched(e)'
      /\ \A e \in Dsts \ {d} : rt'[e] = rt[e]
  BY <1>1, <1>2, SendRequestWatches
<1> QED
  BY <1>3, <1>4, <1>5 DEF WaitingIsWatched

(* The timer that fires is gone; either its destination has nothing left   *)
(* to wait, or a new request watches it.                                   *)
LEMMA TimerWatched ==
    ASSUME TypeOK, WaitingIsWatched, NEW d \in Dsts, NEW k \in 0..MaxPackets,
           RouteRequestTimerExpire(d, k)
    PROVE  WaitingIsWatched'
<1>1. dest' = dest /\ ready' = ready
  BY DEF RouteRequestTimerExpire
<1>2. m_queue' \subseteq m_queue
  BY DEF RouteRequestTimerExpire, RouteFound, SendPacketFromQueue, DropPacketWithDst, Kept
<1>3. CASE SendRequest(d, timer \ {d})
  <2>1. ready' \in [Dsts -> Nat] /\ \A e \in Dsts \ {d} : ready'[e] = ready[e]
    BY <1>1 DEF TypeOK
  <2>2. timer \ {d} \in SUBSET Dsts
    BY DEF TypeOK
  <2>3. /\ Watched(d)'
        /\ \A e \in Dsts \ {d} : Watched(e) => Watched(e)'
        /\ \A e \in Dsts \ {d} : rt'[e] = rt[e]
    BY <1>3, <2>1, <2>2, SendRequestWatches
  <2>4. \A q \in m_queue : dest[q] \in Dsts
    BY DEF TypeOK
  <2> QED
    BY <1>1, <1>2, <2>3, <2>4 DEF WaitingIsWatched
<1>4. CASE ~SendRequest(d, timer \ {d})
  <2>1. /\ timer' = timer \ {d} /\ delayed' = delayed
        /\ \A q \in m_queue' : dest[q] # d
        /\ rt'[d].flag # "IN_SEARCH"
        /\ \A e \in Dsts \ {d} : rt'[e] = rt[e]
    BY <1>4 DEF RouteRequestTimerExpire, RouteFound, SendPacketFromQueue,
                DropPacketWithDst, For, NoRoute, TypeOK
  <2>2. \A e \in Dsts \ {d} : Watched(e) => Watched(e)'
    BY <1>1, <2>1 DEF Watched
  <2>3. \A q \in m_queue : dest[q] \in Dsts
    BY DEF TypeOK
  <2> QED
    BY <1>1, <1>2, <2>1, <2>2, <2>3 DEF WaitingIsWatched
<1> QED
  BY <1>3, <1>4

(* Postponed calls change sides, none is lost. *)
LEMMA RateLimitWatched ==
    ASSUME TypeOK, WaitingIsWatched, RreqRateLimitTimerExpire
    PROVE  WaitingIsWatched'
<1>1. \A d \in Dsts : delayed'[d] + ready'[d] = delayed[d] + ready[d]
  BY DEF RreqRateLimitTimerExpire, TypeOK
<1>2. UNCHANGED <<rt, timer, m_queue, dest>>
  BY DEF RreqRateLimitTimerExpire, packet_vars
<1>3. \A d \in Dsts : Watched(d) => Watched(d)'
  BY <1>1, <1>2 DEF Watched
<1>4. \A q \in m_queue : dest[q] \in Dsts
  BY DEF TypeOK
<1> QED
  BY <1>2, <1>3, <1>4 DEF WaitingIsWatched

(* A reply may stop the timer, but then it empties the queue and leaves no *)
(* search.                                                                 *)
LEMMA ReplyWatched ==
    ASSUME TypeOK, WaitingIsWatched,
           NEW d \in Dsts, NEW hop \in Hops, NEW order \in Orders,
           NEW k \in 0..MaxPackets, RecvReply(d, hop, order, k)
    PROVE  WaitingIsWatched'
<1>1. /\ dest' = dest /\ delayed' = delayed /\ ready' = ready
      /\ timer \ {d} \subseteq timer'
      /\ \A q \in m_queue' : q \in m_queue /\ dest[q] # d
  BY DEF RecvReply, SendPacketFromQueue, Kept, For
<1>2. rt'[d].flag # "IN_SEARCH" /\ \A e \in Dsts \ {d} : rt'[e] = rt[e]
  BY DEF RecvReply, Route, TypeOK
<1>3. \A e \in Dsts \ {d} : Watched(e) => Watched(e)'
  BY <1>1 DEF Watched
<1>4. \A q \in m_queue : dest[q] \in Dsts
  BY DEF TypeOK
<1> QED
  BY <1>1, <1>2, <1>3, <1>4 DEF WaitingIsWatched

(* Steps of the environment start no search and stop no timer. *)
LEMMA TableStepWatched ==
    ASSUME TypeOK, WaitingIsWatched, NEW d \in Dsts,
           \/ \E vsn \in BOOLEAN : HearNeighbor(d, vsn)
           \/ \E hop \in Hops : HearRequest(d, hop)
           \/ Invalidate(d)
           \/ PurgeInvalid(d)
    PROVE  WaitingIsWatched'
<1>1. UNCHANGED <<retry_vars, packet_vars>>
  BY DEF HearNeighbor, HearRequest, Invalidate, PurgeInvalid
<1>2. \A e \in Dsts : rt'[e].flag = "IN_SEARCH" => rt[e].flag = "IN_SEARCH"
  <2>1. CASE \E vsn \in BOOLEAN : HearNeighbor(d, vsn)
    BY <2>1 DEF HearNeighbor, Route, TypeOK
  <2>2. CASE \E hop \in Hops : HearRequest(d, hop)
    <3>1. PICK hop \in Hops : HearRequest(d, hop)
      BY <2>2
    <3>2. rt' = [rt EXCEPT ![d] = IF rt[d].flag = "NONE" THEN Route(hop, TRUE)
                                  ELSE [rt[d] EXCEPT !.hop = hop, !.vsn = TRUE]]
      BY <3>1 DEF HearRequest
    <3>3. [rt[d] EXCEPT !.hop = hop, !.vsn = TRUE].flag = rt[d].flag
      BY DEF TypeOK, Entry
    <3>4. Route(hop, TRUE).flag = "VALID"
      BY DEF Route
    <3> QED
      BY <3>2, <3>3, <3>4 DEF TypeOK
  <2>3. CASE Invalidate(d)
    BY <2>3 DEF Invalidate, TypeOK, Entry
  <2>4. CASE PurgeInvalid(d)
    BY <2>4 DEF PurgeInvalid, NoRoute, TypeOK
  <2> QED
    BY <2>1, <2>2, <2>3, <2>4
<1> QED
  BY <1>1, <1>2, QuietStep DEF packet_vars, retry_vars

(* No packet and no search waits without a timer or a postponed request    *)
(* that will come back to it, in any interleaving of replies, neighbours,  *)
(* expiring entries, retries and the rate limit.                           *)
THEOREM NothingWaitsInVain == Spec => []WaitingIsWatched
<1>1. Init => WaitingIsWatched
  BY DEF Init, WaitingIsWatched, NoRoute
<1>2. TypeOK /\ WaitingIsWatched /\ [Next]_vars => WaitingIsWatched'
  <2> SUFFICES ASSUME TypeOK, WaitingIsWatched, [Next]_vars PROVE WaitingIsWatched'
    OBVIOUS
  <2>1. ASSUME NEW d \in Dsts, RouteOutput(d) PROVE WaitingIsWatched'
    BY <2>1, RouteOutputWatched
  <2>2. ASSUME NEW d \in Dsts, SendDelayedRequest(d) PROVE WaitingIsWatched'
    BY <2>2, DelayedWatched
  <2>8. ASSUME NEW d \in Dsts, FloodStep(d) PROVE WaitingIsWatched'
    BY <2>8, FloodWatched
  <2>3. ASSUME NEW p \in loop, NEW k \in 0..MaxPackets, DeferredRouteOutput(p, k)
        PROVE  WaitingIsWatched'
    BY <2>3, DeferredWatched
  <2>4. ASSUME NEW d \in Dsts, NEW k \in 0..MaxPackets, RouteRequestTimerExpire(d, k)
        PROVE  WaitingIsWatched'
    BY <2>4, TimerWatched
  <2>5. CASE RreqRateLimitTimerExpire
    BY <2>5, RateLimitWatched
  <2>6. CASE Network
    BY <2>6, ReplyWatched, TableStepWatched, ConstantsAssumption DEF Network
  <2>7. CASE UNCHANGED vars
    BY <2>7 DEF vars, search_vars, retry_vars, packet_vars, WaitingIsWatched, Watched
  <2> QED
    BY <2>1, <2>2, <2>3, <2>4, <2>5, <2>6, <2>7, <2>8 DEF Next
<1> QED
  BY <1>1, <1>2, TypeCorrect, PTL DEF Spec

----------------------------------------------------------------------------
(* Where the packets are.                                                  *)

(* A queue operation that moves X to sent and Y to dropped. *)
LEMMA QueueMoves ==
    ASSUME OneCustodian, NEW X, NEW Y,
           X \subseteq m_queue, Y \subseteq m_queue, X \cap Y = {},
           m_queue' = m_queue \ (X \cup Y),
           sent' = sent \cup X, dropped' = dropped \cup Y,
           loop' = loop, dest' = dest
    PROVE  OneCustodian'
BY DEF OneCustodian

(* The queue is a finite set of numbers. *)
LEMMA PacketsAreNumbers ==
    ASSUME TypeOK
    PROVE  m_queue \subseteq Nat /\ IsFiniteSet(m_queue)
<1> DEFINE n == Len(dest)
<1>1. n \in Nat /\ m_queue \subseteq 1..n
  BY DEF TypeOK
<1> HIDE DEF n
<1>2. IsFiniteSet(1..n)
  BY <1>1, FS_Interval
<1>3. m_queue \subseteq Nat
  BY <1>1
<1> QED
  BY <1>1, <1>2, <1>3, FS_Subset

(* A new packet has one custodian. *)
LEMMA RouteOutputCustody ==
    ASSUME TypeOK, OneCustodian, NEW d \in Dsts, RouteOutput(d)
    PROVE  OneCustodian'
<1>1. 1..Len(dest') = (1..Len(dest)) \cup {Len(dest) + 1} /\ Len(dest) + 1 \notin 1..Len(dest)
  <2>1. Len(dest') = Len(dest) + 1 /\ Len(dest) \in Nat
    BY DEF RouteOutput, TypeOK
  <2> QED
    BY <2>1
<1>2. /\ m_queue' = m_queue /\ dropped' = dropped
      /\ \/ sent' = sent \cup {Len(dest) + 1} /\ loop' = loop
         \/ loop' = loop \cup {Len(dest) + 1} /\ sent' = sent
  BY DEF RouteOutput
<1> QED
  BY <1>1, <1>2 DEF OneCustodian, TypeOK

(* Enqueue takes from the loopback, its victims are reported. *)
LEMMA DeferredCustody ==
    ASSUME TypeOK, OneCustodian, NEW p \in loop, NEW k \in 0..MaxPackets,
           DeferredRouteOutput(p, k)
    PROVE  OneCustodian'
<1> DEFINE Y == Outdated(k) \cup MostAged(Kept(k))
<1>1. Y \subseteq m_queue
  BY DEF Outdated, MostAged, Kept
<1>2. Kept(k) \ MostAged(Kept(k)) = m_queue \ Y
  BY PacketsAreNumbers DEF Outdated, MostAged, Kept
<1>3. /\ m_queue' = (m_queue \ Y) \cup {p} /\ dropped' = dropped \cup Y
      /\ loop' = loop \ {p} /\ sent' = sent /\ dest' = dest
  BY <1>2 DEF DeferredRouteOutput, Enqueue
<1> HIDE DEF Y
<1> QED
  BY <1>1, <1>3 DEF OneCustodian

(* The timer empties the queue to one side only. *)
LEMMA TimerCustody ==
    ASSUME TypeOK, OneCustodian, NEW d \in Dsts, NEW k \in 0..MaxPackets,
           RouteRequestTimerExpire(d, k)
    PROVE  OneCustodian'
<1> DEFINE F == For(d, Kept(k))
           Y == Outdated(k)
<1>1. /\ F \subseteq m_queue /\ Y \subseteq m_queue /\ F \cap Y = {}
      /\ Kept(k) \ F = m_queue \ (F \cup Y)
  BY PacketsAreNumbers DEF For, Kept, Outdated
<1>2. loop' = loop /\ dest' = dest
  BY DEF RouteRequestTimerExpire
<1>3. \/ m_queue' = Kept(k) \ F /\ sent' = sent \cup F /\ dropped' = dropped \cup Y
      \/ m_queue' = Kept(k) \ F /\ sent' = sent /\ dropped' = dropped \cup Y \cup F
      \/ UNCHANGED <<m_queue, sent, dropped>>
  BY DEF RouteRequestTimerExpire, RouteFound, SendPacketFromQueue, DropPacketWithDst
<1> HIDE DEF F, Y
<1> QED
  BY <1>1, <1>2, <1>3 DEF OneCustodian

(* A reply empties the queue to IP, outdated packets apart. *)
LEMMA ReplyCustody ==
    ASSUME TypeOK, OneCustodian, NEW d \in Dsts, NEW hop \in Hops, NEW order \in Orders,
           NEW k \in 0..MaxPackets, RecvReply(d, hop, order, k)
    PROVE  OneCustodian'
<1> DEFINE F == For(d, Kept(k))
           Y == Outdated(k)
<1>1. /\ F \subseteq m_queue /\ Y \subseteq m_queue /\ F \cap Y = {}
      /\ Kept(k) \ F = m_queue \ (F \cup Y)
  BY PacketsAreNumbers DEF For, Kept, Outdated
<1>2. /\ loop' = loop /\ dest' = dest
      /\ m_queue' = Kept(k) \ F /\ sent' = sent \cup F /\ dropped' = dropped \cup Y
  BY DEF RecvReply, SendPacketFromQueue
<1> HIDE DEF F, Y
<1> QED
  BY <1>1, <1>2, QueueMoves

(* Every packet is in exactly one place, and none is forgotten: purging,   *)
(* overflow, replies and timers take it from one custodian to the next.    *)
THEOREM NoPacketLost == Spec => []OneCustodian
<1>1. Init => OneCustodian
  BY DEF Init, OneCustodian
<1>2. TypeOK /\ OneCustodian /\ [Next]_vars => OneCustodian'
  <2> SUFFICES ASSUME TypeOK, OneCustodian, [Next]_vars PROVE OneCustodian'
    OBVIOUS
  <2>1. ASSUME NEW d \in Dsts, RouteOutput(d) PROVE OneCustodian'
    BY <2>1, RouteOutputCustody
  <2>2. ASSUME NEW p \in loop, NEW k \in 0..MaxPackets, DeferredRouteOutput(p, k)
        PROVE  OneCustodian'
    BY <2>2, DeferredCustody
  <2>3. ASSUME NEW d \in Dsts, NEW k \in 0..MaxPackets, RouteRequestTimerExpire(d, k)
        PROVE  OneCustodian'
    BY <2>3, TimerCustody
  <2>4. ASSUME NEW d \in Reachable, NEW hop \in Hops, NEW order \in Orders,
               NEW k \in 0..MaxPackets, RecvReply(d, hop, order, k)
        PROVE  OneCustodian'
    BY <2>4, ReplyCustody, ConstantsAssumption
  <2>5. CASE UNCHANGED packet_vars
    BY <2>5 DEF packet_vars, OneCustodian
  <2>6. Next => \/ \E d \in Dsts : RouteOutput(d)
                \/ \E p \in loop, k \in 0..MaxPackets : DeferredRouteOutput(p, k)
                \/ \E d \in Dsts, k \in 0..MaxPackets : RouteRequestTimerExpire(d, k)
                \/ \E d \in Reachable, hop \in Hops, order \in Orders, k \in 0..MaxPackets :
                      RecvReply(d, hop, order, k)
                \/ UNCHANGED packet_vars
    BY DEF Next, Network, SendDelayedRequest, FloodStep, RreqRateLimitTimerExpire,
           HearNeighbor, HearRequest, Invalidate, PurgeInvalid
  <2> QED
    BY <2>1, <2>2, <2>3, <2>4, <2>5, <2>6 DEF vars
<1> QED
  BY <1>1, <1>2, TypeCorrect, PTL DEF Spec

----------------------------------------------------------------------------
(* The queue never outgrows its capacity.                                  *)

(* A nonempty set of packet numbers has a most aged member. *)
LEMMA LeastPacket ==
    ASSUME NEW Q, Q \subseteq Nat, Q # {}
    PROVE  \E p \in Q : \A q \in Q : p <= q
<1>1. \E p \in Q : \A q \in Q : ~(<<q, p>> \in OpToRel(<, Nat))
  BY NatLessThanWellFounded, WFMin
<1>2. PICK p \in Q : \A q \in Q : ~(<<q, p>> \in OpToRel(<, Nat))
  BY <1>1
<1>3. \A q \in Q : ~(q < p)
  BY <1>2, Zenon DEF OpToRel
<1> QED
  BY <1>3

(* Enqueue makes room before it adds. *)
LEMMA EnqueueBound ==
    ASSUME TypeOK, QueueBounded, NEW p, NEW k \in Nat, Enqueue(p, k)
    PROVE  QueueBounded'
<1> DEFINE Q == Kept(k)
           V == MostAged(Q)
<1>1. IsFiniteSet(m_queue)
  BY PacketsAreNumbers
<1>2. Q \subseteq m_queue
  BY DEF Kept
<1>3. /\ IsFiniteSet(Q) /\ Cardinality(Q) \in Nat
      /\ Cardinality(Q) <= Cardinality(m_queue) /\ Cardinality(m_queue) \in Nat
  BY <1>1, <1>2, FS_Subset, FS_CardinalityType
<1>4. m_queue' = (Q \ V) \cup {p}
  BY DEF Enqueue
<1>5. IsFiniteSet(Q \ V) /\ Cardinality(Q \ V) \in Nat /\ Cardinality(Q \ V) <= Cardinality(Q)
  BY <1>3, FS_Subset, FS_CardinalityType
<1>6. Cardinality(m_queue') <= Cardinality(Q \ V) + 1
  <2> DEFINE R == Q \ V
  <2>1. IsFiniteSet(R) /\ Cardinality(R) \in Nat /\ m_queue' = R \cup {p}
    BY <1>4, <1>5
  <2> HIDE DEF R
  <2>2. Cardinality(R \cup {p}) = IF p \in R THEN Cardinality(R) ELSE Cardinality(R) + 1
    BY <2>1, FS_AddElement
  <2>3. Cardinality(m_queue') <= Cardinality(R) + 1
    BY <2>1, <2>2
  <2> QED
    BY <2>3 DEF R
<1>7. Cardinality(Q \ V) + 1 <= MaxLen
  <2>1. CASE Cardinality(Q) = MaxLen
    <3>1. Q # {} /\ Q \subseteq Nat
      BY <1>2, <2>1, PacketsAreNumbers, FS_EmptySet, ConstantsAssumption
    <3>2. PICK v \in Q : \A q \in Q : v <= q
      BY <3>1, LeastPacket
    <3>3. v \in V
      BY <2>1, <3>2 DEF MostAged
    <3>4. /\ IsFiniteSet(Q \ {v}) /\ Cardinality(Q \ {v}) = Cardinality(Q) - 1
      BY <1>3, <3>2, FS_RemoveElement
    <3>5. Q \ V \subseteq Q \ {v}
      BY <3>3
    <3>6. Cardinality(Q \ V) <= Cardinality(Q \ {v})
      BY <3>4, <3>5, FS_Subset
    <3> QED
      BY <1>3, <1>5, <2>1, <3>4, <3>6, ConstantsAssumption
  <2>2. CASE Cardinality(Q) # MaxLen
    BY <1>3, <1>5, <2>2, ConstantsAssumption DEF QueueBounded
  <2> QED
    BY <2>1, <2>2
<1>8. Cardinality(m_queue') \in Nat
  BY <1>4, <1>5, FS_AddElement, FS_CardinalityType
<1> QED
  BY <1>5, <1>6, <1>7, <1>8, ConstantsAssumption DEF QueueBounded

(* Whatever leaves the queue, it stays within its capacity. *)
LEMMA ShrinkingBound ==
    ASSUME TypeOK, QueueBounded, m_queue' \subseteq m_queue
    PROVE  QueueBounded'
<1>1. IsFiniteSet(m_queue)
  BY PacketsAreNumbers
<1>2. Cardinality(m_queue') <= Cardinality(m_queue) /\ IsFiniteSet(m_queue')
  BY <1>1, FS_Subset
<1>3. Cardinality(m_queue') \in Nat /\ Cardinality(m_queue) \in Nat
  BY <1>1, <1>2, FS_CardinalityType
<1> QED
  BY <1>2, <1>3, ConstantsAssumption DEF QueueBounded

(* Enqueue compares the size with the capacity for equality; the size      *)
(* never jumps over it.                                                    *)
THEOREM QueueNeverOverflows == Spec => []QueueBounded
<1>1. Init => QueueBounded
  BY FS_EmptySet, ConstantsAssumption DEF Init, QueueBounded
<1>2. TypeOK /\ QueueBounded /\ [Next]_vars => QueueBounded'
  <2> SUFFICES ASSUME TypeOK, QueueBounded, [Next]_vars PROVE QueueBounded'
    OBVIOUS
  <2>1. ASSUME NEW p \in loop, NEW k \in 0..MaxPackets, DeferredRouteOutput(p, k)
        PROVE  QueueBounded'
    BY <2>1, EnqueueBound, ConstantsAssumption DEF DeferredRouteOutput
  <2>2. [Next]_vars => \/ \E p \in loop, k \in 0..MaxPackets : DeferredRouteOutput(p, k)
                       \/ m_queue' \subseteq m_queue
    BY DEF Next, Network, RouteOutput, RouteRequestTimerExpire, RouteFound, DropPacketWithDst,
           SendPacketFromQueue, RecvReply, Kept, SendDelayedRequest, FloodStep, RreqRateLimitTimerExpire,
           HearNeighbor, HearRequest, Invalidate, PurgeInvalid, packet_vars, vars
  <2> QED
    BY <2>1, <2>2, ShrinkingBound
<1> QED
  BY <1>1, <1>2, TypeCorrect, PTL DEF Spec

=============================================================================
