---------------------------- MODULE AodvNetwork ----------------------------
(***************************************************************************)
(* The AODV messages of ns3-modules/aodvatk on several nodes: requests are *)
(* flooded, replies travel back along the reverse routes the flood left,   *)
(* errors are told to precursors, hellos keep neighbours known.            *)
(*                                                                         *)
(* Every message is one copy for one receiver and may be delivered late,   *)
(* after a message sent later, or never.  Entries expire at any moment.    *)
(* A node has one interface; an entry that never got one has the next hop  *)
(* NoHop.  Packets waiting for a route are the matter of RouteDiscovery.   *)
(***************************************************************************)
EXTENDS Integers, FiniteSets

CONSTANTS
    Nodes,
    Links,          \* pairs <<n, x>>: x is within the range of n
    NoHop,          \* the address no interface has
    Attackers,      \* nodes with EnableBlackHole and ForgeRrep
    DestinationOnly, GratuitousReply,
    TtlStart, TtlIncrement, TtlThreshold, NetDiameter,
    ForgedLead,     \* what an attacker adds to the sequence number asked for
    MaxOutside      \* bound: requests, hellos, broken links, data without a route

ASSUME NetworkAssumption ==
    /\ IsFiniteSet(Nodes) /\ NoHop \notin Nodes /\ Attackers \subseteq Nodes
    /\ Links \subseteq {l \in Nodes \X Nodes : l[1] # l[2]}
    /\ DestinationOnly \in BOOLEAN /\ GratuitousReply \in BOOLEAN
    /\ {TtlStart, TtlIncrement, TtlThreshold, NetDiameter, ForgedLead} \subseteq Nat \ {0}
    /\ MaxOutside \in Nat

VARIABLES
    rt,             \* routing tables
    m_seqNo, m_requestId,
    m_rreqIdCache,  \* the requests each node has seen
    air,            \* message copies under way
    outside         \* events of these kinds so far

own_vars == <<m_seqNo, m_requestId>>
vars == <<rt, own_vars, m_rreqIdCache, air, outside>>

Flags == {"NONE", "VALID", "INVALID", "IN_SEARCH"}

Entry == [flag : Flags, seq : Nat, vsn : BOOLEAN, hop : Nat,
          nextHop : Nodes \cup {NoHop}, precursors : SUBSET Nodes]

Route(seq, vsn, hop, nextHop) ==
    [flag |-> "VALID", seq |-> seq, vsn |-> vsn, hop |-> hop, nextHop |-> nextHop,
     precursors |-> {}]

NoRoute == [Route(0, FALSE, 0, NoHop) EXCEPT !.flag = "NONE"]

Rreq == [type : {"RREQ"}, from : Nodes, to : Nodes, origin : Nodes, dst : Nodes, id : Nat,
         oseq : Nat, dseq : Nat, known : BOOLEAN, hop : Nat, ttl : Nat]
Rrep == [type : {"RREP"}, from : Nodes, to : Nodes \cup {NoHop}, origin : Nodes, dst : Nodes,
         seq : Nat, hop : Nat, ttl : Nat, ack : BOOLEAN]
Rerr == [type : {"RERR"}, from : Nodes, to : Nodes \cup {NoHop}, dsts : SUBSET Nodes]
RrepAck == [type : {"RREP_ACK"}, from : Nodes, to : Nodes]

Init ==
    /\ rt = [n \in Nodes |-> [d \in Nodes |-> NoRoute]]
    /\ m_seqNo = [n \in Nodes |-> 0] /\ m_requestId = [n \in Nodes |-> 0]
    /\ m_rreqIdCache = [n \in Nodes |-> {}]
    /\ air = {}
    /\ outside = 0

----------------------------------------------------------------------------
(* The air.                                                                *)

(* One copy of m for every node in range of its sender. *)
Broadcast(m) == {[m EXCEPT !.to = x] : x \in {x \in Nodes : <<m.from, x>> \in Links}}

(* A send without a socket ends the program: NS_ASSERT(socket), or, in the *)
(* optimized build of setup_ns3.sh, the call through the null pointer.     *)
SocketFound == \A m \in air : m.to # NoHop

(* The handler of m changes the receiver's table to T and sends S. *)
Handled(m, T, S) ==
    /\ SocketFound
    /\ rt' = [rt EXCEPT ![m.to] = T]
    /\ air' = (air \ {m}) \cup S

(* Something other than a message happens at n. *)
Happens(n, T, S) ==
    /\ SocketFound
    /\ outside < MaxOutside
    /\ outside' = outside + 1
    /\ rt' = [rt EXCEPT ![n] = T]
    /\ air' = air \cup S

----------------------------------------------------------------------------
(* What the table operations do to the table T of one node.                *)

Known(T, d) == d \in Nodes /\ T[d].flag # "NONE"

WithPrecursor(T, d, p) ==
    IF Known(T, d) THEN [T EXCEPT ![d].precursors = @ \cup {p}] ELSE T

Via(T, x) == {d \in Nodes : Known(T, d) /\ T[d].nextHop = x}

InvalidateRoutesWithDst(T, D) ==
    [d \in Nodes |-> IF d \in D /\ T[d].flag = "VALID"
                     THEN [T[d] EXCEPT !.flag = "INVALID"] ELSE T[d]]

(* An entry already known to be a neighbour's is left as it is; any other  *)
(* is replaced, precursors and all.                                        *)
UpdateRouteToNeighbor(T, x) ==
    IF Known(T, x) /\ T[x].vsn /\ T[x].hop = 1
    THEN T
    ELSE [T EXCEPT ![x] = Route(0, FALSE, 1, x)]

----------------------------------------------------------------------------
(* Requests.                                                               *)

RingTtl(e) ==
    CASE e.flag = "NONE"      -> TtlStart
      [] e.flag = "IN_SEARCH" -> IF e.hop + TtlIncrement > TtlThreshold
                                 THEN NetDiameter ELSE e.hop + TtlIncrement
      [] OTHER                -> IF e.hop + TtlIncrement < NetDiameter
                                 THEN e.hop + TtlIncrement ELSE NetDiameter

(* The rate limit and the retry timer are in RouteDiscovery. *)
SendRequest(n, d) ==
    LET e == rt[n][d]
        rreq == [type |-> "RREQ", from |-> n, to |-> n, origin |-> n, dst |-> d,
                 id |-> m_requestId[n] + 1, oseq |-> m_seqNo[n] + 1,
                 dseq |-> IF e.vsn THEN e.seq ELSE 0, known |-> e.vsn,
                 hop |-> 0, ttl |-> RingTtl(e)]
    IN  /\ n # d
        /\ Happens(n, [rt[n] EXCEPT ![d].flag = "IN_SEARCH", ![d].hop = RingTtl(e)],
                   Broadcast(rreq))
        /\ m_seqNo' = [m_seqNo EXCEPT ![n] = @ + 1]
        /\ m_requestId' = [m_requestId EXCEPT ![n] = @ + 1]
        /\ m_rreqIdCache' = [m_rreqIdCache EXCEPT ![n] = @ \cup {<<n, rreq.id>>}]

IsDuplicateWrongNever(m) == FALSE

IsDuplicate(m) == <<m.origin, m.id>> \in m_rreqIdCache[m.to]

ReverseRouteWrongHop(T, m) ==
    LET e == T[m.origin]
    IN  [T EXCEPT ![m.origin] =
            IF ~Known(T, m.origin) THEN Route(m.oseq, TRUE, m.hop, m.from)
            ELSE [e EXCEPT !.seq = IF ~e.vsn \/ m.oseq > e.seq THEN m.oseq ELSE e.seq,
                           !.vsn = TRUE, !.nextHop = m.from, !.hop = m.hop]]

(* Reverse route: next hop and hop count always follow the new request. *)
ReverseRoute(T, m) ==
    LET e == T[m.origin]
    IN  [T EXCEPT ![m.origin] =
            IF ~Known(T, m.origin) THEN Route(m.oseq, TRUE, m.hop + 1, m.from)
            ELSE [e EXCEPT !.seq = IF ~e.vsn \/ m.oseq > e.seq THEN m.oseq ELSE e.seq,
                           !.vsn = TRUE, !.nextHop = m.from, !.hop = m.hop + 1]]

PreviousHop(T, m) ==
    [T EXCEPT ![m.from] = [@ EXCEPT !.flag = "VALID", !.vsn = FALSE, !.seq = m.oseq,
                                    !.hop = 1, !.nextHop = m.from]]

(* Table of the receiver once both routes are up to date. *)
AfterRequest(m) == PreviousHop(ReverseRoute(UpdateRouteToNeighbor(rt[m.to], m.from), m), m)

(* A request not seen before: the cache takes it, the table becomes T. *)
Accepted(m, T, S) ==
    /\ ~IsDuplicate(m)
    /\ m_rreqIdCache' = [m_rreqIdCache EXCEPT ![m.to] = @ \cup {<<m.origin, m.id>>}]
    /\ Handled(m, T, S)
    /\ UNCHANGED <<m_requestId, outside>>

RecvDuplicate(m) ==
    /\ IsDuplicate(m)
    /\ Handled(m, UpdateRouteToNeighbor(rt[m.to], m.from), {})
    /\ UNCHANGED <<own_vars, m_rreqIdCache, outside>>

(* A reply of n about dst for the origin of the route back, toOrigin. *)
Reply(n, origin, toOrigin, dst, seq, hop) ==
    [type |-> "RREP", from |-> n, to |-> toOrigin.nextHop, origin |-> origin, dst |-> dst,
     seq |-> seq, hop |-> hop, ttl |-> toOrigin.hop, ack |-> FALSE]

(* The own sequence number, which SendReply steps for the request that is  *)
(* one ahead of it.                                                        *)
ReplySeqNo(m, dseq) ==
    IF m.known /\ dseq = m_seqNo[m.to] + 1 THEN m_seqNo[m.to] + 1 ELSE m_seqNo[m.to]

SendReplyWrongSeqNo(m, T, dseq) ==
    /\ Accepted(m, T, {Reply(m.to, m.origin, T[m.origin], m.dst, dseq, 0)})
    /\ m_seqNo' = [m_seqNo EXCEPT ![m.to] = ReplySeqNo(m, dseq)]

SendReply(m, T, dseq) ==
    /\ Accepted(m, T, {Reply(m.to, m.origin, T[m.origin], m.dst, ReplySeqNo(m, dseq), 0)})
    /\ m_seqNo' = [m_seqNo EXCEPT ![m.to] = ReplySeqNo(m, dseq)]

(* The attacker answers for every destination, along the entry it happens  *)
(* to have for the origin.                                                 *)
ForgeReply(m) ==
    LET T == UpdateRouteToNeighbor(rt[m.to], m.from)
    IN  /\ m.to \in Attackers
        /\ SendReply(m, IF Known(T, m.origin) THEN T
                        ELSE [T EXCEPT ![m.origin] = Route(m.oseq, TRUE, 1, m.from)],
                     m.dseq + ForgedLead)

ReplyAsDestination(m) ==
    /\ m.to \notin Attackers /\ m.to = m.dst
    /\ SendReply(m, AfterRequest(m), m.dseq)

Relays(m) == m.to \notin Attackers /\ m.to # m.dst

LoopsBack(m) == AfterRequest(m)[m.dst].nextHop = m.from

DropLoop(m) ==
    /\ Relays(m) /\ LoopsBack(m)
    /\ Accepted(m, AfterRequest(m), {})
    /\ UNCHANGED m_seqNo

(* The entry e for the destination is at least as fresh as the request. *)
FreshEnough(e, m) == e.vsn /\ (~m.known \/ e.seq >= m.dseq)

CanAnswer(m) ==
    LET e == AfterRequest(m)[m.dst]
    IN  FreshEnough(e, m) /\ e.flag = "VALID" /\ ~DestinationOnly

(* Both routes learn who uses them.  The timer that should watch for the   *)
(* acknowledgement is a member of a local copy and never started.          *)
SendReplyByIntermediateNode(m) ==
    LET T        == AfterRequest(m)
        toDst    == T[m.dst]
        toOrigin == T[m.origin]
    IN  /\ Relays(m) /\ ~LoopsBack(m) /\ CanAnswer(m)
        /\ Accepted(m,
             WithPrecursor(WithPrecursor(T, m.dst, toOrigin.nextHop), m.origin, toDst.nextHop),
             {[Reply(m.to, m.origin, toOrigin, m.dst, toDst.seq, toDst.hop)
                 EXCEPT !.ack = (toDst.hop = 1)]}
             \cup IF GratuitousReply
                  THEN {Reply(m.to, m.dst, toDst, m.origin, toOrigin.seq, toOrigin.hop)}
                  ELSE {})
        /\ UNCHANGED m_seqNo

ForwardRequest(m) ==
    LET e == AfterRequest(m)[m.dst]
        fwd == [m EXCEPT !.from = m.to, !.hop = m.hop + 1, !.ttl = m.ttl - 1,
                         !.dseq = IF FreshEnough(e, m) THEN e.seq ELSE m.dseq,
                         !.known = m.known \/ FreshEnough(e, m)]
    IN  /\ Relays(m) /\ ~LoopsBack(m) /\ ~CanAnswer(m)
        /\ Accepted(m, AfterRequest(m), IF m.ttl < 2 THEN {} ELSE Broadcast(fwd))
        /\ UNCHANGED m_seqNo

----------------------------------------------------------------------------
(* Replies and hellos.                                                     *)

(* Circumstances (i) to (iv) of RecvReply; a destination nobody knows gets *)
(* its first entry.                                                        *)
Updates(e, m) ==
    \/ e.flag = "NONE" \/ ~e.vsn \/ m.seq > e.seq
    \/ m.seq = e.seq /\ (e.flag # "VALID" \/ m.hop + 1 < e.hop)

(* What every reply does first. *)
AfterReply(m) ==
    LET T == UpdateRouteToNeighbor(rt[m.to], m.from)
    IN  IF Updates(T[m.dst], m)
        THEN [T EXCEPT ![m.dst] = Route(m.seq, TRUE, m.hop + 1, m.from)] ELSE T

ReplyAck(m) == IF m.ack THEN {[type |-> "RREP_ACK", from |-> m.to, to |-> m.from]} ELSE {}

ReplyArrives(m, T, S) ==
    /\ m.dst # m.origin
    /\ Handled(m, T, ReplyAck(m) \cup S)
    /\ UNCHANGED <<own_vars, m_rreqIdCache, outside>>

(* At the node that asked: an entry in search is replaced in any case. *)
RecvReply(m) ==
    LET Searching == UpdateRouteToNeighbor(rt[m.to], m.from)[m.dst].flag = "IN_SEARCH"
    IN  /\ m.to = m.origin
        /\ ReplyArrives(m, IF Searching
                           THEN [AfterReply(m) EXCEPT ![m.dst] = Route(m.seq, TRUE, m.hop + 1, m.from)]
                           ELSE AfterReply(m), {})

WayBackWrongSearch(e) == e.flag # "NONE"

(* The route back can carry a reply: it exists and is not being searched. *)
WayBack(e) == e.flag \notin {"NONE", "IN_SEARCH"}

DropReply(m) ==
    /\ m.to # m.origin /\ ~WayBack(AfterReply(m)[m.origin])
    /\ ReplyArrives(m, AfterReply(m), {})

(* Precursors of a forwarded reply, in the order the code writes them; the *)
(* entry of the origin is written from a copy made before.                 *)
WithPrecursors(T, m) ==
    LET p == T[m.origin].nextHop
        q == T[m.dst].nextHop
        U == WithPrecursor(WithPrecursor(T, m.dst, p), q, p)
        V == [U EXCEPT ![m.origin] = [T[m.origin] EXCEPT !.precursors = @ \cup {q}]]
    IN  WithPrecursor(V, p, q)

ForwardReply(m) ==
    LET T == AfterReply(m)
        fwd == [m EXCEPT !.from = m.to, !.to = T[m.origin].nextHop, !.hop = m.hop + 1,
                         !.ttl = m.ttl - 1, !.ack = FALSE]
    IN  /\ m.to # m.origin /\ WayBack(T[m.origin])
        /\ ReplyArrives(m, IF T[m.dst].flag = "VALID" THEN WithPrecursors(T, m) ELSE T,
                        IF m.ttl < 2 THEN {} ELSE {fwd})

SendHello(n) ==
    /\ Happens(n, rt[n], Broadcast(
         [type |-> "RREP", from |-> n, to |-> n, origin |-> n, dst |-> n, seq |-> m_seqNo[n],
          hop |-> 0, ttl |-> 1, ack |-> FALSE]))
    /\ UNCHANGED <<own_vars, m_rreqIdCache>>

ProcessHello(m) ==
    LET T == UpdateRouteToNeighbor(rt[m.to], m.from)
    IN  /\ m.dst = m.origin
        /\ Handled(m, [T EXCEPT ![m.dst] = [Route(m.seq, TRUE, 1, m.dst)
                                             EXCEPT !.precursors = T[m.dst].precursors]], {})
        /\ UNCHANGED <<own_vars, m_rreqIdCache, outside>>

RecvReplyAck(m) ==
    /\ Handled(m, [UpdateRouteToNeighbor(rt[m.to], m.from) EXCEPT ![m.from].flag = "VALID"], {})
    /\ UNCHANGED <<own_vars, m_rreqIdCache, outside>>

----------------------------------------------------------------------------
(* Errors.                                                                 *)

(* An error about D for the precursors P: to the only one, if its route is *)
(* valid, or to everybody in range if one of several has a valid route.    *)
SendRerrMessage(n, T, P, D) ==
    LET rerr == [type |-> "RERR", from |-> n, to |-> n, dsts |-> D]
    IN  CASE Cardinality(P) = 1 -> {[rerr EXCEPT !.to = p] : p \in {p \in P : T[p].flag = "VALID"}}
          [] Cardinality(P) > 1 /\ \E p \in P : T[p].flag = "VALID" -> Broadcast(rerr)
          [] OTHER -> {}

PrecursorsOf(T, D) == UNION {T[d].precursors : d \in D}

(* The routes among those reported that go through the reporter. *)
RecvError(m) ==
    LET T == UpdateRouteToNeighbor(rt[m.to], m.from)
        D == m.dsts \cap Via(T, m.from)
    IN  /\ Handled(m, InvalidateRoutesWithDst(T, D),
                   IF D = {} THEN {} ELSE SendRerrMessage(m.to, T, PrecursorsOf(T, D), D))
        /\ UNCHANGED <<own_vars, m_rreqIdCache, outside>>

(* The neighbour list reports the link to x as failed. *)
SendRerrWhenBreaksLinkToNextHop(n, x) ==
    LET D == Via(rt[n], x) \cup {x}
    IN  /\ Known(rt[n], x)
        /\ Happens(n, InvalidateRoutesWithDst(rt[n], D),
                   SendRerrMessage(n, rt[n], PrecursorsOf(rt[n], D), D))
        /\ UNCHANGED <<own_vars, m_rreqIdCache>>

(* Data from o for d reaches n over a neighbour's route, and stops there.  *)
SendRerrWhenNoRouteToForward(n, d, o) ==
    LET rerr == [type |-> "RERR", from |-> n, to |-> n, dsts |-> {d}]
        back == rt[n][o]
    IN  /\ n \notin {d, o} /\ rt[n][d].flag # "VALID"
        /\ \E x \in Nodes : rt[x][d].flag = "VALID" /\ rt[x][d].nextHop = n
        /\ Happens(n, rt[n], IF back.flag = "VALID" THEN {[rerr EXCEPT !.to = back.nextHop]}
                             ELSE Broadcast(rerr))
        /\ UNCHANGED <<own_vars, m_rreqIdCache>>

(* Lifetimes: a valid entry becomes invalid, an invalid one is erased; the *)
(* retry timer gives up a search.                                          *)
Expire(n, d) ==
    /\ Known(rt[n], d)
    /\ SocketFound
    /\ rt' = [rt EXCEPT ![n][d] = IF @.flag = "VALID" THEN [@ EXCEPT !.flag = "INVALID"]
                                  ELSE NoRoute]
    /\ UNCHANGED <<own_vars, m_rreqIdCache, air, outside>>

----------------------------------------------------------------------------

Flying(type) == {m \in air : m.type = type /\ m.to \in Nodes}

(* A copy reaches its receiver: RecvAodv. *)
Deliver ==
    \/ \E m \in Flying("RREQ") : \/ RecvDuplicate(m) \/ ForgeReply(m) \/ ReplyAsDestination(m)
                                 \/ DropLoop(m) \/ SendReplyByIntermediateNode(m)
                                 \/ ForwardRequest(m)
    \/ \E m \in Flying("RREP") : RecvReply(m) \/ DropReply(m) \/ ForwardReply(m) \/ ProcessHello(m)
    \/ \E m \in Flying("RREP_ACK") : RecvReplyAck(m)
    \/ \E m \in Flying("RERR") : RecvError(m)

Next ==
    \/ Deliver
    \/ \E n \in Nodes : SendHello(n)
    \/ \E n, d \in Nodes : SendRequest(n, d) \/ Expire(n, d)
    \/ \E n, x \in Nodes : SendRerrWhenBreaksLinkToNextHop(n, x)
    \/ \E n, d, o \in Nodes : SendRerrWhenNoRouteToForward(n, d, o)

Spec == Init /\ [][Next]_vars

----------------------------------------------------------------------------
TypeOK ==
    /\ rt \in [Nodes -> [Nodes -> Entry]]
    /\ m_seqNo \in [Nodes -> Nat] /\ m_requestId \in [Nodes -> Nat]
    /\ m_rreqIdCache \in [Nodes -> SUBSET (Nodes \X Nat)]
    /\ air \subseteq Rreq \cup Rrep \cup Rerr \cup RrepAck
    /\ outside \in 0..MaxOutside

(* Some counter that may speak for d has reached k: d's own, or that of an *)
(* attacker, who answers for d with its own.                               *)
Reached(k, d) == \E n \in Attackers \cup {d} : k <= m_seqNo[n]

(***************************************************************************)
(* However requests, replies and hellos overtake each other, no table and  *)
(* no message holds a valid sequence number for d that d, or an attacker,  *)
(* has not reached; what a forged reply adds to the number asked for never *)
(* gets into the network.                                                  *)
(***************************************************************************)
SeqNoHasSource ==
    /\ \A n, d \in Nodes : rt[n][d].vsn => Reached(rt[n][d].seq, d)
    /\ \A m \in air : /\ m.type = "RREQ" => /\ m.oseq <= m_seqNo[m.origin]
                                            /\ m.known => Reached(m.dseq, m.dst)
                      /\ m.type = "RREP" => Reached(m.seq, m.dst)

(***************************************************************************)
(* A flood dies out: no copy of a request has travelled more hops than     *)
(* there are nodes to travel over, nor beyond its ring, and whoever sent   *)
(* it will not send it again.                                              *)
(***************************************************************************)
FloodIsBounded ==
    \A m \in air : m.type = "RREQ" =>
        /\ m.hop < Cardinality({n \in Nodes : <<m.origin, m.id>> \in m_rreqIdCache[n]})
        /\ m.hop + m.ttl <= NetDiameter
        /\ <<m.origin, m.id>> \in m_rreqIdCache[m.from]

(***************************************************************************)
(* NS_ASSERT(socket) before every unicast message of an honest node: the   *)
(* route it answers or forwards along has got an interface, even when the  *)
(* entry is one it is searching for, or one that broke meanwhile.          *)
(***************************************************************************)
HonestSocketFound == \A m \in air : m.to = NoHop => m.from \in Attackers

(***************************************************************************)
(* A hop count of one, by which UpdateRouteToNeighbor and                  *)
(* SendReplyByIntermediateNode recognise a neighbour, is that of a         *)
(* neighbour, unless an attacker claimed it.                               *)
(***************************************************************************)
OneHopIsDirect ==
    \A n \in Nodes \ Attackers, d \in Nodes :
        rt[n][d].flag \in {"VALID", "INVALID"} /\ rt[n][d].hop = 1
            => rt[n][d].nextHop \in Attackers \cup {d}

(***************************************************************************)
(* NS_ASSERT(socket) in SendReply and the other unicast senders, for every *)
(* node.                                                                   *)
(***************************************************************************)
EverySocketFound == SocketFound

(***************************************************************************)
(* RecvReply: "The existing entry is updated only in the following         *)
(* circumstances".                                                         *)
(***************************************************************************)
UpdatedOnlyAsListed ==
    [][\A m \in Flying("RREP") :
         LET e == UpdateRouteToNeighbor(rt[m.to], m.from)[m.dst]
         IN  m \notin air' /\ m.dst # m.origin /\ ~Updates(e, m)
                => rt'[m.to][m.dst] = [e EXCEPT !.precursors = rt'[m.to][m.dst].precursors]]_vars

(***************************************************************************)
(* RecvRequest: "Drop RREQ, This node RREP will make a loop": what is      *)
(* dropped is a request the node would have answered.                      *)
(***************************************************************************)
DropsOnlyItsOwnReply ==
    [][\A m \in Flying("RREQ") :
         m \notin air' /\ ~IsDuplicate(m) /\ Relays(m) /\ LoopsBack(m) => CanAnswer(m)]_vars

=============================================================================
