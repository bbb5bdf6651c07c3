----------------------------- MODULE DataPlane -----------------------------
(***************************************************************************)
(* What one AODV node does with data packets, and how it notices that a    *)
(* neighbour has gone (ns3-modules/aodvatk: RoutingProtocol, RoutingTable, *)
(* Neighbors).  Using a route prolongs it; a neighbour whose time runs out *)
(* in the neighbour list, or to which the MAC cannot send, takes every     *)
(* route through it along.                                                 *)
(*                                                                         *)
(* Times are what remains of them, in ticks, so that a node may run for    *)
(* ever.  Searches of the node itself, sequence numbers and the messages   *)
(* it sends are in RouteDiscovery and AodvNetwork.  What becomes of a      *)
(* forwarded packet is left to the modules that extend this one.           *)
(***************************************************************************)
EXTENDS Integers, FiniteSets

CONSTANTS
    Neighbours,         \* the nodes in range
    Remote,             \* the nodes beyond them
    SpeaksOf,           \* the hosts a neighbour may have news of: the topology
    Arp,                \* outcomes of a look into the ARP cache
    NoHop,              \* next hop of the entry a failed lookup leaves
    None,               \* a timer that does not run
    EnableHello,
    HelloInterval,      \* the delay of m_ntimer, too
    NeighbourLife,      \* AllowedHelloLoss * HelloInterval
    ActiveRouteTimeout,
    ReverseLife,        \* MinimalLifetime of a reverse route
    ReplyLife,          \* lifetime in a reply
    DeletePeriod        \* m_badLinkLifetime

Hosts == Neighbours \cup Remote

ASSUME DataPlaneAssumption ==
    /\ IsFiniteSet(Hosts) /\ Neighbours \cap Remote = {}
    /\ SpeaksOf \in [Neighbours -> SUBSET Hosts] /\ Arp \subseteq BOOLEAN
    /\ NoHop \notin Hosts /\ None \notin Int
    /\ EnableHello \in BOOLEAN
    /\ HelloInterval \in Nat \ {0} /\ NeighbourLife \in Nat
    /\ ActiveRouteTimeout \in Nat /\ ReverseLife \in Nat
    /\ ReplyLife \in Nat /\ DeletePeriod \in Nat

VARIABLES
    rt,         \* routing table
    m_nb,       \* neighbour list
    m_ntimer,   \* time to the next Purge of the list
    used,       \* routes the node forwarded along, and has neither lost since
                \* nor led through another next hop
    adrift      \* those of them the code itself lets go: see BecomesUsing, CutOff

plane_vars == <<rt, m_nb, m_ntimer, used, adrift>>

Later(a, b) == IF a > b THEN a ELSE b

Longest == Later(Later(ActiveRouteTimeout, NeighbourLife),
                 Later(Later(ReverseLife, ReplyLife), DeletePeriod))

(* A lifetime of -1 is over, however long ago; so is LongOver in the list. *)
LongOver == 0 - HelloInterval - 1

Entry == [flag : {"NONE", "VALID", "INVALID"}, life : -1..Longest,
          nextHop : Hosts \cup {NoHop}, vsn : BOOLEAN]

NoRoute == [flag |-> "NONE", life |-> -1, nextHop |-> NoHop, vsn |-> FALSE]

Route(life, nextHop, vsn) ==
    [flag |-> "VALID", life |-> life, nextHop |-> nextHop, vsn |-> vsn]

PlaneInit ==
    /\ rt = [h \in Hosts |-> NoRoute]
    /\ m_nb = << >>
    /\ m_ntimer = IF EnableHello THEN HelloInterval ELSE None
    /\ used = {} /\ adrift = {}

----------------------------------------------------------------------------
(* The routing table T.                                                    *)

(* Every lookup purges first. *)
Purged(T) ==
    [h \in Hosts |-> IF T[h].life >= 0 THEN T[h]
                     ELSE IF T[h].flag = "VALID"
                          THEN [T[h] EXCEPT !.flag = "INVALID", !.life = DeletePeriod]
                          ELSE NoRoute]

Known(T, h) == h \in Hosts /\ T[h].flag # "NONE"

Via(T, x) == {h \in Hosts : Known(T, h) /\ T[h].nextHop = x}

InvalidateRoutesWithDst(T, D) ==
    [h \in Hosts |-> IF h \in D /\ T[h].flag = "VALID"
                     THEN [T[h] EXCEPT !.flag = "INVALID", !.life = DeletePeriod] ELSE T[h]]

UpdateRouteLifeTime(T, h) ==
    IF h \in Hosts /\ T[h].flag = "VALID"
    THEN [T EXCEPT ![h].life = Later(ActiveRouteTimeout, @)] ELSE T

(* An entry that already is a neighbour's, with a valid sequence number,   *)
(* stays as it is: the lifetime that is set is that of a copy, which is    *)
(* never written back.  Any other entry is replaced.                       *)
UpdateRouteToNeighbor(T, x) ==
    IF Known(T, x) /\ T[x].vsn /\ T[x].nextHop = x THEN T
    ELSE [T EXCEPT ![x] = Route(Later(ActiveRouteTimeout, @.life), x, FALSE)]

(* The neighbours in C are lost.  A neighbour without an entry of its own  *)
(* takes nothing along: SendRerrWhenBreaksLinkToNextHop returns early.     *)
SendRerrWhenBreaksLinkToNextHop(T, C) ==
    InvalidateRoutesWithDst(T, UNION {{x} \cup Via(T, x) : x \in {x \in C : Known(T, x)}})

----------------------------------------------------------------------------
(* The neighbour list.  A step is a value s = [rt, nb, timer] that the     *)
(* operations of the list turn into the next.                              *)

Now == [rt |-> Purged(rt), nb |-> m_nb, timer |-> m_ntimer]

Without(N, C) == [x \in DOMAIN N \ C |-> N[x]]

TimedOut(N) == {x \in DOMAIN N : N[x].life < 0}

PurgeWrongOnce(s, closed) ==
    LET C == TimedOut(s.nb) \cup closed
    IN  IF DOMAIN s.nb = {} THEN [s EXCEPT !.timer = IF @ = 0 THEN None ELSE @]
        ELSE [rt |-> SendRerrWhenBreaksLinkToNextHop(s.rt, C),
              nb |-> Without(s.nb, C),
              timer |-> IF s.timer = 0 THEN None ELSE HelloInterval]

(* Purge: what has timed out or was closed is reported, then erased.  An   *)
(* empty list leaves a timer that has fired as it is: stopped.             *)
Purge(s, closed) ==
    LET C == TimedOut(s.nb) \cup closed
    IN  IF DOMAIN s.nb = {} THEN [s EXCEPT !.timer = IF @ = 0 THEN None ELSE @]
        ELSE [rt |-> SendRerrWhenBreaksLinkToNextHop(s.rt, C),
              nb |-> Without(s.nb, C), timer |-> HelloInterval]

UpdateWrongUnwatched(s, x, life, hw) ==
    IF x \in DOMAIN s.nb
    THEN [s EXCEPT !.nb[x] = [life |-> Later(life, @.life), hw |-> @.hw \/ hw]]
    ELSE [s EXCEPT !.nb = [y \in DOMAIN s.nb \cup {x} |->
                             IF y = x THEN [life |-> life, hw |-> hw] ELSE s.nb[y]]]

(* A known neighbour stays longer, even one that has timed out and was not *)
(* purged yet; a new one is added, and the list purged.  hw is the outcome *)
(* of looking for its hardware address in the ARP cache.                   *)
Update(s, x, life, hw) ==
    LET found == hw /\ x # NoHop
        N == [y \in DOMAIN s.nb \cup {x} |->
                IF y = x THEN [life |-> life, hw |-> found] ELSE s.nb[y]]
    IN  IF x \in DOMAIN s.nb
        THEN [s EXCEPT !.nb[x] = [life |-> Later(life, @.life), hw |-> @.hw \/ found]]
        ELSE Purge([s EXCEPT !.nb = N], {})

Changed(s, T) == [s EXCEPT !.rt = T]

(* The node ends up in s; it forwarded along the routes U, and lost those  *)
(* in C by doing so.  A route through a neighbour that has no entry of its *)
(* own is adrift: the loss of that neighbour will not break it.            *)
BecomesUsing(s, U, C) ==
    LET kept == {h \in used : s.rt[h].flag = "VALID" /\ s.rt[h].nextHop = rt[h].nextHop}
    IN  /\ rt' = s.rt /\ m_nb' = s.nb /\ m_ntimer' = s.timer
        /\ used' = U \cup kept
        /\ adrift' = C \cup ((adrift \cap kept) \ U)
                        \cup {h \in U \cup kept : ~Known(s.rt, s.rt[h].nextHop)}

Becomes(s) == BecomesUsing(s, {}, {})

----------------------------------------------------------------------------
(* Data packets.                                                           *)

(* A packet of the node's own uses a route: RouteOutput. *)
RouteOutput(d) ==
    LET x == rt[d].nextHop
    IN  /\ Now.rt[d].flag = "VALID"
        /\ Becomes(Changed(Now, UpdateRouteLifeTime(UpdateRouteLifeTime(Now.rt, d), x)))

(* A packet from o is for this node. *)
DeliverLocally(o, hw) ==
    LET T == UpdateRouteLifeTime(Now.rt, o)
        x == T[o].nextHop
    IN  Becomes(IF T[o].flag # "VALID" THEN Changed(Now, T)
                ELSE Update(Changed(Now, UpdateRouteLifeTime(T, x)), x, ActiveRouteTimeout, hw))

CanForward(d) == Now.rt[d].flag = "VALID"

ForwardedWrongOrder(o, d, hw) ==
    LET T == Now.rt
        x == T[d].nextHop
        y == T[o].nextHop
        R == UpdateRouteLifeTime(UpdateRouteLifeTime(UpdateRouteLifeTime(
                 UpdateRouteLifeTime(T, o), d), x), y)
    IN  Update(Update(Changed(Now, R), y, ActiveRouteTimeout, hw[2]), x, ActiveRouteTimeout, hw[1])

(* Forwarding a packet from o to d prolongs four entries and puts both     *)
(* neighbours on the list: the next hop, and the one on the way back, even *)
(* where there is none.                                                    *)
Forwarded(o, d, hw) ==
    LET T == Now.rt
        x == T[d].nextHop
        y == T[o].nextHop
        R == UpdateRouteLifeTime(UpdateRouteLifeTime(UpdateRouteLifeTime(
                 UpdateRouteLifeTime(T, o), d), x), y)
    IN  Update(Update(Changed(Now, R), x, ActiveRouteTimeout, hw[1]), y, ActiveRouteTimeout, hw[2])

(* Where d itself was a neighbour that timed out and the route now leads   *)
(* through another, the purge that a new neighbour sets off on the way     *)
(* reports d as lost, and invalidates the route the packet takes.          *)
CutOff(o, d) ==
    {h \in {d} : /\ d \in TimedOut(m_nb) /\ Now.rt[d].nextHop # d
                 /\ ~({Now.rt[d].nextHop, Now.rt[o].nextHop} \subseteq DOMAIN m_nb)}

Forwarding(o, d, hw) ==
    /\ o # d /\ CanForward(d)
    /\ BecomesUsing(Forwarded(o, d, hw), {d}, CutOff(o, d))

(* A packet that cannot be forwarded only costs a lookup, and an RERR. *)
NoRouteToForward(o, d) ==
    /\ o # d /\ ~CanForward(d)
    /\ Becomes(Now)

----------------------------------------------------------------------------
(* What neighbour x lets the node know.                                    *)

Heard(x) == Changed(Now, UpdateRouteToNeighbor(Now.rt, x))

(* A request of origin h that was not seen before. *)
RecvRequest(x, h, hw) ==
    LET T == Heard(x).rt
        ToOrigin == IF Known(T, h)
                    THEN [T[h] EXCEPT !.life = Later(ReverseLife, @), !.nextHop = x, !.vsn = TRUE]
                    ELSE Route(ReverseLife, x, TRUE)
        R == [T EXCEPT ![h] = ToOrigin]
    IN  Becomes(Update(Changed(Now, [R EXCEPT ![x] = Route(ActiveRouteTimeout, x, FALSE)]),
                       x, NeighbourLife, hw))

(* A hello; the entry keeps the longer lifetime. *)
ProcessHello(x, hw) ==
    LET T == Heard(x).rt
        s == Changed(Now, [T EXCEPT ![x] = Route(Later(NeighbourLife, @.life), x, TRUE)])
    IN  Becomes(IF EnableHello THEN Update(s, x, NeighbourLife, hw) ELSE s)

(* A reply for origin o about h.  Without a valid sequence number it always *)
(* updates the route, otherwise as the numbers tell.  The entry towards an  *)
(* origin other than this node lives longer, valid or not.                  *)
RecvReply(x, h, o, news) ==
    LET T == Heard(x).rt
        R == IF news THEN [T EXCEPT ![h] = Route(ReplyLife, x, TRUE)] ELSE T
    IN  /\ h # o
        /\ ~news => Known(T, h) /\ T[h].vsn
        /\ Becomes(Changed(Now, IF Known(R, o)
                                THEN [R EXCEPT ![o].life = Later(ActiveRouteTimeout, @)]
                                ELSE R))

(* An acknowledgement makes the entry of its sender valid again. *)
RecvReplyAck(x) ==
    Becomes(Changed(Now, [Heard(x).rt EXCEPT ![x].flag = "VALID"]))

(* Anything else: a request that was seen before or is dropped. *)
RecvOther(x) == Becomes(Heard(x))

RecvError(x, D) ==
    LET T == Heard(x).rt
    IN  Becomes(Changed(Now, InvalidateRoutesWithDst(T, D \cap Via(T, x))))

Hears(x, hw) ==
    \/ \E h \in SpeaksOf[x] : RecvRequest(x, h, hw) \/ RecvError(x, {h})
    \/ \E h \in SpeaksOf[x], o \in Hosts \cup {NoHop}, news \in BOOLEAN : RecvReply(x, h, o, news)
    \/ ProcessHello(x, hw)
    \/ RecvReplyAck(x)
    \/ RecvOther(x)

----------------------------------------------------------------------------
(* The MAC gives up a frame for x: NotifyTxError, ProcessTxError. *)
ProcessTxError(x) ==
    Becomes(Purge(Now, {y \in DOMAIN m_nb \cap {x} : m_nb[y].hw}))

NeighbourTimerExpire ==
    /\ m_ntimer = 0
    /\ Becomes(Purge(Now, {}))

(* Time passes over no event that is due. *)
Tick ==
    /\ m_ntimer # 0
    /\ rt' = [h \in Hosts |-> [rt[h] EXCEPT !.life = Later(@ - 1, -1)]]
    /\ m_nb' = [x \in DOMAIN m_nb |->
                  [m_nb[x] EXCEPT !.life = Later(@ - 1, LongOver)]]
    /\ m_ntimer' = IF m_ntimer = None THEN None ELSE m_ntimer - 1
    /\ UNCHANGED <<used, adrift>>

----------------------------------------------------------------------------
PlaneTypeOK ==
    /\ rt \in [Hosts -> Entry]
    /\ DOMAIN m_nb \subseteq Neighbours \cup {NoHop}
    (* hw: the hardware address is known. *)
    /\ \A x \in DOMAIN m_nb : m_nb[x] \in [life : (0 - HelloInterval)..Longest, hw : BOOLEAN]
    /\ m_ntimer \in {None} \cup 0..HelloInterval
    /\ used \subseteq Hosts /\ adrift \subseteq used

(***************************************************************************)
(* Nobody is a neighbour for ever: as long as the list is not empty its    *)
(* timer runs, and whoever has timed out goes when it fires.  Every path   *)
(* through Purge restarts the timer but the one of an empty list, and the  *)
(* first neighbour of an empty list must start it again.                   *)
(***************************************************************************)
NeighboursWatched ==
    \A x \in DOMAIN m_nb : m_ntimer # None /\ m_nb[x].life >= m_ntimer - HelloInterval

(***************************************************************************)
(* A route that carries the packets of others is watched: it is valid when *)
(* the packet is handed to its next hop, the purge that a new neighbour    *)
(* sets off within Forwarding included, and from then on its next hop is   *)
(* on the neighbour list, where a timeout or a failed transmission breaks  *)
(* it, however requests, replies, errors and purges change list and table. *)
(* Only two mistakes of the code take a route out of that care, those of   *)
(* adrift: its next hop has lost its own entry, or the purge within        *)
(* Forwarding cuts off the destination, which was a neighbour before.      *)
(***************************************************************************)
UsedRoutesWatched ==
    \A h \in used : h \in adrift \/ (rt[h].flag = "VALID" /\ rt[h].nextHop \in DOMAIN m_nb)

(***************************************************************************)
(* What a reader of Forwarding expects, and the code does not do: using a  *)
(* route to forward a packet never costs the node that route.              *)
(***************************************************************************)
ForwardingKeepsRoute == \A h \in used : rt[h].flag = "VALID"

(***************************************************************************)
(* SendRerrWhenBreaksLinkToNextHop is there to break the routes through a  *)
(* neighbour that is lost: no route in use is without somebody to break it.*)
(***************************************************************************)
NoneAdrift == \A h \in used : Known(rt, rt[h].nextHop)

=============================================================================
