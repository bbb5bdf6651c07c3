------------------------- MODULE IsolationRecovery -------------------------
(***************************************************************************)
(* Isolation under AODV (mbtr-isolation.h, steps 10 and 11): the blacklist *)
(* queue discipline below one node of DataPlane.  A frame for an isolated  *)
(* next hop is discarded before it is queued; frames queued earlier still  *)
(* go out.  AODV above is told nothing: it learns of a lost neighbour only *)
(* from the MAC and from its own timers.                                   *)
(*                                                                         *)
(* queue stands for the queue discipline and the MAC queue behind it.      *)
(***************************************************************************)
EXTENDS DataPlane, Sequences

CONSTANTS
    MaxQueue,       \* "100p"
    Suspects,       \* the neighbours the schedule names
    Flows           \* the traffic: pairs of origin and destination

ASSUME RecoveryAssumption ==
    MaxQueue \in Nat \ {0} /\ Suspects \subseteq Neighbours /\ Flows \subseteq Hosts \X Hosts

VARIABLES
    m_blocked,  \* neighbours this node has isolated
    queue,      \* next hops of the frames that wait
    quiet       \* nothing is sent to this node, or through it, any more

vars == <<plane_vars, m_blocked, queue, quiet>>

Init ==
    /\ PlaneInit
    /\ m_blocked = {} /\ queue = << >> /\ quiet = FALSE

----------------------------------------------------------------------------
DoEnqueueWrongAll(x) ==
    queue' = IF Len(queue) = MaxQueue THEN queue ELSE Append(queue, x)

(* Blacklisted: dropped silently.  The internal queue is drop-tail. *)
DoEnqueue(x) ==
    queue' = IF x \in m_blocked \/ Len(queue) = MaxQueue THEN queue ELSE Append(queue, x)

OriginsOf(d) == {o \in Hosts : <<o, d>> \in Flows}

(* A packet of the node's own, and one for somebody else. *)
SendPacket(d) ==
    /\ ~quiet
    /\ RouteOutput(d)
    /\ DoEnqueue(rt[d].nextHop)
    /\ UNCHANGED <<m_blocked, quiet>>

ForwardPacket(d) ==
    /\ ~quiet
    /\ \E o \in OriginsOf(d), hw \in Arp \X Arp : Forwarding(o, d, hw)
    /\ DoEnqueue(rt[d].nextHop)
    /\ UNCHANGED <<m_blocked, quiet>>

NoRouteFor(d) ==
    /\ ~quiet
    /\ \E o \in OriginsOf(d) : NoRouteToForward(o, d)
    /\ UNCHANGED <<m_blocked, queue, quiet>>

Deliver ==
    /\ ~quiet
    /\ \E f \in Flows, hw \in Arp : DeliverLocally(f[1], hw)
    /\ UNCHANGED <<m_blocked, queue, quiet>>

(* Isolation is on the way out only: whoever is isolated is still heard. *)
Hear(x) ==
    /\ ~quiet
    /\ \E hw \in Arp : Hears(x, hw)
    /\ UNCHANGED <<m_blocked, queue, quiet>>

(* DoDequeue does not look at the blacklist.  The MAC delivers the frame, *)
(* or gives it up and tells AODV.                                         *)
Transmit ==
    /\ queue # << >>
    /\ queue' = Tail(queue)
    /\ \/ UNCHANGED plane_vars
       \/ ProcessTxError(Head(queue))
    /\ UNCHANGED <<m_blocked, quiet>>

Isolate(x) ==
    /\ m_blocked' = m_blocked \cup {x}
    /\ UNCHANGED <<plane_vars, queue, quiet>>

Release(x) ==
    /\ x \in m_blocked
    /\ m_blocked' = m_blocked \ {x}
    /\ UNCHANGED <<plane_vars, queue, quiet>>

FallSilent ==
    /\ quiet' = TRUE
    /\ UNCHANGED <<plane_vars, m_blocked, queue>>

TimerExpires == NeighbourTimerExpire /\ UNCHANGED <<m_blocked, queue, quiet>>

TimePasses == Tick /\ UNCHANGED <<m_blocked, queue, quiet>>

Next ==
    \/ \E d \in {f[2] : f \in Flows} : SendPacket(d) \/ ForwardPacket(d) \/ NoRouteFor(d)
    \/ Deliver
    \/ \E x \in Neighbours : Hear(x)
    \/ \E x \in Suspects : Isolate(x) \/ Release(x)
    \/ Transmit
    \/ FallSilent
    \/ TimerExpires \/ TimePasses

Spec == Init /\ [][Next]_vars

(* The simulator runs the events that are due and advances its clock, and  *)
(* the MAC gets its turn; nobody is obliged to send.                       *)
FairSpec == Spec /\ WF_vars(TimerExpires \/ TimePasses) /\ WF_vars(Transmit)

----------------------------------------------------------------------------
RecoveryTypeOK ==
    /\ PlaneTypeOK
    /\ m_blocked \subseteq Suspects
    /\ queue \in Seq(Hosts) /\ Len(queue) <= MaxQueue
    /\ quiet \in BOOLEAN

Waiting(x) == {k \in DOMAIN queue : queue[k] = x}

(***************************************************************************)
(* Isolation takes effect: as long as a node stays isolated, what was      *)
(* queued for it before leaves, and nothing follows, however much traffic  *)
(* AODV still routes that way.                                             *)
(***************************************************************************)
IsolatedIsCutOff ==
    \A x \in Suspects : <>[](x \in m_blocked) => <>[](Waiting(x) = {})

Usable(d) == rt[d].flag = "VALID" /\ rt[d].life >= 0

(***************************************************************************)
(* A node around which all has fallen silent forgets its neighbours and    *)
(* its routes: the timer of the neighbour list, cancelled and restarted by *)
(* every purge, keeps running until the list is empty.                     *)
(***************************************************************************)
SilenceEndsRoutes ==
    quiet ~> (DOMAIN m_nb = {} /\ \A d \in Hosts : ~Usable(d))

(***************************************************************************)
(* mbtr-isolation.h:19-21, "The link appears to fail to AODV's own         *)
(* link-failure detection, which raises RERR and triggers rediscovery      *)
(* unprompted": the route through an isolated next hop goes, or the node   *)
(* is released.                                                            *)
(***************************************************************************)
IsolationBreaksRoute ==
    \A d \in Hosts, x \in Suspects :
        (x \in m_blocked /\ Usable(d) /\ rt[d].nextHop = x)
            ~> (x \notin m_blocked \/ ~(Usable(d) /\ rt[d].nextHop = x))

=============================================================================
