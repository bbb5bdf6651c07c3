-------------------------- MODULE IsolatedNetwork --------------------------
(***************************************************************************)
(* AodvNetwork under isolation (mbtr-isolation.h, observer "all"): from    *)
(* then on no node but the isolated one itself sends it a unicast frame.   *)
(* The isolated node still hears every broadcast and sends what it likes.  *)
(***************************************************************************)
EXTENDS AodvNetwork

VARIABLES
    isolated,   \* the targets isolated so far
    stopped     \* copies discarded by the queue discipline of their sender

network_vars == <<vars, isolated, stopped>>

IsolationInit == Init /\ isolated = {} /\ stopped = {}

(* A unicast frame for an isolated node.  Errors go both ways, unicast and *)
(* broadcast, and are left alone here.                                     *)
Blacklisted(m) ==
    /\ m.to \in isolated
    /\ m.type = "RREP_ACK" \/ (m.type = "RREP" /\ m.dst # m.origin)

(* What AODV does; DoEnqueue discards the new frames that are blacklisted. *)
Protocol ==
    /\ Next
    /\ (air \ air') \cap stopped = {}
    /\ stopped' = stopped \cup {m \in air' \ air : Blacklisted(m)}
    /\ UNCHANGED isolated

ApplyIsolationEvent(x) ==
    /\ x \notin isolated
    /\ isolated' = isolated \cup {x}
    /\ UNCHANGED <<vars, stopped>>

IsolationNext == Protocol \/ \E x \in Nodes : ApplyIsolationEvent(x)

IsolationSpec == IsolationInit /\ [][IsolationNext]_network_vars

(***************************************************************************)
(* mbtr-isolation.h:15-16, "Unicast AODV control traffic to it stops too,  *)
(* so it can no longer answer into a route": a request that reaches an     *)
(* isolated node is not answered with a route to somebody else.            *)
(***************************************************************************)
IsolatedCannotAnswer ==
    [][\A r \in air \ air', m \in air' \ air :
         r.type = "RREQ" /\ r.to \in isolated /\ m.type = "RREP"
            => m.dst = m.from]_network_vars

=============================================================================
