--------------------------- MODULE FeatureEmitter ---------------------------
(***************************************************************************)
(* manet-gen.cc: the counters every node of the AODV fork keeps, and       *)
(* EmitWindow, which writes one row of features.csv per node and window    *)
(* from the differences to the window before.                              *)
(***************************************************************************)
EXTENDS Integers, FiniteSetsExt

CONSTANTS
    nNodes, nMalicious, wormhole,
    Win,            \* length of a window
    SimTime,
    MaxEvents       \* bound: events at the nodes in a run

ASSUME FeatureAssumption ==
    /\ nNodes \in Nat \ {0} /\ nMalicious \in 0..nNodes /\ wormhole \in BOOLEAN
    /\ Win \in Nat \ {0} /\ SimTime \in Nat \ {0} /\ MaxEvents \in Nat

VARIABLES
    now, ended,
    g_ctr,      \* node -> its NodeCounters
    g_heard,    \* node -> nodes it received a frame from
    nbs,        \* node -> its neighbours (NbAddresses)
    moves,      \* node -> entries to and departures from nbs since the last row
    g_prev,     \* node -> counters at the last row
    prevNb,     \* node -> neighbours at the last row
    nextEmit,   \* when EmitWindow runs next
    rows,       \* features.csv
    events

vars == <<now, ended, g_ctr, g_heard, nbs, moves, g_prev, prevNb, nextEmit, rows, events>>

Nodes == 0..(nNodes - 1)

(* The attackers are the last nodes. *)
mal(i) == i >= nNodes - nMalicious

(* The two ends of the tunnel name each other. *)
Partner(i) ==
    IF ~wormhole \/ nMalicious < 2 THEN {}
    ELSE CASE i = nNodes - nMalicious -> {nNodes - 1}
           [] i = nNodes - 1 -> {nNodes - nMalicious}
           [] OTHER -> {}

Counters == {"fwdSeen", "fwdOk", "fwdDrop", "rreqRecv", "rrepSent", "noRoute"}

Init ==
    /\ now = 0 /\ ended = FALSE /\ events = 0
    /\ g_ctr = [i \in Nodes |-> [c \in Counters |-> 0]]
    /\ g_prev = g_ctr
    /\ g_heard = [i \in Nodes |-> {}] /\ nbs = g_heard /\ prevNb = g_heard
    /\ moves = [i \in Nodes |-> 0]
    /\ nextEmit = Win /\ rows = {}

----------------------------------------------------------------------------
(* At the nodes.                                                           *)

Event(i) ==
    /\ ~ended /\ events < MaxEvents /\ events' = events + 1
    /\ UNCHANGED <<now, ended, g_prev, prevNb, nextEmit, rows>>

Count(i, cs) ==
    /\ g_ctr' = [g_ctr EXCEPT ![i] = [c \in Counters |-> @[c] + (IF c \in cs THEN 1 ELSE 0)]]
    /\ UNCHANGED <<g_heard, nbs, moves>>

(* A packet to forward: an attacker may drop it before it looks for the    *)
(* route; else it leaves along the route, or there is none.                *)
Forwarding(i) ==
    \/ mal(i) /\ Count(i, {"fwdSeen", "fwdDrop"})
    \/ Count(i, {"fwdSeen", "fwdOk"})
    \/ Count(i, {"fwdSeen", "noRoute"})

(* Every request received counts, before duplicates are told apart, and    *)
(* every call of SendRequest, before the rate limit.                       *)
RecvRequest(i) == Count(i, {"rreqRecv"})
SendRequest(i) == Count(i, {"rrepSent"})

SnifferRx(i) ==
    \E j \in Nodes \ ({i} \cup g_heard[i]) :
        /\ g_heard' = [g_heard EXCEPT ![i] = @ \cup {j}]
        /\ UNCHANGED <<g_ctr, nbs, moves>>

(* A node becomes a neighbour by a message received from it, over the air  *)
(* or through the tunnel, and may stop being one at any time.              *)
NeighboursChange(i) ==
    /\ \/ \E j \in (g_heard[i] \cup Partner(i)) \ nbs[i] :
            nbs' = [nbs EXCEPT ![i] = @ \cup {j}]
       \/ \E j \in nbs[i] : nbs' = [nbs EXCEPT ![i] = @ \ {j}]
    /\ moves' = [moves EXCEPT ![i] = @ + 1]
    /\ UNCHANGED <<g_ctr, g_heard>>

----------------------------------------------------------------------------
(* EmitWindow.                                                             *)

(* What left, of what left or was dropped, in percent. *)
Ratio(d) ==
    LET den == d["fwdOk"] + d["fwdDrop"]
    IN  IF den = 0 THEN 100 ELSE (100 * d["fwdOk"]) \div den

Row(i) ==
    LET d == [c \in Counters |-> g_ctr[i][c] - g_prev[i][c]]
    IN  [time_s |-> now, node_id |-> i, d |-> d, fwd_ratio |-> Ratio(d),
         nb_no_rssi |-> Cardinality(nbs[i] \ g_heard[i]),
         nb_churn |-> Cardinality((nbs[i] \ prevNb[i]) \cup (prevNb[i] \ nbs[i])),
         is_malicious |-> mal(i)]

SnapshotWrongPartial ==
    /\ g_prev' = [i \in Nodes |-> [g_ctr[i] EXCEPT !["noRoute"] = g_prev[i]["noRoute"]]]
    /\ prevNb' = nbs /\ UNCHANGED g_heard

SnapshotWrongNeighbours == g_prev' = g_ctr /\ UNCHANGED <<prevNb, g_heard>>

SnapshotWrongHeard == g_prev' = g_ctr /\ prevNb' = nbs /\ g_heard' = [i \in Nodes |-> {}]

(* Counters and neighbours are those of the window, frames those of the run. *)
Snapshot == g_prev' = g_ctr /\ prevNb' = nbs /\ UNCHANGED g_heard

(* Rows for all nodes at one instant. *)
EmitWindow ==
    /\ ~ended /\ now = nextEmit
    /\ rows' = rows \cup {Row(i) : i \in Nodes}
    /\ Snapshot /\ nextEmit' = now + Win
    /\ moves' = [i \in Nodes |-> 0]
    /\ UNCHANGED <<now, ended, g_ctr, nbs, events>>

(* Of two events at one instant the one scheduled first runs first: the    *)
(* first EmitWindow was scheduled before the stop, every later one after.  *)
EmitsBeforeStop == nextEmit = SimTime /\ rows = {}

Stop ==
    /\ ~ended /\ now = SimTime /\ ~EmitsBeforeStop
    /\ ended' = TRUE
    /\ UNCHANGED <<now, g_ctr, g_heard, nbs, moves, g_prev, prevNb, nextEmit, rows, events>>

Tick ==
    /\ ~ended /\ now < SimTime /\ now < nextEmit
    /\ now' = now + 1
    /\ UNCHANGED <<ended, g_ctr, g_heard, nbs, moves, g_prev, prevNb, nextEmit, rows, events>>

Next ==
    \/ \E i \in Nodes :
        /\ Event(i)
        /\ Forwarding(i) \/ RecvRequest(i) \/ SendRequest(i) \/ SnifferRx(i) \/ NeighboursChange(i)
    \/ EmitWindow
    \/ Stop
    \/ Tick

Spec == Init /\ [][Next]_vars

----------------------------------------------------------------------------
(***************************************************************************)
(* An honest node never looks like an attacker: its forwarding ratio is 1  *)
(* however many packets it has no route for ("Ratio excludes packets that  *)
(* could not be forwarded for lack of a route"), and every neighbour it    *)
(* has was heard, however long ago ("non-zero only for tunnel endpoints"). *)
(***************************************************************************)
HonestLooksHonest ==
    \A r \in rows : ~r.is_malicious => r.fwd_ratio = 100 /\ r.nb_no_rssi = 0

(* What the rows of a node in R say of a counter, taken together. *)
Reported(R, i, c) == MapThenSumSet(LAMBDA r : r.d[c], {r \in R : r.node_id = i})

NewRowsAddUp ==
    rows' # rows =>
        /\ \A i \in Nodes, c \in Counters : Reported(rows', i, c) = g_ctr[i][c]
        /\ \A r \in rows' \ rows :
              r.d["fwdSeen"] = r.d["fwdOk"] + r.d["fwdDrop"] + r.d["noRoute"]

(***************************************************************************)
(* No event is lost between two rows or counted in both: whenever rows are *)
(* written, all rows of a node so far add up to its counters; and in each  *)
(* row every packet to forward left, was dropped, or had no route.         *)
(***************************************************************************)
RowsAddUp == [][NewRowsAddUp]_vars

NewChurnIsReal == \A r \in rows' \ rows : r.nb_churn <= moves[r.node_id]

(* nb_churn counts "neighbours entering or leaving the set since the last  *)
(* window": never more than really did.                                    *)
ChurnIsReal == [][NewChurnIsReal]_vars

=============================================================================
