---------------------------- MODULE NodeMonitor ----------------------------
(***************************************************************************)
(* What ns3/mbtr-sim.cc observes of one node: TransitControlRouting, which *)
(* counts the packets offered for forwarding and drops some of an          *)
(* attacker's, the trace sinks of the IP layer behind it, and SampleWindow,*)
(* which turns the cumulative counters into one row of behaviour.csv per   *)
(* sampling step.                                                          *)
(*                                                                         *)
(* Time is counted in ticks.  A packet that comes round again counts as a  *)
(* new one: its entry time, if it had one, was erased when it was          *)
(* forwarded.                                                              *)
(***************************************************************************)
EXTENDS Integers, Sequences, FiniteSetsExt

CONSTANTS
    Window, WindowStep,     \* g_cfg.window, g_cfg.windowStep
    SimTime, AttackStart,
    Attacker,               \* AttackActive() and IsAttackerNode of this node
    Drops,                  \* its drop probability is above zero
    CounterRange,           \* values of a uint64_t counter
    MaxPackets              \* bound: packets that reach the node's RouteInput

ASSUME MonitorAssumption ==
    /\ Window \in Nat \ {0} /\ WindowStep \in Nat \ {0}
    /\ SimTime \in Nat /\ AttackStart \in Nat
    /\ Attacker \in BOOLEAN /\ Drops \in BOOLEAN /\ (Drops => Attacker)
    /\ MaxPackets \in Nat /\ CounterRange \in Nat /\ CounterRange > MaxPackets

VARIABLES
    now,
    nextSample,             \* time of the scheduled SampleWindow, 0 for none
    c, prev,                \* g_counters and g_countersPrev of the node
    g_transitEntryTime,     \* per packet not yet forwarded, when it came in
    packets,                \* per packet, whether it is the node's own, and when it came
    fate,                   \* per packet, what became of it
    g_behaviour             \* the rows written so far

counter_vars == <<c, g_transitEntryTime, packets, fate>>
vars == <<now, nextSample, prev, g_behaviour, counter_vars>>

Counters == {"transitRx", "forwarded", "maliciousDrop", "ipDrop", "delaySum", "delaySamples"}
Zero == [k \in Counters |-> 0]
Fates == {"queued", "forwarded", "malicious", "lost", "consumed"}
None == 0
MISSING == -1

Init ==
    /\ now = 0
    /\ nextSample = Window
    /\ c = Zero /\ prev = Zero
    /\ g_transitEntryTime = <<>>
    /\ packets = <<>> /\ fate = <<>>
    /\ g_behaviour = <<>>

----------------------------------------------------------------------------
(* RouteInput of the wrapper.  Ipv4ListRouting hands it every packet that  *)
(* is not delivered locally: those in transit, the node's own packets that *)
(* AODV without a route has sent through the loopback device, and its own  *)
(* packets that a loop in the routes brings back over the air.             *)

Running == now < SimTime

AttackWindow == Drops /\ now >= AttackStart

Entered(p) == [q \in DOMAIN g_transitEntryTime \cup {p} |->
                 IF q = p THEN now ELSE g_transitEntryTime[q]]

Left(p) == [q \in DOMAIN g_transitEntryTime \ {p} |-> g_transitEntryTime[q]]

Offered == [c EXCEPT !.transitRx = @ + 1]

MaliciousDrop(k) == [k EXCEPT !.maliciousDrop = @ + 1]

IpDrop(k) == [k EXCEPT !.ipDrop = @ + 1]

UnicastForwardWrongSamples(k, entry) ==
    [k EXCEPT !.forwarded = @ + 1, !.delaySum = @ + now - entry]

(* UnicastForwardTrace: counts, and takes the delay since the entry time. *)
UnicastForward(k, entry) ==
    [k EXCEPT !.forwarded = @ + 1, !.delaySum = @ + now - entry, !.delaySamples = @ + 1]

(* A packet comes in; f is what becomes of it within the call. *)
Arrive(mine, f) ==
    /\ Running /\ Len(fate) < MaxPackets
    /\ packets' = Append(packets, [own |-> mine, at |-> now])
    /\ fate' = Append(fate, f)
    /\ UNCHANGED <<now, nextSample, prev, g_behaviour>>

(* The wrapper consumes the packet. *)
DropMaliciously(mine) ==
    /\ AttackWindow
    /\ Arrive(mine, "malicious")
    /\ c' = MaliciousDrop(Offered)
    /\ g_transitEntryTime' = Entered(Len(fate'))

(* The wrapper declines and AODV has a route ... *)
RelayInTransit ==
    /\ Arrive(FALSE, "forwarded")
    /\ c' = UnicastForward(Offered, now)
    /\ UNCHANGED g_transitEntryTime

(* ... or none, or the packet has no time to live left. *)
LoseInTransit ==
    /\ Arrive(FALSE, "lost")
    /\ c' = IpDrop(Offered)
    /\ g_transitEntryTime' = Entered(Len(fate'))

(* A packet of the node's own: AODV keeps it until it knows a route. *)
DeferOwn ==
    /\ Arrive(TRUE, "queued")
    /\ c' = Offered
    /\ g_transitEntryTime' = Entered(Len(fate'))

(* A packet of its own that comes back: AODV takes it for a duplicate and  *)
(* consumes it.  No callback is called, so that no trace fires.            *)
ConsumeOwn ==
    /\ Arrive(TRUE, "consumed")
    /\ c' = Offered
    /\ g_transitEntryTime' = Entered(Len(fate'))

Queued == {p \in DOMAIN fate : fate[p] = "queued"}

ForwardDeferred(p) ==
    /\ Running /\ p \in Queued
    /\ fate' = [fate EXCEPT ![p] = "forwarded"]
    /\ c' = UnicastForward(c, g_transitEntryTime[p])
    /\ g_transitEntryTime' = Left(p)
    /\ UNCHANGED <<now, nextSample, prev, g_behaviour, packets>>

GiveUpDeferred(p) ==
    /\ Running /\ p \in Queued
    /\ fate' = [fate EXCEPT ![p] = "lost"]
    /\ c' = IpDrop(c)
    /\ UNCHANGED <<now, nextSample, prev, g_behaviour, packets, g_transitEntryTime>>

----------------------------------------------------------------------------
(* SampleWindow.                                                           *)

is_attacker(t) == Attacker /\ t >= AttackStart

(* The difference of two unsigned counters wraps round; the delays are     *)
(* summed in a double.                                                     *)
Minus(m, n) == (m - n) % CounterRange

Delta == [k \in Counters |-> IF k = "delaySum" THEN c[k] - prev[k] ELSE Minus(c[k], prev[k])]

Row == LET d == Delta IN
    [time |-> now, transit_rx |-> d.transitRx, forwarded |-> d.forwarded,
     malicious_drop |-> d.maliciousDrop, ip_drop |-> d.ipDrop,
     delay_sum |-> d.delaySum, delay_n |-> d.delaySamples,
     drop_n |-> IF d.transitRx = 0 THEN MISSING ELSE Minus(d.transitRx, d.forwarded),
     is_attacker |-> is_attacker(now)]

NextSampleWrongBound(t) == IF t + Window < SimTime THEN t + WindowStep ELSE None

NextSample(t) == IF t + WindowStep < SimTime THEN t + WindowStep ELSE None

SnapshotWrongStale == IF g_behaviour = <<>> THEN c ELSE prev

Snapshot == c

SampleWindow ==
    /\ Running /\ now = nextSample
    /\ g_behaviour' = Append(g_behaviour, Row)
    /\ prev' = Snapshot
    /\ nextSample' = NextSample(now)
    /\ UNCHANGED <<now, counter_vars>>

(* Simulated time does not pass an event that is due. *)
Tick ==
    /\ Running /\ now # nextSample
    /\ now' = now + 1
    /\ UNCHANGED <<nextSample, prev, g_behaviour, counter_vars>>

Next ==
    \/ \E mine \in BOOLEAN : DropMaliciously(mine)
    \/ RelayInTransit \/ LoseInTransit \/ DeferOwn \/ ConsumeOwn
    \/ \E p \in Queued : ForwardDeferred(p) \/ GiveUpDeferred(p)
    \/ SampleWindow
    \/ Tick

Spec == Init /\ [][Next]_vars

----------------------------------------------------------------------------
(* Properties.                                                             *)

Number(f) == Cardinality({p \in DOMAIN fate : fate[p] = f})

(* The state of the monitor: counters, rows and histories have their types.*)
TypeOK ==
    /\ now \in 0..SimTime /\ nextSample \in {None, Window} \cup 0..SimTime
    /\ c \in [Counters -> Nat] /\ prev \in [Counters -> Nat]
    /\ fate \in Seq(Fates) /\ packets \in Seq([own : BOOLEAN, at : 0..now])
    /\ Len(packets) = Len(fate)
    /\ DOMAIN g_transitEntryTime \subseteq DOMAIN fate
    /\ \A p \in DOMAIN g_transitEntryTime : g_transitEntryTime[p] \in 0..now

(***************************************************************************)
(* A packet the wrapper has counted is forwarded, dropped by the attacker  *)
(* or dropped by IP, and then it is in exactly one other counter; or AODV  *)
(* has it, because it waits for a route or because it came back to its     *)
(* sender, and then it is in none.  What transitRx is ahead by is so what  *)
(* waits now and all that ever came back.  Each forwarded packet has one   *)
(* delay sample, and the entry times kept are those of all others.         *)
(***************************************************************************)
CountersAccount ==
    /\ c.maliciousDrop = Number("malicious") /\ c.ipDrop = Number("lost")
    /\ c.forwarded = Number("forwarded") /\ c.delaySamples = c.forwarded
    /\ c.transitRx = c.forwarded + c.maliciousDrop + c.ipDrop
                        + Cardinality(Queued) + Number("consumed")
    /\ DOMAIN g_transitEntryTime = {p \in DOMAIN fate : fate[p] # "forwarded"}

RowSum(field) ==
    MapThenSumSet(LAMBDA i : g_behaviour[i][field], DOMAIN g_behaviour)

(* The rows add up to the counters as they were at the last one:           *)
(* SampleWindow reports every event once, in one row.                      *)
RowsAddUp ==
    /\ RowSum("transit_rx") = prev.transitRx /\ RowSum("forwarded") = prev.forwarded
    /\ RowSum("malicious_drop") = prev.maliciousDrop /\ RowSum("ip_drop") = prev.ipDrop
    /\ RowSum("delay_n") = prev.delaySamples /\ RowSum("delay_sum") = prev.delaySum

(* The rows lie on the grid Window, Window + WindowStep, ..., and at every *)
(* moment none that is due is missing, so that analysis/features.py can    *)
(* join on the time of the row.                                            *)
RowsOnGrid ==
    LET n == Len(g_behaviour) IN
    /\ \A i \in 1..n : g_behaviour[i].time = Window + (i - 1) * WindowStep
    /\ LET due == Window + n * WindowStep IN now > due => due >= SimTime

----------------------------------------------------------------------------
(* What comments and documents say and the code does not do.               *)

(* "From here on the packet is transiting this node": the wrapper counts   *)
(* no packet of the node's own as offered for forwarding.                  *)
CountsTransitOnly ==
    c.transitRx = Cardinality({p \in DOMAIN packets : ~packets[p].own})

(* The drop ratio is a share of the packets received for forwarding.       *)
DropRatioIsShare ==
    \A i \in DOMAIN g_behaviour : g_behaviour[i].drop_n <= g_behaviour[i].transit_rx

(* Forwarding and drop ratio are computed independently: when packets were *)
(* lost that nobody dropped on purpose, they are not complements.          *)
RatiosNotComplements ==
    \A i \in DOMAIN g_behaviour :
        LET r == g_behaviour[i] IN
        r.transit_rx > 0 /\ r.ip_drop > 0 => r.forwarded + r.drop_n # r.transit_rx

(* The window slides: a row counts every packet of the Window before it.   *)
RowsCoverWindow ==
    \A i \in DOMAIN g_behaviour :
        LET t == g_behaviour[i].time IN
        g_behaviour[i].transit_rx >= Cardinality(
            {p \in DOMAIN packets : t - Window < packets[p].at /\ packets[p].at < t})
=============================================================================
