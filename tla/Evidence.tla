------------------------------ MODULE Evidence ------------------------------
(***************************************************************************)
(* From the logs of a run to the evidence table of one target:             *)
(* analysis/features.py cuts the beacons each observer heard from it into  *)
(* overlapping windows and joins them, by time, with the target's rows of  *)
(* behaviour.csv, which the node monitor wrote.                            *)
(*                                                                         *)
(* Beacons are heard at ticks; residuals and signal strengths are left     *)
(* out, only how many samples a window has is kept.                        *)
(***************************************************************************)
EXTENDS NodeMonitor

CONSTANTS Observers,
          MaxBeacons            \* bound: beacons heard

ASSUME EvidenceAssumption == WindowStep <= Window /\ MaxBeacons \in Nat

VARIABLES
    beacon_rx,                  \* beacons heard: who and when
    built, evidence             \* build_evidence has run; its table

table_vars == <<built, evidence>>
evars == <<vars, beacon_rx, table_vars>>

nan == "nan"

Reception == [observer : Observers, at : 0..SimTime]

EvidenceRow == [time : Nat, observer : Observers, residual_n : Nat, transit_rx : Nat,
                fwd_ratio : {nan} \cup (Nat \X Nat), is_attacker : BOOLEAN]

EvidenceInit == Init /\ beacon_rx = {} /\ built = FALSE /\ evidence = {}

MonitorStep == Next /\ ~built /\ UNCHANGED <<beacon_rx, table_vars>>

(* HandleRead logs a beacon of the target; it never hears itself. *)
HandleRead(o) ==
    LET r == [observer |-> o, at |-> now] IN
    /\ Running /\ now > 0 /\ r \notin beacon_rx
    /\ Cardinality(beacon_rx) < MaxBeacons
    /\ beacon_rx' = beacon_rx \cup {r}
    /\ UNCHANGED <<vars, table_vars>>

----------------------------------------------------------------------------
(* window_localization().                                                  *)

Heard == {r.at : r \in beacon_rx}

GridWrongEnd ==
    {t \in {Window + k * WindowStep : k \in 0..SimTime} : Heard # {} /\ t < Max(Heard)}

(* np.arange from the window length to one step past the last beacon. *)
Grid == {t \in {Window + k * WindowStep : k \in 0..SimTime} :
             Heard # {} /\ t < Max(Heard) + WindowStep}

InWindow(r, t) == t - Window < r.at /\ r.at <= t

Samples(o, t) == {r \in beacon_rx : r.observer = o /\ InWindow(r, t)}

(* load_behaviour() and the left join of build_evidence(): a window        *)
(* without a row of behaviour has no ratio, no transit and no label.       *)
BehaviourAtWrongLate(t) ==
    {g_behaviour[i] : i \in {j \in DOMAIN g_behaviour : g_behaviour[j].time = t - WindowStep}}

BehaviourAt(t) == {g_behaviour[i] : i \in {j \in DOMAIN g_behaviour : g_behaviour[j].time = t}}

Joined(t) == CHOOSE b \in BehaviourAt(t) : TRUE

transit_rx(t) == IF BehaviourAt(t) = {} THEN 0 ELSE Joined(t).transit_rx

fwd_ratioWrongSentinel(t) ==
    IF BehaviourAt(t) = {} THEN nan ELSE <<Joined(t).forwarded, Joined(t).transit_rx>>

fwd_ratio(t) ==
    IF transit_rx(t) = 0 THEN nan ELSE <<Joined(t).forwarded, Joined(t).transit_rx>>

label(t) == \E b \in BehaviourAt(t) : b.is_attacker

RowOf(t, o) ==
    [time |-> t, observer |-> o, residual_n |-> Cardinality(Samples(o, t)),
     transit_rx |-> transit_rx(t), fwd_ratio |-> fwd_ratio(t), is_attacker |-> label(t)]

(* A row for every observer that heard something in the window. *)
Table == {RowOf(x[1], x[2]) : x \in {y \in Grid \X Observers : Samples(y[2], y[1]) # {}}}

build_evidence ==
    /\ ~Running /\ ~built
    /\ built' = TRUE
    /\ evidence' = Table
    /\ UNCHANGED <<vars, beacon_rx>>

EvidenceNext ==
    \/ MonitorStep
    \/ \E o \in Observers : HandleRead(o)
    \/ build_evidence

EvidenceSpec == EvidenceInit /\ [][EvidenceNext]_evars

----------------------------------------------------------------------------
(* Properties.                                                             *)

(* The evidence table has its type; a ratio has a denominator.             *)
EvidenceTypeOK ==
    /\ TypeOK
    /\ beacon_rx \subseteq Reception
    /\ evidence \subseteq EvidenceRow
    /\ \A e \in evidence : e.fwd_ratio # nan => e.fwd_ratio[2] > 0

(* No beacon is lost between the windows and none counts too often: unless *)
(* the run falls silent before its first window is over, every beacon is   *)
(* in the evidence of the observer that heard it, the last one included,   *)
(* and in no more windows than overlap at one time.                        *)
EveryBeaconCounts ==
    built /\ Heard # {} /\ Max(Heard) > Window - WindowStep =>
        \A r \in beacon_rx :
            LET counts == {e \in evidence : e.observer = r.observer /\ InWindow(r, e.time)} IN
            Cardinality(counts) \in 1..((Window + WindowStep - 1) \div WindowStep)

(* The grids of the simulator and of the analysis meet: every row but one  *)
(* at the end of the run finds the behaviour of its own window.            *)
GridsMeet ==
    built => \A e \in evidence : e.time + WindowStep <= SimTime =>
        \E i \in DOMAIN g_behaviour :
            /\ g_behaviour[i].time = e.time
            /\ e.transit_rx = g_behaviour[i].transit_rx
            /\ e.is_attacker = g_behaviour[i].is_attacker

(* Windows lie on the same grid the simulator uses, and the feature sets   *)
(* join without interpolation: a window of an attacker that ends after the *)
(* attack began is labelled as such.                                       *)
AttackWindowsLabelled ==
    built => \A e \in evidence : Attacker /\ e.time >= AttackStart => e.is_attacker
=============================================================================
