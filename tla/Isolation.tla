----------------------------- MODULE Isolation -----------------------------
(***************************************************************************)
(* From verdicts to isolation: analysis/make_schedules.py turns the table  *)
(* written by decide() into one schedule of events per arm, and the        *)
(* simulator replays the schedule of the chosen arm into the               *)
(* IsolationRegistry of ns3/mbtr-isolation.h.                              *)
(*                                                                         *)
(* The three programs run one after another and meet in files: phase says  *)
(* which one is running.  Simulated time is counted in windows.            *)
(***************************************************************************)
EXTENDS Verdict

CONSTANTS
    Nodes,      \* node ids, the targets among them
    node0       \* the node with id 0, named by the no-op row

(* A target is never the only node: another one has to discard its frames. *)
ASSUME NodesAssumption ==
    /\ IsFiniteSet(Nodes) /\ Targets \subseteq Nodes /\ node0 \in Nodes
    /\ \A t \in Targets : Nodes # {t}

VARIABLES
    phase,            \* "decide", "schedule", "replay" or "fatal"
    cursor,           \* rows of each group the E loop has walked
    e_state,          \* state of the E loop: "out" or "in"
    d_rows,           \* events of arm D
    e_rows,           \* events of arm E
    arm,              \* the arm replayed
    now,              \* simulated time: the window reached
    pending,          \* isolation events scheduled and not yet run
    m_blocked,        \* per observer, the targets whose frames it discards
    m_isolationCount

sched_vars  == <<cursor, e_state, d_rows, e_rows>>
replay_vars == <<arm, now, pending, m_blocked, m_isolationCount>>
ivars == <<vars, phase, sched_vars, replay_vars>>

Event == [time : 0..MaxWindows, observer : Nodes \cup {"all"}, target : Nodes,
          action : {"isolate", "release"}]

PipelineInit ==
    /\ Init
    /\ phase = "decide"
    /\ cursor = [t \in Targets |-> 0]
    /\ e_state = [t \in Targets |-> "out"]
    /\ d_rows = {} /\ e_rows = {}
    /\ arm = "C" /\ now = 0 /\ pending = {}
    /\ m_blocked = [o \in Nodes |-> {}]
    /\ m_isolationCount = 0

----------------------------------------------------------------------------
(* decide(), then the verdict file is complete.                            *)

DecideStep ==
    /\ phase = "decide"
    /\ Next
    /\ UNCHANGED <<phase, sched_vars, replay_vars>>

WriteVerdicts ==
    /\ phase = "decide"
    /\ \A t \in Targets : Len(rows[t]) = MaxWindows
    /\ phase' = "schedule"
    /\ UNCHANGED <<vars, sched_vars, replay_vars>>

----------------------------------------------------------------------------
(* build_schedules(): target by target, row by row.                        *)

ForAllWrongWindow(w, t, a) == [time |-> w + 1, observer |-> "all", target |-> t, action |-> a]

ForAll(w, t, a) == [time |-> w, observer |-> "all", target |-> t, action |-> a]

IsFlaggedWrongLevel(x) == x = SUSPICIOUS

IsFlagged(x) == x \in {SUSPICIOUS, CONFIRMED}

(* The first flagged row of the group, and no other, goes to arm D. *)
DEvents(w, t, x, events) ==
    IF IsFlagged(x) /\ \A e \in events : e.target # t THEN {ForAll(w, t, "isolate")} ELSE {}

EActionWrongRepeat(st, x) == CASE x = CONFIRMED                -> "isolate"
                               [] st = "in" /\ x = NORMAL     -> "release"
                               [] OTHER                       -> "none"
EActionWrongSilence(st, x) == CASE st = "out" /\ x = CONFIRMED -> "isolate"
                                [] st = "in" /\ x # CONFIRMED -> "release"
                                [] OTHER                      -> "none"

EAction(st, x) == CASE st = "out" /\ x = CONFIRMED -> "isolate"
                    [] st = "in" /\ x = NORMAL     -> "release"
                    [] OTHER                       -> "none"

EStateAfterWrongStuck(st, a) == IF a = "isolate" THEN "in" ELSE st

EStateAfter(st, a) == CASE a = "isolate" -> "in"
                        [] a = "release" -> "out"
                        [] OTHER         -> st

ScheduleRow(t) ==
    LET w == cursor[t] + 1
        x == rows[t][w].verdict
        a == EAction(e_state[t], x)
    IN  /\ phase = "schedule"
        /\ cursor[t] < MaxWindows
        /\ \A u \in Targets \ {t} : cursor[u] \in {0, MaxWindows}
        /\ cursor' = [cursor EXCEPT ![t] = w]
        /\ d_rows' = d_rows \cup DEvents(w, t, x, d_rows)
        /\ e_state' = [e_state EXCEPT ![t] = EStateAfter(@, a)]
        /\ e_rows' = IF a = "none" THEN e_rows ELSE e_rows \cup {ForAll(w, t, a)}
        /\ UNCHANGED <<vars, phase, replay_vars>>

ScheduleFileWrongEmpty(events) == events

(* _write(): an arm without events gets an explicit no-op. *)
ScheduleFile(events) ==
    IF events = {} THEN {ForAll(0, node0, "release")} ELSE events

Arms == {"C", "D", "E"}

ArmRows(a) == CASE a = "C" -> {} [] a = "D" -> d_rows [] a = "E" -> e_rows

(* Each arm is a run of its own on the same schedules.  The simulator      *)
(* refuses an empty one.                                                   *)
LoadIsolationSchedule(a) ==
    /\ phase = "schedule"
    /\ \A t \in Targets : cursor[t] = MaxWindows
    /\ arm' = a
    /\ pending' = ScheduleFile(ArmRows(a))
    /\ phase' = IF pending' = {} THEN "fatal" ELSE "replay"
    /\ UNCHANGED <<vars, sched_vars, now, m_blocked, m_isolationCount>>

----------------------------------------------------------------------------
(* The replay.                                                             *)

ReachedWrongSelf(e) == IF e.observer = "all" THEN Nodes ELSE {e.observer}

(* The observers an event reaches: a target never blacklists itself when   *)
(* the whole network is addressed.                                         *)
Reached(e) == IF e.observer = "all" THEN Nodes \ {e.target} ELSE {e.observer}

Isolate(O, t) == [o \in Nodes |-> IF o \in O THEN m_blocked[o] \cup {t} ELSE m_blocked[o]]
Release(O, t) == [o \in Nodes |-> IF o \in O THEN m_blocked[o] \ {t} ELSE m_blocked[o]]

ApplyIsolationEvent(e) ==
    /\ phase = "replay"
    /\ e.time = now
    /\ pending' = pending \ {e}
    /\ IF e.action = "isolate"
       THEN /\ m_blocked' = Isolate(Reached(e), e.target)
            /\ m_isolationCount' = m_isolationCount + Cardinality(Reached(e))
       ELSE /\ m_blocked' = Release(Reached(e), e.target)
            /\ UNCHANGED m_isolationCount
    /\ UNCHANGED <<vars, phase, sched_vars, arm, now>>

(* The simulator runs what is due before its clock moves on. *)
Tick ==
    /\ phase = "replay"
    /\ now < MaxWindows
    /\ \A e \in pending : e.time > now
    /\ now' = now + 1
    /\ UNCHANGED <<vars, phase, sched_vars, arm, pending, m_blocked, m_isolationCount>>

PipelineNext ==
    \/ DecideStep \/ WriteVerdicts
    \/ \E t \in Targets : ScheduleRow(t)
    \/ \E a \in Arms : LoadIsolationSchedule(a)
    \/ \E e \in pending : ApplyIsolationEvent(e)
    \/ Tick

PipelineSpec == PipelineInit /\ [][PipelineNext]_ivars

(* The programs run to the end of their input; nothing interrupts them. *)
FairPipelineSpec == PipelineSpec /\ WF_ivars(PipelineNext)

----------------------------------------------------------------------------
(* Every event is one the loader can build, and the counters are naturals. *)
PipelineTypeOK ==
    /\ TypeOK
    /\ phase \in {"decide", "schedule", "replay", "fatal"}
    /\ cursor \in [Targets -> 0..MaxWindows]
    /\ e_state \in [Targets -> {"out", "in"}]
    /\ d_rows \in SUBSET Event /\ e_rows \in SUBSET Event /\ pending \in SUBSET Event
    /\ arm \in Arms /\ now \in 0..MaxWindows
    /\ m_blocked \in [Nodes -> SUBSET Nodes]
    /\ m_isolationCount \in Nat

(***************************************************************************)
(* The two writers and the reader of schedules agree: whatever the         *)
(* verdicts, _write never hands the simulator the empty schedule that      *)
(* stops it, and the no-op row it writes instead isolates nobody.          *)
(***************************************************************************)
ScheduleIsReplayable ==
    /\ phase # "fatal"
    /\ arm = "C" => \A o \in Nodes : m_blocked[o] = {}

(***************************************************************************)
(* Arm D "reacts sooner than E" (docs/07): by the time a target is         *)
(* isolated in arm E it already is in arm D.                               *)
(***************************************************************************)
DNotLaterThanE ==
    \A e \in e_rows : e.action = "isolate" =>
        \E d \in d_rows : d.target = e.target /\ d.time <= e.time

(***************************************************************************)
(* The registry counts isolations even when the entry is already there;    *)
(* no schedule isolates a target twice without releasing it, so the count  *)
(* never exceeds the blacklist entries really added.                       *)
(***************************************************************************)
EachIsolationIsNew ==
    [][m_isolationCount' - m_isolationCount \in
         {0, Cardinality({o \in Nodes : m_blocked[o] # m_blocked'[o]})}]_ivars

(* No node blacklists itself, and two nodes that are not the target agree  *)
(* about it in every state: events addressed to "all" are atomic.          *)
NetworkWideAgreement ==
    \A t \in Nodes :
        /\ t \notin m_blocked[t]
        /\ \A o, p \in Nodes \ {t} : t \in m_blocked[o] <=> t \in m_blocked[p]

----------------------------------------------------------------------------
(* The pipeline implements the policy of its arm.                          *)

RecordedVerdicts == [t \in Targets |-> [i \in 1..Len(rows[t]) |-> rows[t][i].verdict]]

IsolatedTargets == {t \in Targets : \E o \in Nodes : t \in m_blocked[o]}

Policy == INSTANCE IsolationPolicy WITH table <- RecordedVerdicts, isolated <- IsolatedTargets

(* Simulated time never leaves a window before the blacklists agree with   *)
(* the verdicts in force there, no target changes sides without its        *)
(* verdict asking for it, and nothing is isolated before the replay.       *)
ImplementsPolicy == Policy!PolicySpec

(* When the replay is over the network isolates exactly the targets its    *)
(* arm wants isolated at the end of the trace.                             *)
EndsSettled == <>[](phase = "replay" /\ pending = {} /\ now = MaxWindows /\ Policy!Settled)

=============================================================================
