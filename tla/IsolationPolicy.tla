-------------------------- MODULE IsolationPolicy --------------------------
(***************************************************************************)
(* What the three isolation arms promise, free of schedules and replay:    *)
(* as simulated time passes the windows of a recorded verdict table, the   *)
(* set of isolated targets follows the table.                              *)
(*                                                                         *)
(*    C   nothing is ever isolated                                         *)
(*    D   isolated from the first suspicion on, never released             *)
(*    E   isolated exactly while the verdict held is CONFIRMED             *)
(***************************************************************************)
EXTENDS Integers, Sequences

CONSTANT Targets    \* the nodes under judgement

VARIABLES
    arm,        \* the arm in force
    table,      \* recorded verdicts per target and window; "none" = no row
    now,        \* the window simulated time has reached
    isolated    \* the targets the network excludes

pvars == <<arm, table, now, isolated>>

(* The verdict in force on t at window w is CONFIRMED. *)
HeldConfirmed(tbl, t, w) ==
    \E i \in 1..w : /\ tbl[t][i] = "confirmed"
                    /\ \A k \in (i+1)..w : tbl[t][k] = "none"

Flagged(tbl, t, w) == \E i \in 1..w : tbl[t][i] \in {"suspicious", "confirmed"}

Wants(tbl, t, w) == \/ arm = "D" /\ Flagged(tbl, t, w)
                    \/ arm = "E" /\ HeldConfirmed(tbl, t, w)

Settled == \A t \in Targets : t \in isolated <=> Wants(table, t, now)

----------------------------------------------------------------------------

PolicyInit == /\ arm = "C"
              /\ table = [t \in Targets |-> <<>>]
              /\ now = 0
              /\ isolated = {}

(* The recording grows before the replay, and only then. *)
Record == /\ now = 0 /\ isolated = {}
          /\ \E t \in Targets, x \in {"none", "normal", "suspicious", "confirmed"} :
                table' = [table EXCEPT ![t] = Append(@, x)]
          /\ UNCHANGED <<arm, now, isolated>>

(* The arm is chosen once the recording is complete. *)
Choose == /\ now = 0 /\ isolated = {}
          /\ arm' \in {"C", "D", "E"}
          /\ UNCHANGED <<table, now, isolated>>

Advance == /\ Settled
           /\ \A t \in Targets : now < Len(table[t])
           /\ now' = now + 1
           /\ UNCHANGED <<arm, table, isolated>>

(* Only a target whose window demands it changes sides. *)
Revise(t) == /\ t \in isolated <=> ~Wants(table, t, now)
             /\ isolated' = IF t \in isolated THEN isolated \ {t} ELSE isolated \cup {t}
             /\ UNCHANGED <<arm, table, now>>

PolicyNext == Record \/ Choose \/ Advance \/ \E t \in Targets : Revise(t)

(* Replay never holds still while a target is on the wrong side. *)
PolicySpec == PolicyInit /\ [][PolicyNext]_pvars

=============================================================================
