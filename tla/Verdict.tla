------------------------------ MODULE Verdict ------------------------------
(***************************************************************************)
(* The three-way verdict of analysis/decide.py.                            *)
(*                                                                         *)
(* decide() walks the (window, target) groups of the trust table in time   *)
(* order and keeps three dictionaries keyed by target: state, bad_streak   *)
(* and good_streak.  A group is reduced by _network_view to a handful of   *)
(* facts; here a view is a record of the comparisons decide() makes on     *)
(* them.  A target nobody heard during a window has no group at all: the   *)
(* loop body does not run for it (NoRow).                                  *)
(***************************************************************************)
EXTENDS Integers, Sequences, FiniteSets

CONSTANTS
    Targets,            \* the beacon nodes under verification
    persistence,        \* DecisionParams.persistence
    clear_persistence,  \* DecisionParams.clear_persistence
    MaxWindows          \* bound: windows in one trace

ASSUME ParamsAssumption ==
    /\ persistence \in Nat \ {0}
    /\ clear_persistence \in Nat \ {0}
    /\ MaxWindows \in Nat

NORMAL     == "normal"
SUSPICIOUS == "suspicious"
CONFIRMED  == "confirmed"
Verdicts   == {NORMAL, SUSPICIOUS, CONFIRMED}

VARIABLES
    state,        \* verdict currently held on each target
    bad_streak,   \* rows in a row that looked bad
    good_streak,  \* clean rows since the last setback; Unset: no such key
    rows          \* the output table: one entry per window, NoEvidence = no row

vars == <<state, bad_streak, good_streak, rows>>

Unset == -1

(***************************************************************************)
(* What _network_view says of a group, compared with the thresholds:       *)
(*   tm      trust_median: not finite, < theta_low, between, >= theta_high *)
(*   enough  n_observers >= min_observers                                  *)
(*   agree   agreement finite and >= min_agreement                         *)
(*   branch  branch_ok of the mode in use                                  *)
(* No finite trust means n_observers = 0 and no branch (the early return). *)
(***************************************************************************)
NoView == [tm |-> "nan", enough |-> FALSE, agree |-> FALSE, branch |-> FALSE]

Views == {NoView} \cup
         [tm : {"low", "mid", "high"}, enough : BOOLEAN, agree : BOOLEAN, branch : BOOLEAN]

(* Mistakes in the lines below that a run must catch end in Wrong... *)
looks_badWrongCount(v) == v.tm = "low" /\ v.agree /\ v.branch

looks_bad(v)  == v.tm = "low" /\ v.enough /\ v.agree /\ v.branch
looks_fine(v) == v.tm = "high"
usable(v)     == v.tm # "nan" /\ v.enough

(* The five ways a row can count, as far as the streaks can tell. *)
Look(v) == CASE looks_bad(v)              -> "bad"
             [] looks_fine(v)             -> "fine"
             [] usable(v) /\ ~looks_bad(v) /\ ~looks_fine(v) -> "setback"
             [] v.tm = "nan"              -> "silent"
             [] OTHER                     -> "faint"

NoEvidence == [look |-> "absent", verdict |-> "none", bad |-> 0]
Row == [look : {"bad", "fine", "setback", "silent", "faint"},
        verdict : Verdicts, bad : Nat]

----------------------------------------------------------------------------

NextBadWrongHold(v, b)  == IF looks_bad(v) THEN b + 1 ELSE IF looks_fine(v) THEN 0 ELSE b

NextBad(v, b) == IF looks_bad(v) THEN b + 1 ELSE 0

NextGoodWrongKeep(v, g) == IF looks_fine(v) THEN (IF g = Unset THEN 0 ELSE g) + 1 ELSE g

NextGood(v, g) ==
    CASE looks_fine(v)                 -> (IF g = Unset THEN 0 ELSE g) + 1
      [] ~looks_fine(v) /\ usable(v)   -> 0
      [] ~looks_fine(v) /\ ~usable(v)  -> g

NextStateWrongOrder(v, prev, b, g) ==
    IF b >= persistence THEN CONFIRMED
    ELSE IF looks_fine(v) THEN NORMAL ELSE IF v.tm # "nan" THEN SUSPICIOUS ELSE prev

(* b and g are the streaks already updated by this row. *)
NextState(v, prev, b, g) ==
    CASE prev = CONFIRMED -> IF g >= clear_persistence THEN NORMAL ELSE CONFIRMED
      [] prev # CONFIRMED /\ b >= persistence -> CONFIRMED
      [] prev # CONFIRMED /\ b < persistence ->
           IF looks_fine(v) THEN NORMAL
           ELSE IF v.tm # "nan" THEN SUSPICIOUS ELSE prev

Init ==
    /\ state = [t \in Targets |-> NORMAL]
    /\ bad_streak = [t \in Targets |-> 0]
    /\ good_streak = [t \in Targets |-> Unset]
    /\ rows = [t \in Targets |-> <<>>]

(* groupby(sort=True) yields the groups window by window. *)
Due(t) == /\ Len(rows[t]) < MaxWindows
          /\ \A u \in Targets : Len(rows[t]) <= Len(rows[u])

Decide(t, v) ==
    LET b == NextBad(v, bad_streak[t])
        g == NextGood(v, good_streak[t])
        s == NextState(v, state[t], b, g)
    IN  /\ Due(t)
        /\ bad_streak' = [bad_streak EXCEPT ![t] = b]
        /\ good_streak' = [good_streak EXCEPT ![t] = g]
        /\ state' = [state EXCEPT ![t] = s]
        /\ rows' = [rows EXCEPT ![t] = Append(@, [look |-> Look(v), verdict |-> s, bad |-> b])]

NoRow(t) ==
    /\ Due(t)
    /\ rows' = [rows EXCEPT ![t] = Append(@, NoEvidence)]
    /\ UNCHANGED <<state, bad_streak, good_streak>>

Next == \E t \in Targets : NoRow(t) \/ \E v \in Views : Decide(t, v)

Spec == Init /\ [][Next]_vars

----------------------------------------------------------------------------
(* Type invariant: every dictionary entry and every output row is one the  *)
(* loop of decide() can build, and no trace outgrows the bound.            *)
TypeOK ==
    /\ state \in [Targets -> Verdicts]
    /\ bad_streak \in [Targets -> Nat]
    /\ good_streak \in [Targets -> Nat \cup {Unset}]
    /\ rows \in [Targets -> Seq(Row \cup {NoEvidence})]

(* The properties read the output table of one target, R = rows[t].        *)
Windows(R)    == 1..Len(R)
Present(R, i) == R[i] # NoEvidence

(* S is a run of bad rows that ends in window i: from the first window of  *)
(* S up to i, every row the table has is bad and is in S.                  *)
BadRun(R, i, S) ==
    /\ S \subseteq 1..i
    /\ i \in S
    /\ \A s \in S : R[s].look = "bad"
    /\ \A s \in S : \A j \in s..i : Present(R, j) => j \in S

(* Every row between windows i and j says CONFIRMED. *)
Held(R, i, j) == \A k \in i..j : Present(R, k) => R[k].verdict = CONFIRMED

(* The clean rows S of the windows up to i all count towards a release:    *)
(* no usable row that is not clean came after any of them.                 *)
CleanRows(R, i, S) ==
    /\ S \subseteq 1..i
    /\ \A s \in S : R[s].look = "fine"
    /\ \A s \in S : \A j \in s..i : R[j].look \notin {"bad", "setback"}

(* Window i is the row that withdraws a conviction still held at row p. *)
Withdraws(R, p, i) ==
    /\ p < i
    /\ R[p].verdict = CONFIRMED
    /\ R[i].verdict = NORMAL
    /\ \A k \in (p+1)..(i-1) : ~Present(R, k)

(***************************************************************************)
(* A conviction is earned: whenever a row says CONFIRMED, some earlier (or *)
(* the same) row closed a run of at least `persistence` bad rows, and every *)
(* row since has said CONFIRMED.  No single bad window, and no mixture of  *)
(* bad and other rows, convicts (decide.py requirement 4).                 *)
(***************************************************************************)
ConvictionEarned ==
    \A t \in Targets : \A i \in Windows(rows[t]) :
        rows[t][i].verdict = CONFIRMED =>
            \E c \in 1..i :
                /\ Held(rows[t], c, i)
                /\ \E S \in SUBSET (1..c) :
                      BadRun(rows[t], c, S) /\ Cardinality(S) >= persistence

(***************************************************************************)
(* A release is earned under the same conviction: when a row withdraws it, *)
(* at least clear_persistence clean rows came after a row that already     *)
(* said CONFIRMED, with no setback after any of them.  None of the clean   *)
(* rows counted dates from before the conviction, although decide() never  *)
(* resets good_streak when it convicts.                                    *)
(***************************************************************************)
ReleaseEarned ==
    \A t \in Targets : \A p, i \in Windows(rows[t]) :
        Withdraws(rows[t], p, i) =>
            \E c \in 1..p :
                /\ Held(rows[t], c, p)
                /\ \E S \in SUBSET ((c+1)..i) :
                      CleanRows(rows[t], i, S) /\ Cardinality(S) >= clear_persistence

(***************************************************************************)
(* decide() indexes good_streak[tgt] without a default when the previous   *)
(* verdict is CONFIRMED: the key must exist by then, and a target just     *)
(* convicted starts from a cleared recovery counter.                       *)
(***************************************************************************)
RecoveryCounterReady ==
    \A t \in Targets :
        /\ state[t] = CONFIRMED => good_streak[t] \in 0..(clear_persistence - 1)
        /\ bad_streak[t] > 0 => good_streak[t] = 0

(***************************************************************************)
(* A target can be cleared and convicted again, but it cannot oscillate    *)
(* its way back into routing: every row of the clear_persistence windows   *)
(* before a release says CONFIRMED.                                        *)
(***************************************************************************)
DwellInConfirmed ==
    \A t \in Targets : \A p, i \in Windows(rows[t]) :
        Withdraws(rows[t], p, i) =>
            \A k \in 1..p :
                i - k < clear_persistence /\ Present(rows[t], k)
                    => rows[t][k].verdict = CONFIRMED

----------------------------------------------------------------------------
(* What the text of decide.py promises and the loop does not do.           *)

(***************************************************************************)
(* "the condition sustained for `persistence` consecutive windows"         *)
(* (decide.py:15): a conviction closes `persistence` consecutive windows   *)
(* that all looked bad, windows without any row included.                  *)
(***************************************************************************)
ConvictedOnConsecutiveWindows ==
    [][\A t \in Targets :
         state[t] # CONFIRMED /\ state'[t] = CONFIRMED =>
            /\ Len(rows'[t]) >= persistence
            /\ \A k \in 0..(persistence - 1) :
                  rows'[t][Len(rows'[t]) - k].look = "bad"]_vars

(***************************************************************************)
(* "consecutive clean windows to leave CONFIRMED" (decide.py:43): the      *)
(* clear_persistence rows before a release are all clean.                  *)
(***************************************************************************)
ReleasedOnConsecutiveCleanWindows ==
    [][\A t \in Targets :
         state[t] = CONFIRMED /\ state'[t] # CONFIRMED =>
            \A k \in 0..(clear_persistence - 1) :
                rows'[t][Len(rows'[t]) - k].look \in {"fine", "silent", "absent"}]_vars

=============================================================================
