------------------------------- MODULE Trust -------------------------------
(***************************************************************************)
(* Step 8 (analysis/trust.py): the trust of one observer in one target,    *)
(* window after window, from the observer's own evidence, what the others  *)
(* say of the target, and the history of its trust.                        *)
(*                                                                         *)
(* Scores are whole parts of Scale, quotients rounded down.  Which score a *)
(* branch gives to a measurement is left open; how the z-statistics of two *)
(* branches combine is bounded as Stouffer's formula bounds it.            *)
(***************************************************************************)
EXTENDS Integers, FiniteSetsExt, SequencesExt

CONSTANTS
    Scale,                              \* a score of 1
    Scores,                             \* scores a branch may give
    NaN,
    w_direct, w_indirect, w_history,    \* aggregation weights
    DecayDown, DecayUp,                 \* lambda_decay, percent
    Trim,                               \* trim_fraction, percent
    MaxOthers                           \* bound: other observers of the target

ASSUME TrustAssumption ==
    /\ Scale \in Nat \ {0} /\ {0, Scale} \subseteq Scores /\ Scores \subseteq 0..Scale
    /\ NaN \notin Int
    /\ {w_direct, w_indirect, w_history} \subseteq Nat \ {0}
    /\ DecayDown \in 0..100 /\ DecayUp \in 0..100 /\ Trim \in 0..49
    /\ MaxOthers \in Nat

VARIABLES
    mode,       \* the ablation
    own,        \* whether the observer measured anything in this window
    direct,     \* direct trust of this window
    others,     \* that of the other observers who have one, in order
    trust,
    history,
    seen        \* all scores that entered so far, own or of others

trust_vars == <<mode, own, direct, others, trust, history, seen>>

TrustInit ==
    /\ mode \in {"fused", "behaviour", "localization"}
    /\ own = FALSE /\ direct = NaN /\ others = << >> /\ trust = NaN /\ history = NaN
    /\ seen = {}

----------------------------------------------------------------------------
(* Direct trust.                                                           *)

(* A branch is NaN when the window has no measurement for it.  Behaviour   *)
(* counts as one only from min_transit_for_evidence packets on.            *)
Gated(branch, score) == IF mode \in {"fused", branch} THEN score ELSE NaN

(* Stouffer: two clean branches are clean; a clean one leaves the other    *)
(* its doubt at most; two doubtful ones are never better than the better,  *)
(* and may be worse than either.                                           *)
Fused(B, L) ==
    {v \in Scores : /\ v <= Max({B, L})
                    /\ Max({B, L}) = Scale => v >= Min({B, L})
                    /\ Min({B, L}) < Scale => v < Scale}

ComputeDirectWrongDefault(B, L) ==
    CASE B = NaN /\ L = NaN -> {Scale}
      [] B = NaN /\ L # NaN -> {L}
      [] L = NaN /\ B # NaN -> {B}
      [] OTHER -> Fused(B, L)

(* Without a measurement a branch weighs nothing; without any there is no  *)
(* direct trust.                                                           *)
ComputeDirect(B, L) ==
    CASE B = NaN /\ L = NaN -> {NaN}
      [] B = NaN /\ L # NaN -> {L}
      [] L = NaN /\ B # NaN -> {B}
      [] OTHER -> Fused(B, L)

----------------------------------------------------------------------------
(* Recommendations v, in order.                                            *)

TrimmedWrongNone(v) == v

Trimmed(v) ==
    LET n == Len(v)
        k == (Trim * n) \div 100
    IN  IF n >= 5 /\ k > 0 /\ n - 2 * k >= 1 THEN SubSeq(v, k + 1, n - k) ELSE v

(* The cap on one recommendation's influence is the same for all of them,  *)
(* and goes out when the weights are normalised.                           *)
TrimmedBoundedMean(v) ==
    IF v = << >> THEN NaN
    ELSE FoldSeq(+, 0, Trimmed(v)) \div Len(Trimmed(v))

----------------------------------------------------------------------------
(* Aggregation of what there is of direct trust, consensus and history.    *)

Weight(x, w) == IF x = NaN THEN 0 ELSE w

Part(x, w) == IF x = NaN THEN 0 ELSE x * w

AggregateWrongFixed(d, r, h) ==
    IF <<d, r, h>> = <<NaN, NaN, NaN>> THEN NaN
    ELSE (Part(d, w_direct) + Part(r, w_indirect) + Part(h, w_history))
            \div (w_direct + w_indirect + w_history)

Aggregate(d, r, h) ==
    LET total == Weight(d, w_direct) + Weight(r, w_indirect) + Weight(h, w_history)
    IN  IF total = 0 THEN h
        ELSE (Part(d, w_direct) + Part(r, w_indirect) + Part(h, w_history)) \div total

(* Asymmetric: the new value weighs more when trust falls. *)
History(h, t) ==
    LET lam == IF t < h THEN DecayDown ELSE DecayUp
    IN  IF t = NaN THEN h
        ELSE IF h = NaN THEN t
        ELSE (lam * h + (100 - lam) * t) \div 100

(* What one window's measurements make of the target, with some that the   *)
(* ablation uses (o) or without.                                           *)
Directs(o) ==
    UNION {ComputeDirect(Gated("behaviour", m[1]), Gated("localization", m[2])) :
              m \in {k \in (Scores \cup {NaN}) \X (Scores \cup {NaN}) :
                       o <=> \/ Gated("behaviour", k[1]) # NaN
                             \/ Gated("localization", k[2]) # NaN}}

(* One window in which the observer has a row for the target. *)
Window(o, d, v) ==
    /\ own' = o /\ direct' = d /\ others' = v
    /\ trust' = Aggregate(d, TrimmedBoundedMean(v), history)
    /\ history' = History(history, trust')
    /\ seen' = (seen \cup ToSet(v) \cup {d}) \ {NaN}
    /\ UNCHANGED mode

Sorted == {v \in UNION {[1..n -> Scores] : n \in 0..MaxOthers} :
              \A i \in 2..Len(v) : v[i - 1] <= v[i]}

TrustNext == \E o \in BOOLEAN, v \in Sorted : \E d \in Directs(o) : Window(o, d, v)

TrustSpec == TrustInit /\ [][TrustNext]_trust_vars

----------------------------------------------------------------------------
(***************************************************************************)
(* Trust comes from evidence: in any sequence of windows with branches     *)
(* missing, observers silent and history carried over, it lies between the *)
(* worst and the best score that ever entered, and as long as none has     *)
(* there is no trust and no history, neither good nor bad.                 *)
(***************************************************************************)
TrustWithinEvidence ==
    IF seen = {} THEN trust = NaN /\ history = NaN
    ELSE {trust, history} \subseteq Min(seen)..Max(seen)

(***************************************************************************)
(* _trimmed_bounded_mean, "resistant to a minority of liars": with five    *)
(* others or more, whatever one of them says, their consensus stays        *)
(* between the worst and the best of what the rest say.                    *)
(***************************************************************************)
OneLiarIsTrimmed ==
    Len(others) >= 5 =>
        \A i \in DOMAIN others :
            LET rest == {others[k] : k \in DOMAIN others \ {i}}
            IN  TrimmedBoundedMean(others) \in Min(rest)..Max(rest)

(***************************************************************************)
(* "No evidence at all this window: carry history forward unchanged rather *)
(* than defaulting to trusted or untrusted": a window in which nobody      *)
(* measured anything of the target changes neither trust nor history.      *)
(***************************************************************************)
SilenceCarriesHistory ==
    [][~own' /\ others' = << >> => trust' = history /\ history' = history]_trust_vars

=============================================================================
