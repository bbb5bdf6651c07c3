-------------------------- MODULE IsolationProofs --------------------------
(***************************************************************************)
(* Proofs about Verdict and Isolation, for every set of targets and nodes, *)
(* every persistence and clear_persistence, and traces of any length up to *)
(* MaxWindows.                                                             *)
(*                                                                         *)
(* The argument about the verdict is about one table at a time.            *)
(* Summary(R, s, b, g) says how the dictionary entries s (verdict), b and  *)
(* g (streaks) of a target summarise its table R; ConvictionsOK(R) and     *)
(* ReleasesOK(R) are the safety properties of the table itself.  All are   *)
(* kept by appending a row (AppendRow) and by appending a window without a *)
(* row (AppendGap); the steps of Verdict do nothing else.                  *)
(*                                                                         *)
(* Each arm wants a target isolated as a function of the verdict table     *)
(* (Wanted).  The writer of an arm puts one event exactly where that wish  *)
(* turns (Follows), and during the replay the registry is a function of    *)
(* the table, of simulated time and of the events still to be run (Sides). *)
(* The safety properties and the refinement of IsolationPolicy follow.     *)
(***************************************************************************)
EXTENDS Isolation, FiniteSetTheorems, SequenceTheorems, WellFoundedInduction, TLAPS

----------------------------------------------------------------------------
(* The verdict.                                                            *)

Entry == Row \cup {NoEvidence}

(* The verdict held is the one of the last row. *)
LastRowVerdict(R, s) ==
    \A i \in Windows(R) :
        Present(R, i) /\ (\A k \in (i+1)..Len(R) : ~Present(R, k)) => R[i].verdict = s

(* The bad streak counts a run of bad rows that reaches the end of R. *)
BadStreakCounts(R, b) ==
    b > 0 => \E S \in SUBSET Windows(R) :
                /\ Cardinality(S) = b
                /\ \A x \in S : R[x].look = "bad"
                /\ \A x \in S : \A j \in x..Len(R) : Present(R, j) => j \in S

(* A conviction still held has its run of bad rows. *)
ConvictionHasRun(R, s) ==
    s = CONFIRMED =>
        \E c \in Windows(R) :
            /\ Held(R, c, Len(R))
            /\ \E S \in SUBSET (1..c) : BadRun(R, c, S) /\ Cardinality(S) >= persistence

(* The recovery counter counts clean rows that follow the conviction. *)
GoodStreakCounts(R, s, g) ==
    s = CONFIRMED =>
        \E c \in Windows(R) :
            /\ Present(R, c) /\ Held(R, c, Len(R))
            /\ \E S \in SUBSET ((c+1)..Len(R)) :
                  CleanRows(R, Len(R), S) /\ Cardinality(S) = g

CounterReady(s, b, g) ==
    /\ s = CONFIRMED => g \in 0..(clear_persistence - 1)
    /\ b > 0 => g = 0

Summary(R, s, b, g) ==
    /\ LastRowVerdict(R, s)
    /\ BadStreakCounts(R, b)
    /\ ConvictionHasRun(R, s)
    /\ GoodStreakCounts(R, s, g)
    /\ CounterReady(s, b, g)

ConvictionsOK(R) ==
    \A i \in Windows(R) :
        R[i].verdict = CONFIRMED =>
            \E c \in 1..i :
                /\ Held(R, c, i)
                /\ \E S \in SUBSET (1..c) : BadRun(R, c, S) /\ Cardinality(S) >= persistence

ReleasesOK(R) ==
    \A p, i \in Windows(R) :
        Withdraws(R, p, i) =>
            \E c \in 1..p :
                /\ Held(R, c, p)
                /\ \E S \in SUBSET ((c+1)..i) :
                      CleanRows(R, i, S) /\ Cardinality(S) >= clear_persistence

(* The inductive invariant. *)
IInv == /\ TypeOK
        /\ \A t \in Targets :
              /\ Summary(rows[t], state[t], bad_streak[t], good_streak[t])
              /\ ConvictionsOK(rows[t])
              /\ ReleasesOK(rows[t])

----------------------------------------------------------------------------
(* Types.                                                                  *)

(* Every view has one look. *)
LEMMA LookType ==
    ASSUME NEW v \in Views
    PROVE  /\ Look(v) \in {"bad", "fine", "setback", "silent", "faint"}
           /\ looks_bad(v) <=> Look(v) = "bad"
           /\ looks_fine(v) <=> Look(v) = "fine"
           /\ Look(v) = "setback" <=> usable(v) /\ ~looks_bad(v) /\ ~looks_fine(v)
           /\ looks_bad(v) => usable(v) /\ ~looks_fine(v)
BY DEF Views, NoView, Look, looks_bad, looks_fine, usable

(* The new values of one iteration of decide() are well typed. *)
LEMMA NextTypes ==
    ASSUME NEW v \in Views, NEW s \in Verdicts, NEW b \in Nat, NEW g \in Nat \cup {Unset}
    PROVE  /\ NextBad(v, b) \in Nat
           /\ NextGood(v, g) \in Nat \cup {Unset}
           /\ NextState(v, s, NextBad(v, b), NextGood(v, g)) \in Verdicts
<1>1. NextBad(v, b) \in Nat
  BY DEF NextBad
<1>2. NextGood(v, g) \in Nat \cup {Unset}
  BY DEF NextGood, Unset
<1>3. \A m \in Nat, n \in Nat \cup {Unset} : NextState(v, s, m, n) \in Verdicts
  BY ParamsAssumption DEF NextState, Verdicts, Unset
<1> QED BY <1>1, <1>2, <1>3

(* The dictionaries start out typed. *)
LEMMA InitType == Init => TypeOK
BY DEF Init, TypeOK, Verdicts, Unset

(* A step of decide() keeps the types. *)
LEMMA NextType == TypeOK /\ [Next]_vars => TypeOK'
<1> SUFFICES ASSUME TypeOK, [Next]_vars PROVE TypeOK'
  OBVIOUS
<1> USE DEF TypeOK
<1>1. CASE UNCHANGED vars
  BY <1>1 DEF vars
<1>2. ASSUME NEW t \in Targets, NoRow(t) PROVE TypeOK'
  BY <1>2 DEF NoRow
<1>3. ASSUME NEW t \in Targets, NEW v \in Views, Decide(t, v) PROVE TypeOK'
  <2> DEFINE b == NextBad(v, bad_streak[t])
             g == NextGood(v, good_streak[t])
             s == NextState(v, state[t], b, g)
             r == [look |-> Look(v), verdict |-> s, bad |-> b]
  <2>1. b \in Nat /\ g \in Nat \cup {Unset} /\ s \in Verdicts
    BY NextTypes
  <2>2. r \in Row
    BY <2>1, LookType DEF Row
  <2>3. /\ bad_streak' = [bad_streak EXCEPT ![t] = b]
        /\ good_streak' = [good_streak EXCEPT ![t] = g]
        /\ state' = [state EXCEPT ![t] = s]
        /\ rows' = [rows EXCEPT ![t] = Append(rows[t], r)]
    BY <1>3 DEF Decide
  <2> HIDE DEF b, g, s, r
  <2> QED BY <2>1, <2>2, <2>3
<1> QED BY <1>1, <1>2, <1>3 DEF Next

(* Every entry of the three dictionaries and of the output table keeps its *)
(* type.                                                                   *)
THEOREM TypeCorrect == Spec => []TypeOK
BY InitType, NextType, PTL DEF Spec

----------------------------------------------------------------------------
(* Appending one entry to a table leaves its earlier windows alone.        *)

(* Appending keeps old windows and adds one. *)
LEMMA AppendFacts ==
    ASSUME NEW R \in Seq(Entry), NEW r \in Entry
    PROVE  LET Q == Append(R, r) IN
           /\ Q \in Seq(Entry)
           /\ Len(R) \in Nat /\ Len(Q) = Len(R) + 1
           /\ Q[Len(R) + 1] = r
           /\ \A i \in 1..Len(R) : Q[i] = R[i]
OBVIOUS

(* The predicates on windows up to i say the same of both tables. *)
LEMMA PrefixStable ==
    ASSUME NEW R \in Seq(Entry), NEW r \in Entry, NEW i \in Windows(R)
    PROVE  LET Q == Append(R, r) IN
           /\ \A c \in 1..i : Held(R, c, i) => Held(Q, c, i)
           /\ \A S : BadRun(R, i, S) => BadRun(Q, i, S)
           /\ \A S : CleanRows(R, i, S) => CleanRows(Q, i, S)
           /\ \A p \in Windows(R) : Withdraws(Q, p, i) => Withdraws(R, p, i)
<1> DEFINE Q == Append(R, r)
<1>1. /\ Len(R) \in Nat /\ i \in 1..Len(R)
      /\ \A k \in 1..Len(R) : Q[k] = R[k]
  BY AppendFacts DEF Windows
<1> HIDE DEF Q
<1>2. \A c \in 1..i : Held(R, c, i) => Held(Q, c, i)
  BY <1>1 DEF Held, Present
<1>3. \A S : BadRun(R, i, S) => BadRun(Q, i, S)
  <2> SUFFICES ASSUME NEW S, BadRun(R, i, S) PROVE BadRun(Q, i, S)
    OBVIOUS
  <2>1. \A s \in S : s \in 1..i /\ Q[s].look = "bad"
    BY <1>1 DEF BadRun
  <2>2. ASSUME NEW s \in S, NEW j \in s..i, Present(Q, j) PROVE j \in S
    BY <1>1, <2>1, <2>2 DEF BadRun, Present
  <2> QED BY <2>1, <2>2 DEF BadRun
<1>4. \A S : CleanRows(R, i, S) => CleanRows(Q, i, S)
  <2> SUFFICES ASSUME NEW S, CleanRows(R, i, S) PROVE CleanRows(Q, i, S)
    OBVIOUS
  <2>1. \A s \in S : s \in 1..i /\ Q[s].look = "fine"
    BY <1>1 DEF CleanRows
  <2>2. ASSUME NEW s \in S, NEW j \in s..i PROVE Q[j].look \notin {"bad", "setback"}
    <3>1. j \in 1..Len(R) /\ Q[j] = R[j]
      BY <1>1, <2>1
    <3> QED BY <3>1 DEF CleanRows
  <2> QED BY <2>1, <2>2 DEF CleanRows
<1>5. \A p \in Windows(R) : Withdraws(Q, p, i) => Withdraws(R, p, i)
  BY <1>1 DEF Windows, Withdraws, Present
<1> QED BY <1>2, <1>3, <1>4, <1>5 DEF Q

(* An earned conviction or release of a prefix stays earned. *)
LEMMA OldWindowsOK ==
    ASSUME NEW R \in Seq(Entry), NEW r \in Entry, ConvictionsOK(R), ReleasesOK(R)
    PROVE  LET Q == Append(R, r) IN
           /\ \A i \in Windows(R) : Q[i].verdict = CONFIRMED =>
                  \E c \in 1..i :
                      /\ Held(Q, c, i)
                      /\ \E S \in SUBSET (1..c) :
                            BadRun(Q, c, S) /\ Cardinality(S) >= persistence
           /\ \A p, i \in Windows(R) : Withdraws(Q, p, i) =>
                  \E c \in 1..p :
                      /\ Held(Q, c, p)
                      /\ \E S \in SUBSET ((c+1)..i) :
                            CleanRows(Q, i, S) /\ Cardinality(S) >= clear_persistence
<1> DEFINE Q == Append(R, r)
<1>0. Len(R) \in Nat /\ \A i \in Windows(R) : Q[i] = R[i]
  BY AppendFacts DEF Windows
<1>1. ASSUME NEW i \in Windows(R), Q[i].verdict = CONFIRMED
      PROVE  \E c \in 1..i :
                /\ Held(Q, c, i)
                /\ \E S \in SUBSET (1..c) : BadRun(Q, c, S) /\ Cardinality(S) >= persistence
  <2>1. PICK c \in 1..i :
            /\ Held(R, c, i)
            /\ \E S \in SUBSET (1..c) : BadRun(R, c, S) /\ Cardinality(S) >= persistence
    BY <1>0, <1>1 DEF ConvictionsOK
  <2>2. c \in Windows(R)
    BY <1>0 DEF Windows
  <2> QED BY <2>1, <2>2, PrefixStable
<1>2. ASSUME NEW p \in Windows(R), NEW i \in Windows(R), Withdraws(Q, p, i)
      PROVE  \E c \in 1..p :
                /\ Held(Q, c, p)
                /\ \E S \in SUBSET ((c+1)..i) :
                      CleanRows(Q, i, S) /\ Cardinality(S) >= clear_persistence
  <2>1. Withdraws(R, p, i)
    BY <1>2, PrefixStable
  <2>2. PICK c \in 1..p :
            /\ Held(R, c, p)
            /\ \E S \in SUBSET ((c+1)..i) :
                  CleanRows(R, i, S) /\ Cardinality(S) >= clear_persistence
    BY <2>1 DEF ReleasesOK
  <2>3. PICK S \in SUBSET ((c+1)..i) : CleanRows(R, i, S) /\ Cardinality(S) >= clear_persistence
    BY <2>2
  <2>4. Held(Q, c, p) /\ CleanRows(Q, i, S)
    BY <2>2, <2>3, PrefixStable
  <2> QED BY <2>3, <2>4
<1> QED BY <1>1, <1>2

----------------------------------------------------------------------------
(* Appending a row: one iteration of the loop of decide().                 *)

(* Sets of windows are finite. *)
LEMMA IntervalSubsetFinite ==
    ASSUME NEW i \in Int, NEW j \in Int, NEW S \in SUBSET (i..j)
    PROVE  IsFiniteSet(S) /\ Cardinality(S) \in Nat
<1>1. IsFiniteSet(i..j)
  BY FS_Interval
<1>2. IsFiniteSet(S)
  BY <1>1, FS_Subset
<1> QED BY <1>2, FS_CardinalityType

NewRow(v, s, b) == [look |-> Look(v), verdict |-> s, bad |-> b]

(* The last window of the new table. *)
LEMMA NewRowFacts ==
    ASSUME NEW R \in Seq(Entry), NEW v \in Views, NEW s \in Verdicts, NEW b \in Nat
    PROVE  LET Q == Append(R, NewRow(v, s, b))
               n == Len(R) + 1
           IN  /\ Q \in Seq(Entry)
               /\ n \in Nat \ {0} /\ Len(R) = n - 1 /\ Len(Q) = n
               /\ Q[n].verdict = s /\ Q[n].look = Look(v) /\ Present(Q, n)
               /\ \A i \in 1..(n-1) : Q[i] = R[i]
<1> DEFINE r == NewRow(v, s, b)
<1>1. r \in Row /\ r.verdict = s /\ r.look = Look(v)
  BY LookType DEF Row, NewRow
<1>2. r # NoEvidence
  BY <1>1 DEF NoEvidence, Verdicts, NORMAL, SUSPICIOUS, CONFIRMED
<1>3. r \in Entry
  BY <1>1 DEF Entry
<1> HIDE DEF r
<1> QED BY <1>1, <1>2, <1>3, AppendFacts DEF Present, r

(* The bad streak still counts the run of bad rows at the end. *)
LEMMA BadStreakStep ==
    ASSUME NEW R \in Seq(Entry), NEW v \in Views, NEW s \in Verdicts, NEW b \in Nat,
           NEW b0 \in Nat, BadStreakCounts(R, b0), b = NextBad(v, b0)
    PROVE  BadStreakCounts(Append(R, NewRow(v, s, b)), b)
<1> DEFINE Q == Append(R, NewRow(v, s, b))
           n == Len(R) + 1
<1>0. /\ n \in Nat \ {0} /\ Len(R) = n - 1 /\ Len(Q) = n
      /\ Q[n].look = Look(v) /\ Present(Q, n)
      /\ \A i \in 1..(n-1) : Q[i] = R[i]
  BY NewRowFacts
<1> SUFFICES ASSUME b > 0
             PROVE  \E S \in SUBSET (1..n) :
                       /\ Cardinality(S) = b
                       /\ \A x \in S : Q[x].look = "bad"
                       /\ \A x \in S : \A j \in x..n : Present(Q, j) => j \in S
  BY <1>0 DEF BadStreakCounts, Windows
<1>1. b = b0 + 1 /\ Q[n].look = "bad"
  BY <1>0, LookType DEF NextBad
<1>2. CASE b0 = 0
  <2>1. Cardinality({n}) = 1
    BY FS_Singleton
  <2> QED BY <1>0, <1>1, <1>2, <2>1
<1>3. CASE b0 > 0
  <2>1. PICK S \in SUBSET Windows(R) :
            /\ Cardinality(S) = b0
            /\ \A x \in S : R[x].look = "bad"
            /\ \A x \in S : \A j \in x..Len(R) : Present(R, j) => j \in S
    BY <1>3 DEF BadStreakCounts
  <2>2. S \in SUBSET (1..(n-1)) /\ n \notin S
    BY <1>0 DEF Windows
  <2>3. IsFiniteSet(S)
    <3>1. S \in SUBSET (1..(n-1)) /\ 1 \in Int /\ n - 1 \in Int
      BY <1>0, <2>2
    <3> HIDE DEF n
    <3> QED BY <3>1, IntervalSubsetFinite
  <2>4. Cardinality(S \cup {n}) = b
    BY <1>1, <2>1, <2>2, <2>3, FS_AddElement
  <2>5. \A x \in S \cup {n} : Q[x].look = "bad"
    BY <1>0, <1>1, <2>1, <2>2
  <2>6. ASSUME NEW x \in S \cup {n}, NEW j \in x..n, Present(Q, j) PROVE j \in S \cup {n}
    BY <1>0, <2>1, <2>2, <2>6 DEF Present
  <2>7. S \cup {n} \in SUBSET (1..n)
    BY <1>0, <2>2
  <2> HIDE DEF Q, n
  <2> QED BY <2>4, <2>5, <2>6, <2>7
<1> QED BY <1>2, <1>3

(* Under a conviction, the recovery counter after the row counts the clean *)
(* rows that follow it, whatever the row then decides.                     *)
LEMMA GoodStreakStep ==
    ASSUME NEW R \in Seq(Entry), NEW v \in Views, NEW s \in Verdicts, NEW b \in Nat,
           NEW g0 \in Nat, GoodStreakCounts(R, CONFIRMED, g0)
    PROVE  LET Q == Append(R, NewRow(v, s, b))
           IN  \E c \in Windows(R) :
                  /\ Present(R, c) /\ Held(R, c, Len(R))
                  /\ \E S \in SUBSET ((c+1)..Len(Q)) :
                        CleanRows(Q, Len(Q), S) /\ Cardinality(S) = NextGood(v, g0)
<1> DEFINE Q == Append(R, NewRow(v, s, b))
           n == Len(R) + 1
<1>0. /\ n \in Nat \ {0} /\ Len(R) = n - 1 /\ Len(Q) = n
      /\ Q[n].look = Look(v)
      /\ \A i \in 1..(n-1) : Q[i] = R[i]
  BY NewRowFacts
<1>1. PICK c \in Windows(R) :
          /\ Present(R, c) /\ Held(R, c, Len(R))
          /\ \E S \in SUBSET ((c+1)..Len(R)) :
                CleanRows(R, Len(R), S) /\ Cardinality(S) = g0
  BY DEF GoodStreakCounts
<1>2. PICK S \in SUBSET ((c+1)..Len(R)) : CleanRows(R, Len(R), S) /\ Cardinality(S) = g0
  BY <1>1
<1>3. c \in 1..(n-1) /\ S \in SUBSET ((c+1)..(n-1)) /\ n \notin S
  BY <1>0, <1>2 DEF Windows
<1>4. IsFiniteSet(S)
  <2>1. S \in SUBSET ((c+1)..(n-1)) /\ c + 1 \in Int /\ n - 1 \in Int
    BY <1>0, <1>3
  <2> HIDE DEF n
  <2> QED BY <2>1, IntervalSubsetFinite
<1>5. \A x \in S : Q[x].look = "fine" /\ \A j \in x..(n-1) : Q[j].look \notin {"bad", "setback"}
  BY <1>0, <1>2, <1>3 DEF CleanRows
<1>6. \E T \in SUBSET ((c+1)..n) : CleanRows(Q, n, T) /\ Cardinality(T) = NextGood(v, g0)
  <2> HIDE DEF Q, n
  <2>1. CASE looks_fine(v)
    <3>1. Q[n].look = "fine"
      BY <1>0, <2>1, LookType
    <3>2. Cardinality(S \cup {n}) = NextGood(v, g0)
      <4>1. Cardinality(S \cup {n}) = Cardinality(S) + 1
        BY <1>3, <1>4, FS_AddElement
      <4>2. NextGood(v, g0) = g0 + 1
        BY <2>1 DEF NextGood, Unset
      <4> QED BY <1>2, <4>1, <4>2
    <3>3. CleanRows(Q, n, S \cup {n})
      <4>1. S \cup {n} \subseteq 1..n
        BY <1>0, <1>3
      <4>2. \A x \in S \cup {n} : Q[x].look = "fine"
        BY <1>5, <3>1
      <4>3. ASSUME NEW x \in S \cup {n}, NEW j \in x..n PROVE Q[j].look \notin {"bad", "setback"}
        <5>1. CASE j = n
          BY <3>1, <5>1
        <5>2. CASE j # n
          <6>1. x \in S /\ j \in x..(n-1)
            BY <1>0, <4>1, <5>2
          <6> QED BY <6>1, <1>5
        <5> QED BY <5>1, <5>2
      <4> QED BY <4>1, <4>2, <4>3 DEF CleanRows
    <3>4. S \cup {n} \in SUBSET ((c+1)..n)
      BY <1>0, <1>3
    <3> QED BY <3>2, <3>3, <3>4
  <2>2. CASE ~looks_fine(v) /\ usable(v)
    <3>1. Cardinality({}) = NextGood(v, g0)
      BY <2>2, FS_EmptySet DEF NextGood
    <3>2. CleanRows(Q, n, {})
      BY DEF CleanRows
    <3> QED BY <3>1, <3>2
  <2>3. CASE ~looks_fine(v) /\ ~usable(v)
    <3>1. Q[n].look \notin {"bad", "setback"}
      BY <1>0, <2>3, LookType
    <3>2. Cardinality(S) = NextGood(v, g0)
      BY <1>2, <2>3 DEF NextGood
    <3>3. CleanRows(Q, n, S)
      <4>1. S \subseteq 1..n
        BY <1>0, <1>3
      <4>2. ASSUME NEW x \in S, NEW j \in x..n PROVE Q[j].look \notin {"bad", "setback"}
        <5>1. CASE j = n
          BY <3>1, <5>1
        <5>2. CASE j # n
          <6>1. j \in x..(n-1)
            BY <1>0, <4>1, <5>2
          <6> QED BY <6>1, <1>5
        <5> QED BY <5>1, <5>2
      <4> QED BY <4>1, <4>2, <1>5 DEF CleanRows
    <3>4. S \in SUBSET ((c+1)..n)
      BY <1>0, <1>3
    <3> QED BY <3>2, <3>3, <3>4
  <2> QED BY <2>1, <2>2, <2>3
<1> QED BY <1>0, <1>1, <1>6

(* What NextState says of each transition that matters. *)
LEMMA NextStateFacts ==
    ASSUME NEW v \in Views, NEW s0 \in Verdicts, NEW b \in Nat, NEW g \in Nat \cup {Unset}
    PROVE  LET s == NextState(v, s0, b, g) IN
           /\ s = CONFIRMED /\ s0 = CONFIRMED => g < clear_persistence
           /\ s = CONFIRMED /\ s0 # CONFIRMED => b >= persistence
           /\ s = NORMAL /\ s0 = CONFIRMED => g >= clear_persistence
BY ParamsAssumption DEF NextState, Verdicts, NORMAL, SUSPICIOUS, CONFIRMED, Unset

(* The counters stay in step through one row. *)
LEMMA CounterReadyStep ==
    ASSUME NEW v \in Views, NEW s0 \in Verdicts, NEW b0 \in Nat, NEW g0 \in Nat \cup {Unset},
           CounterReady(s0, b0, g0)
    PROVE  CounterReady(NextState(v, s0, NextBad(v, b0), NextGood(v, g0)),
                        NextBad(v, b0), NextGood(v, g0))
<1> DEFINE b == NextBad(v, b0)
           g == NextGood(v, g0)
           s == NextState(v, s0, b, g)
<1>1. b \in Nat /\ g \in Nat \cup {Unset}
  BY NextTypes
<1>2. b > 0 => g = 0
  BY LookType DEF NextBad, NextGood
<1>3. s0 = CONFIRMED => g \in Nat
  BY ParamsAssumption DEF CounterReady, NextGood, Unset
<1>4. /\ s = CONFIRMED /\ s0 = CONFIRMED => g < clear_persistence
      /\ s = CONFIRMED /\ s0 # CONFIRMED => b >= persistence
  BY <1>1, NextStateFacts
<1> HIDE DEF b, g, s
<1>5. s = CONFIRMED => g \in 0..(clear_persistence - 1)
  BY <1>1, <1>2, <1>3, <1>4, ParamsAssumption
<1> QED BY <1>2, <1>5 DEF CounterReady, b, g, s

(* A row keeps the summary and the safety of the table. *)
LEMMA AppendRow ==
    ASSUME NEW R \in Seq(Entry), NEW v \in Views, NEW s0 \in Verdicts,
           NEW b0 \in Nat, NEW g0 \in Nat \cup {Unset},
           Summary(R, s0, b0, g0), ConvictionsOK(R), ReleasesOK(R)
    PROVE  LET b == NextBad(v, b0)
               g == NextGood(v, g0)
               s == NextState(v, s0, b, g)
               Q == Append(R, NewRow(v, s, b))
           IN  Summary(Q, s, b, g) /\ ConvictionsOK(Q) /\ ReleasesOK(Q)
<1> DEFINE b == NextBad(v, b0)
           g == NextGood(v, g0)
           s == NextState(v, s0, b, g)
           Q == Append(R, NewRow(v, s, b))
           n == Len(R) + 1
<1>1. b \in Nat /\ g \in Nat \cup {Unset} /\ s \in Verdicts
  BY NextTypes
<1>2. /\ n \in Nat \ {0} /\ Len(R) = n - 1 /\ Len(Q) = n
      /\ Q[n].verdict = s /\ Q[n].look = Look(v) /\ Present(Q, n)
      /\ \A i \in 1..(n-1) : Q[i] = R[i]
  BY <1>1, NewRowFacts
<1>3. NewRow(v, s, b) \in Entry
  BY <1>1, LookType DEF NewRow, Row, Entry
<1>4. BadStreakCounts(Q, b)
  BY <1>1, BadStreakStep DEF Summary
<1>5. CounterReady(s, b, g)
  BY CounterReadyStep DEF Summary
<1>6. /\ s = CONFIRMED /\ s0 = CONFIRMED => g < clear_persistence
      /\ s = CONFIRMED /\ s0 # CONFIRMED => b >= persistence
      /\ s = NORMAL /\ s0 = CONFIRMED => g >= clear_persistence
  BY <1>1, NextStateFacts
<1>7. s0 = CONFIRMED =>
        \E c \in Windows(R) :
            /\ Present(R, c) /\ Held(R, c, Len(R))
            /\ \E S \in SUBSET ((c+1)..n) : CleanRows(Q, n, S) /\ Cardinality(S) = g
  <2> SUFFICES ASSUME s0 = CONFIRMED PROVE <1>7!2
    OBVIOUS
  <2>1. g0 \in Nat /\ GoodStreakCounts(R, CONFIRMED, g0)
    BY ParamsAssumption DEF Summary, CounterReady
  <2> QED BY <1>1, <1>2, <2>1, GoodStreakStep
<1>8. LastRowVerdict(R, s0) /\ ConvictionHasRun(R, s0)
  BY DEF Summary
<1>9. /\ \A i \in Windows(R) :
            /\ \A c \in 1..i : Held(R, c, i) => Held(Q, c, i)
            /\ \A S : BadRun(R, i, S) => BadRun(Q, i, S)
  BY <1>3, PrefixStable
<1>10. /\ \A i \in Windows(R) : Q[i].verdict = CONFIRMED =>
              \E c \in 1..i :
                  /\ Held(Q, c, i)
                  /\ \E S \in SUBSET (1..c) :
                        BadRun(Q, c, S) /\ Cardinality(S) >= persistence
       /\ \A p, i \in Windows(R) : Withdraws(Q, p, i) =>
              \E c \in 1..p :
                  /\ Held(Q, c, p)
                  /\ \E S \in SUBSET ((c+1)..i) :
                        CleanRows(Q, i, S) /\ Cardinality(S) >= clear_persistence
  BY <1>3, OldWindowsOK
<1>11. Windows(R) = 1..(n-1) /\ Windows(Q) = 1..n
  BY <1>2 DEF Windows
<1> HIDE DEF b, g, s, Q, n
<1>12. LastRowVerdict(Q, s)
  BY <1>2, <1>11 DEF LastRowVerdict
(* The new row keeps an old conviction held, and starts a new one. *)
<1>13. ASSUME NEW c \in Windows(R), Held(R, c, n - 1), s = CONFIRMED PROVE Held(Q, c, n)
  BY <1>2, <1>11, <1>13 DEF Held, Present
<1>14. s = CONFIRMED => Held(Q, n, n)
  BY <1>2 DEF Held
<1>15. ConvictionHasRun(Q, s)
  <2> SUFFICES ASSUME s = CONFIRMED
               PROVE  \E c \in 1..n :
                         /\ Held(Q, c, n)
                         /\ \E S \in SUBSET (1..c) :
                               BadRun(Q, c, S) /\ Cardinality(S) >= persistence
    BY <1>2, <1>11 DEF ConvictionHasRun
  <2>1. CASE s0 = CONFIRMED
    <3>1. PICK c \in Windows(R) :
              /\ Held(R, c, n - 1)
              /\ \E S \in SUBSET (1..c) : BadRun(R, c, S) /\ Cardinality(S) >= persistence
      BY <1>2, <1>8, <2>1 DEF ConvictionHasRun
    <3>2. Held(Q, c, n) /\ c \in 1..n
      BY <1>2, <1>11, <1>13, <3>1
    <3> QED BY <1>9, <3>1, <3>2
  <2>2. CASE s0 # CONFIRMED
    <3>1. b >= persistence /\ b > 0
      BY <1>1, <1>6, <2>2, ParamsAssumption
    <3>2. PICK S \in SUBSET (1..n) :
              /\ Cardinality(S) = b
              /\ \A x \in S : Q[x].look = "bad"
              /\ \A x \in S : \A j \in x..n : Present(Q, j) => j \in S
      BY <1>2, <1>4, <1>11, <3>1 DEF BadStreakCounts
    <3>3. S # {}
      <4>1. Cardinality({}) = 0
        BY FS_EmptySet
      <4> QED BY <3>1, <3>2, <4>1
    <3>4. n \in S
      <4>1. PICK x \in S : x \in 1..n
        BY <3>3
      <4>2. n \in x..n
        BY <1>2, <4>1
      <4> QED BY <1>2, <3>2, <4>1, <4>2
    <3>5. BadRun(Q, n, S)
      BY <3>2, <3>4 DEF BadRun
    <3> QED BY <1>2, <1>14, <3>1, <3>2, <3>5
  <2> QED BY <2>1, <2>2
<1>16. GoodStreakCounts(Q, s, g)
  <2> SUFFICES ASSUME s = CONFIRMED
               PROVE  \E c \in 1..n :
                         /\ Present(Q, c) /\ Held(Q, c, n)
                         /\ \E S \in SUBSET ((c+1)..n) : CleanRows(Q, n, S) /\ Cardinality(S) = g
    BY <1>2, <1>11 DEF GoodStreakCounts
  <2>1. CASE s0 = CONFIRMED
    <3>1. PICK c \in Windows(R) :
              /\ Present(R, c) /\ Held(R, c, n - 1)
              /\ \E S \in SUBSET ((c+1)..n) : CleanRows(Q, n, S) /\ Cardinality(S) = g
      BY <1>2, <1>7, <2>1
    <3>2. c \in 1..n /\ Present(Q, c) /\ Held(Q, c, n)
      BY <1>2, <1>11, <1>13, <3>1 DEF Present
    <3> QED BY <3>1, <3>2
  <2>2. CASE s0 # CONFIRMED
    <3>1. g = 0
      BY <1>1, <1>5, <1>6, <2>2, ParamsAssumption DEF CounterReady
    <3>2. CleanRows(Q, n, {}) /\ Cardinality({}) = g
      BY <3>1, FS_EmptySet DEF CleanRows
    <3> QED BY <1>2, <1>14, <3>2
  <2> QED BY <2>1, <2>2
<1>17. ConvictionsOK(Q)
  <2> SUFFICES ASSUME NEW i \in 1..n, Q[i].verdict = CONFIRMED
               PROVE  \E c \in 1..i :
                         /\ Held(Q, c, i)
                         /\ \E S \in SUBSET (1..c) :
                               BadRun(Q, c, S) /\ Cardinality(S) >= persistence
    BY <1>11 DEF ConvictionsOK
  <2>1. CASE i = n
    BY <1>2, <1>11, <1>15, <2>1 DEF ConvictionHasRun
  <2>2. CASE i # n
    BY <1>2, <1>10, <1>11, <2>2
  <2> QED BY <2>1, <2>2
<1>18. ReleasesOK(Q)
  <2> SUFFICES ASSUME NEW p \in 1..n, NEW i \in 1..n, Withdraws(Q, p, i)
               PROVE  \E c \in 1..p :
                         /\ Held(Q, c, p)
                         /\ \E S \in SUBSET ((c+1)..i) :
                               CleanRows(Q, i, S) /\ Cardinality(S) >= clear_persistence
    BY <1>11 DEF ReleasesOK
  <2>0. p < i /\ p \in Windows(R)
    BY <1>2, <1>11 DEF Withdraws
  <2>1. CASE i # n
    BY <1>2, <1>10, <1>11, <2>0, <2>1
  <2>2. CASE i = n
    <3>1. /\ R[p].verdict = CONFIRMED /\ s = NORMAL
          /\ \A k \in (p+1)..(n-1) : ~Present(R, k)
      BY <1>2, <1>11, <2>0, <2>2 DEF Withdraws, Present
    <3>2. s0 = CONFIRMED
      BY <1>2, <1>8, <2>0, <3>1 DEF LastRowVerdict, Present, NoEvidence, CONFIRMED
    <3>3. PICK c \in Windows(R) :
              /\ Present(R, c) /\ Held(R, c, n - 1)
              /\ \E S \in SUBSET ((c+1)..n) : CleanRows(Q, n, S) /\ Cardinality(S) = g
      BY <1>2, <1>7, <3>2
    <3>4. c \in 1..p
      BY <1>2, <1>11, <2>0, <3>1, <3>3
    <3>5. Held(Q, c, p)
      BY <1>2, <1>11, <2>0, <3>3, <3>4 DEF Held, Present
    <3>6. g >= clear_persistence
      BY <1>6, <3>1, <3>2
    <3> QED BY <2>2, <3>3, <3>4, <3>5, <3>6
  <2> QED BY <2>1, <2>2
<1> QED BY <1>4, <1>5, <1>12, <1>15, <1>16, <1>17, <1>18 DEF Summary, b, g, s, Q

----------------------------------------------------------------------------
(* Appending a window without a row changes none of it.                    *)

(* So does a window without a row. *)
LEMMA AppendGap ==
    ASSUME NEW R \in Seq(Entry), NEW s \in Verdicts, NEW b \in Nat, NEW g \in Nat \cup {Unset},
           Summary(R, s, b, g), ConvictionsOK(R), ReleasesOK(R)
    PROVE  LET Q == Append(R, NoEvidence)
           IN  Summary(Q, s, b, g) /\ ConvictionsOK(Q) /\ ReleasesOK(Q)
<1> DEFINE Q == Append(R, NoEvidence)
           n == Len(R) + 1
<1>1. NoEvidence \in Entry
  BY DEF Entry
<1>2. /\ n \in Nat \ {0} /\ Len(R) = n - 1 /\ Len(Q) = n
      /\ Q[n] = NoEvidence /\ ~Present(Q, n)
      /\ \A i \in 1..(n-1) : Q[i] = R[i]
  BY <1>1, AppendFacts DEF Present
<1>3. Windows(R) = 1..(n-1) /\ Windows(Q) = 1..n
  BY <1>2 DEF Windows
<1>4. /\ Q[n].verdict \notin {CONFIRMED, NORMAL}
      /\ Q[n].look \notin {"bad", "setback"}
  BY <1>2 DEF NoEvidence, CONFIRMED, NORMAL
<1>5. /\ \A i \in Windows(R) :
            /\ \A c \in 1..i : Held(R, c, i) => Held(Q, c, i)
            /\ \A S : BadRun(R, i, S) => BadRun(Q, i, S)
  BY <1>1, PrefixStable
<1>6. /\ \A i \in Windows(R) : Q[i].verdict = CONFIRMED =>
              \E c \in 1..i :
                  /\ Held(Q, c, i)
                  /\ \E S \in SUBSET (1..c) :
                        BadRun(Q, c, S) /\ Cardinality(S) >= persistence
      /\ \A p, i \in Windows(R) : Withdraws(Q, p, i) =>
              \E c \in 1..p :
                  /\ Held(Q, c, p)
                  /\ \E S \in SUBSET ((c+1)..i) :
                        CleanRows(Q, i, S) /\ Cardinality(S) >= clear_persistence
  BY <1>1, OldWindowsOK
<1> HIDE DEF Q, n
<1>7. ASSUME NEW c \in Windows(R), Held(R, c, n - 1) PROVE Held(Q, c, n)
  BY <1>2, <1>3, <1>7 DEF Held, Present
<1>8. LastRowVerdict(Q, s)
  <2> SUFFICES ASSUME NEW i \in 1..n, Present(Q, i),
                      \A k \in (i+1)..n : ~Present(Q, k)
               PROVE  Q[i].verdict = s
    BY <1>2, <1>3 DEF LastRowVerdict
  <2>1. i \in 1..(n-1) /\ Present(R, i) /\ \A k \in (i+1)..(n-1) : ~Present(R, k)
    BY <1>2 DEF Present
  <2> QED BY <1>2, <1>3, <2>1 DEF Summary, LastRowVerdict
<1>9. BadStreakCounts(Q, b)
  <2> SUFFICES ASSUME b > 0
               PROVE  \E S \in SUBSET (1..n) :
                         /\ Cardinality(S) = b
                         /\ \A x \in S : Q[x].look = "bad"
                         /\ \A x \in S : \A j \in x..n : Present(Q, j) => j \in S
    BY <1>2, <1>3 DEF BadStreakCounts
  <2>1. PICK S \in SUBSET (1..(n-1)) :
            /\ Cardinality(S) = b
            /\ \A x \in S : R[x].look = "bad"
            /\ \A x \in S : \A j \in x..(n-1) : Present(R, j) => j \in S
    BY <1>2, <1>3 DEF Summary, BadStreakCounts
  <2>2. \A x \in S : Q[x].look = "bad"
    BY <1>2, <2>1
  <2>3. ASSUME NEW x \in S, NEW j \in x..n, Present(Q, j) PROVE j \in S
    BY <1>2, <2>1, <2>3 DEF Present
  <2>4. S \in SUBSET (1..n)
    BY <1>2, <2>1
  <2> QED BY <2>1, <2>2, <2>3, <2>4
<1>10. ConvictionHasRun(Q, s)
  <2> SUFFICES ASSUME s = CONFIRMED
               PROVE  \E c \in 1..n :
                         /\ Held(Q, c, n)
                         /\ \E S \in SUBSET (1..c) :
                               BadRun(Q, c, S) /\ Cardinality(S) >= persistence
    BY <1>2, <1>3 DEF ConvictionHasRun
  <2>1. PICK c \in Windows(R) :
            /\ Held(R, c, n - 1)
            /\ \E S \in SUBSET (1..c) : BadRun(R, c, S) /\ Cardinality(S) >= persistence
    BY <1>2 DEF Summary, ConvictionHasRun
  <2>2. Held(Q, c, n) /\ c \in 1..n
    BY <1>2, <1>3, <1>7, <2>1
  <2> QED BY <1>5, <2>1, <2>2
<1>11. GoodStreakCounts(Q, s, g)
  <2> SUFFICES ASSUME s = CONFIRMED
               PROVE  \E c \in 1..n :
                         /\ Present(Q, c) /\ Held(Q, c, n)
                         /\ \E S \in SUBSET ((c+1)..n) : CleanRows(Q, n, S) /\ Cardinality(S) = g
    BY <1>2, <1>3 DEF GoodStreakCounts
  <2>1. PICK c \in Windows(R) :
            /\ Present(R, c) /\ Held(R, c, n - 1)
            /\ \E S \in SUBSET ((c+1)..(n-1)) : CleanRows(R, n - 1, S) /\ Cardinality(S) = g
    BY <1>2 DEF Summary, GoodStreakCounts
  <2>2. PICK S \in SUBSET ((c+1)..(n-1)) : CleanRows(R, n - 1, S) /\ Cardinality(S) = g
    BY <2>1
  <2>3. c \in 1..n /\ Present(Q, c) /\ Held(Q, c, n)
    BY <1>2, <1>3, <1>7, <2>1 DEF Present
  <2>4. CleanRows(Q, n, S)
    <3>1. S \subseteq 1..n /\ S \subseteq 1..(n-1) /\ \A x \in S : R[x].look = "fine"
      BY <1>2, <2>2 DEF CleanRows
    <3>2. ASSUME NEW x \in S, NEW j \in x..n PROVE Q[j].look \notin {"bad", "setback"}
      <4>1. CASE j = n
        BY <1>4, <4>1
      <4>2. CASE j # n
        <5>1. j \in x..(n-1) /\ j \in 1..(n-1)
          BY <1>2, <3>1, <4>2
        <5> QED BY <1>2, <2>2, <5>1 DEF CleanRows
      <4> QED BY <4>1, <4>2
    <3> QED BY <1>2, <3>1, <3>2 DEF CleanRows
  <2>5. S \in SUBSET ((c+1)..n)
    BY <1>2, <2>2, <2>3
  <2> QED BY <2>2, <2>3, <2>4, <2>5
<1>12. ConvictionsOK(Q)
  <2> SUFFICES ASSUME NEW i \in 1..n, Q[i].verdict = CONFIRMED
               PROVE  \E c \in 1..i :
                         /\ Held(Q, c, i)
                         /\ \E S \in SUBSET (1..c) :
                               BadRun(Q, c, S) /\ Cardinality(S) >= persistence
    BY <1>3 DEF ConvictionsOK
  <2>1. i \in Windows(R)
    BY <1>2, <1>3, <1>4
  <2> QED BY <1>6, <2>1
<1>13. ReleasesOK(Q)
  <2> SUFFICES ASSUME NEW p \in 1..n, NEW i \in 1..n, Withdraws(Q, p, i)
               PROVE  \E c \in 1..p :
                         /\ Held(Q, c, p)
                         /\ \E S \in SUBSET ((c+1)..i) :
                               CleanRows(Q, i, S) /\ Cardinality(S) >= clear_persistence
    BY <1>3 DEF ReleasesOK
  <2>1. p \in Windows(R) /\ i \in Windows(R)
    BY <1>2, <1>3, <1>4 DEF Withdraws
  <2> QED BY <1>6, <2>1
<1>14. CounterReady(s, b, g)
  BY DEF Summary
<1> QED BY <1>8, <1>9, <1>10, <1>11, <1>12, <1>13, <1>14 DEF Summary, Q

----------------------------------------------------------------------------
(* The invariant of the specification.                                     *)

(* The inductive invariant holds of empty tables. *)
LEMMA InitIInv == Init => IInv
<1> SUFFICES ASSUME Init PROVE IInv
  OBVIOUS
<1>1. TypeOK
  BY InitType
<1>2. ASSUME NEW t \in Targets
      PROVE  /\ Summary(rows[t], state[t], bad_streak[t], good_streak[t])
             /\ ConvictionsOK(rows[t])
             /\ ReleasesOK(rows[t])
  <2>1. rows[t] = <<>> /\ state[t] = NORMAL /\ bad_streak[t] = 0
    BY DEF Init
  <2>2. Windows(rows[t]) = {} /\ state[t] # CONFIRMED
    BY <2>1 DEF Windows, NORMAL, CONFIRMED
  <2> QED BY <2>1, <2>2 DEF Summary, LastRowVerdict, BadStreakCounts, ConvictionHasRun,
                            GoodStreakCounts, CounterReady, ConvictionsOK, ReleasesOK
<1> QED BY <1>1, <1>2 DEF IInv

(* It is kept by every step. *)
LEMMA NextIInv == IInv /\ [Next]_vars => IInv'
<1> SUFFICES ASSUME IInv, [Next]_vars PROVE IInv'
  OBVIOUS
<1> DEFINE Good(R, s, b, g) == Summary(R, s, b, g) /\ ConvictionsOK(R) /\ ReleasesOK(R)
<1>1. TypeOK /\ TypeOK'
  BY NextType DEF IInv
<1>2. \A t \in Targets : Good(rows[t], state[t], bad_streak[t], good_streak[t])
  BY DEF IInv
<1> SUFFICES \A t \in Targets : Good(rows'[t], state'[t], bad_streak'[t], good_streak'[t])
  BY <1>1 DEF IInv, Good, Summary, LastRowVerdict, BadStreakCounts, ConvictionHasRun,
              GoodStreakCounts, CounterReady, ConvictionsOK, ReleasesOK, Windows, Present,
              Held, BadRun, CleanRows, Withdraws
<1>3. \A t \in Targets : /\ rows[t] \in Seq(Entry) /\ state[t] \in Verdicts
                         /\ bad_streak[t] \in Nat /\ good_streak[t] \in Nat \cup {Unset}
  BY <1>1 DEF TypeOK, Entry
<1> HIDE DEF Good
<1>4. CASE UNCHANGED vars
  BY <1>2, <1>4 DEF vars
<1>5. ASSUME NEW t \in Targets, NoRow(t), NEW u \in Targets
      PROVE  Good(rows'[u], state'[u], bad_streak'[u], good_streak'[u])
  <2>1. /\ rows' = [rows EXCEPT ![t] = Append(rows[t], NoEvidence)]
        /\ UNCHANGED <<state, bad_streak, good_streak>>
    BY <1>5 DEF NoRow
  <2>2. CASE u # t
    BY <1>1, <1>2, <2>1, <2>2 DEF TypeOK
  <2>3. CASE u = t
    <3>1. Good(Append(rows[t], NoEvidence), state[t], bad_streak[t], good_streak[t])
      BY <1>2, <1>3, AppendGap DEF Good
    <3> QED BY <1>1, <2>1, <2>3, <3>1 DEF TypeOK
  <2> QED BY <2>2, <2>3
<1>6. ASSUME NEW t \in Targets, NEW v \in Views, Decide(t, v), NEW u \in Targets
      PROVE  Good(rows'[u], state'[u], bad_streak'[u], good_streak'[u])
  <2> DEFINE b == NextBad(v, bad_streak[t])
             g == NextGood(v, good_streak[t])
             s == NextState(v, state[t], b, g)
  <2>1. /\ bad_streak' = [bad_streak EXCEPT ![t] = b]
        /\ good_streak' = [good_streak EXCEPT ![t] = g]
        /\ state' = [state EXCEPT ![t] = s]
        /\ rows' = [rows EXCEPT ![t] = Append(rows[t], NewRow(v, s, b))]
    BY <1>6 DEF Decide, NewRow
  <2>2. Good(Append(rows[t], NewRow(v, s, b)), s, b, g)
    BY <1>2, <1>3, AppendRow DEF Good
  <2> HIDE DEF b, g, s
  <2>3. CASE u # t
    BY <1>1, <1>2, <2>1, <2>3 DEF TypeOK
  <2>4. CASE u = t
    BY <1>1, <2>1, <2>2, <2>4 DEF TypeOK
  <2> QED BY <2>3, <2>4
<1> QED BY <1>4, <1>5, <1>6 DEF Next

(* It holds in every reachable state. *)
LEMMA Invariance == Spec => []IInv
BY InitIInv, NextIInv, PTL DEF Spec

(* No conviction without `persistence` bad rows in a row, for any          *)
(* parameters (decide.py requirement 4).                                   *)
THEOREM ConvictionIsEarned == Spec => []ConvictionEarned
<1>1. IInv => ConvictionEarned
  BY DEF IInv, ConvictionsOK, ConvictionEarned
<1> QED BY <1>1, Invariance, PTL

(* No release without clear_persistence clean rows after the conviction.   *)
THEOREM ReleaseIsEarned == Spec => []ReleaseEarned
<1>1. IInv => ReleaseEarned
  BY DEF IInv, ReleasesOK, ReleaseEarned
<1> QED BY <1>1, Invariance, PTL

(* decide() never reads good_streak of a target it has not set.            *)
THEOREM RecoveryCounterIsReady == Spec => []RecoveryCounterReady
<1>1. IInv => RecoveryCounterReady
  BY DEF IInv, Summary, CounterReady, RecoveryCounterReady
<1> QED BY <1>1, Invariance, PTL

(* A conviction lasts at least clear_persistence windows: the clean rows   *)
(* of its release need as many windows after the conviction.               *)
THEOREM ConvictionDwells == Spec => []DwellInConfirmed
<1>1. ASSUME IInv, NEW t \in Targets,
             NEW p \in Windows(rows[t]), NEW i \in Windows(rows[t]),
             Withdraws(rows[t], p, i),
             NEW k \in 1..p, i - k < clear_persistence, Present(rows[t], k)
      PROVE  rows[t][k].verdict = CONFIRMED
  <2>1. p \in Nat /\ i \in Nat
    BY <1>1 DEF Windows
  <2>2. PICK c \in 1..p :
            /\ Held(rows[t], c, p)
            /\ \E S \in SUBSET ((c+1)..i) :
                  CleanRows(rows[t], i, S) /\ Cardinality(S) >= clear_persistence
    BY <1>1 DEF IInv, ReleasesOK
  <2>3. PICK S \in SUBSET ((c+1)..i) : Cardinality(S) >= clear_persistence
    BY <2>2
  <2>4. c + 1 \in Int /\ i \in Int
    BY <2>1
  <2>5. /\ IsFiniteSet((c+1)..i)
        /\ Cardinality((c+1)..i) = IF c + 1 > i THEN 0 ELSE i - (c + 1) + 1
    BY <2>4, FS_Interval
  <2>6. Cardinality(S) <= Cardinality((c+1)..i)
    BY <2>5, FS_Subset
  <2>7. Cardinality(S) \in Nat
    BY <2>4, IntervalSubsetFinite
  <2>8. i - c >= clear_persistence
    BY <2>1, <2>3, <2>5, <2>6, <2>7, ParamsAssumption
  <2>9. k \in c..p
    BY <1>1, <2>1, <2>8, ParamsAssumption
  <2> QED BY <1>1, <2>2, <2>9 DEF Held
<1>2. IInv => DwellInConfirmed
  BY <1>1 DEF DwellInConfirmed
<1> QED BY <1>2, Invariance, PTL

----------------------------------------------------------------------------
(* Schedules and replay.                                                   *)

(* The wish of each arm about a target whose table is R, at window w.      *)
Suspected(R, w) == \E i \in 1..w : IsFlagged(R[i].verdict)

Convicted(R, w) == \E i \in 1..w : /\ R[i].verdict = CONFIRMED
                                   /\ \A k \in (i+1)..w : R[k].verdict = "none"

Wanted(a, R, w) == \/ a = "D" /\ Suspected(R, w)
                   \/ a = "E" /\ Convicted(R, w)

Turns(a, R, w) == ~(Wanted(a, R, w) <=> Wanted(a, R, w - 1))

ActionAt(a, R, w) == IF Wanted(a, R, w) THEN "isolate" ELSE "release"

(* S has one event for each turn of arm a in the windows of the tables T   *)
(* that the cursors c have passed, and nothing else.                       *)
IsTurn(a, e, c, T) ==
    /\ e.target \in Targets
    /\ e.time \in 1..c[e.target]
    /\ e = ForAll(e.time, e.target, ActionAt(a, T[e.target], e.time))
    /\ Turns(a, T[e.target], e.time)

Follows(a, S, c, T) ==
    /\ \A e \in S : IsTurn(a, e, c, T)
    /\ \A t \in Targets : \A w \in 1..c[t] :
          Turns(a, T[t], w) => \E e \in S : e.target = t /\ e.time = w

(* A conviction is never followed by a mere suspicion. *)
NoRelapse == \A t \in Targets : \A w \in 1..Len(rows[t]) :
                Convicted(rows[t], w - 1) => rows[t][w].verdict # SUSPICIOUS

Walked ==
    /\ Follows("D", d_rows, cursor, rows)
    /\ Follows("E", e_rows, cursor, rows)
    /\ \A t \in Targets : e_state[t] = "in" <=> Convicted(rows[t], cursor[t])
    /\ \A t \in Targets : Suspected(rows[t], cursor[t]) => \E d \in d_rows : d.target = t

NoOp == ForAll(0, node0, "release")

(* What is still to be run. *)
Remaining ==
    /\ \A e \in pending : e.time >= now /\ (e \in ArmRows(arm) \/ e = NoOp)
    /\ \A t \in Targets : \A w \in (now+1)..MaxWindows :
          Turns(arm, rows[t], w) => \E e \in pending : e.target = t /\ e.time = w

TurnDue(t) == now > 0 /\ \E e \in pending : e.target = t /\ e.time = now

(* The side every observer has t on. *)
Side(t) == IF TurnDue(t) THEN ~Wanted(arm, rows[t], now) ELSE Wanted(arm, rows[t], now)

Sides == \A o, t \in Nodes :
            t \in m_blocked[o] <=> o # t /\ t \in Targets /\ Side(t)

Fresh == /\ arm = "C" /\ now = 0 /\ pending = {}
         /\ m_blocked = [o \in Nodes |-> {}]

Unwritten == /\ cursor = [t \in Targets |-> 0]
             /\ e_state = [t \in Targets |-> "out"]
             /\ d_rows = {} /\ e_rows = {}

(* The inductive invariant. *)
PInv ==
    /\ PipelineTypeOK
    /\ IInv
    /\ NoRelapse
    /\ Walked
    /\ phase # "fatal"
    /\ phase = "decide" => Unwritten
    /\ phase \in {"decide", "schedule"} => Fresh
    /\ phase # "decide" => \A t \in Targets : Len(rows[t]) = MaxWindows
    /\ phase = "replay" => /\ \A t \in Targets : cursor[t] = MaxWindows
                           /\ Remaining
    /\ Sides

----------------------------------------------------------------------------
(* The wishes, window by window.                                           *)

(* Nobody is suspected or convicted before the first window. *)
LEMMA NoWishAtStart ==
    ASSUME NEW R, NEW a
    PROVE  ~Suspected(R, 0) /\ ~Convicted(R, 0) /\ ~Wanted(a, R, 0)
  BY SMT DEF Suspected, Convicted, Wanted

(* How one row changes the wishes. *)
LEMMA WishStep ==
    ASSUME NEW R, NEW w \in Nat \ {0}
    PROVE  /\ Suspected(R, w) <=> Suspected(R, w - 1) \/ IsFlagged(R[w].verdict)
           /\ Convicted(R, w) <=> \/ R[w].verdict = CONFIRMED
                                  \/ R[w].verdict = "none" /\ Convicted(R, w - 1)
<1>1. Suspected(R, w) <=> Suspected(R, w - 1) \/ IsFlagged(R[w].verdict)
  <2>1. \A i : i \in 1..w <=> i \in 1..(w - 1) \/ i = w
    OBVIOUS
  <2> QED
    BY <2>1, Zenon DEF Suspected
<1>2. ASSUME R[w].verdict = CONFIRMED PROVE Convicted(R, w)
  <2>1. w \in 1..w /\ (w + 1)..w = {}
    OBVIOUS
  <2> QED
    BY <2>1, <1>2, Zenon DEF Convicted
<1>3. ASSUME R[w].verdict = "none", Convicted(R, w - 1) PROVE Convicted(R, w)
  <2>1. PICK i \in 1..(w - 1) : /\ R[i].verdict = CONFIRMED
                                /\ \A k \in (i+1)..(w - 1) : R[k].verdict = "none"
    BY <1>3 DEF Convicted
  <2>2. i \in 1..w /\ \A k \in (i+1)..w : k \in (i+1)..(w - 1) \/ k = w
    OBVIOUS
  <2>3. \A k \in (i+1)..w : R[k].verdict = "none"
    BY <2>1, <2>2, <1>3, Zenon
  <2> QED
    BY <2>1, <2>2, <2>3, Zenon DEF Convicted
<1>4. ASSUME Convicted(R, w), R[w].verdict # CONFIRMED
      PROVE  R[w].verdict = "none" /\ Convicted(R, w - 1)
  <2>1. PICK i \in 1..w : /\ R[i].verdict = CONFIRMED
                          /\ \A k \in (i+1)..w : R[k].verdict = "none"
    BY <1>4 DEF Convicted
  <2>2. i # w
    BY <2>1, <1>4
  <2>3. i \in 1..(w - 1) /\ w \in (i+1)..w /\ \A k \in (i+1)..(w - 1) : k \in (i+1)..w
    BY <2>2
  <2> QED
    BY <2>1, <2>3, Zenon DEF Convicted
<1> QED
  BY <1>1, <1>2, <1>3, <1>4

(* A conviction is a suspicion, and suspicion lasts. *)
LEMMA ConvictedIsSuspected ==
    ASSUME NEW R, NEW w \in Nat, Convicted(R, w)
    PROVE  Suspected(R, w)
  BY DEF Convicted, Suspected, IsFlagged

(* A suspicion, once in the table, stays. *)
LEMMA SuspicionLasts ==
    ASSUME NEW R, NEW v \in Nat, NEW w \in Nat, v <= w, Suspected(R, v)
    PROVE  Suspected(R, w)
<1>1. \A i \in 1..v : i \in 1..w
  OBVIOUS
<1> QED
  BY <1>1, Zenon DEF Suspected

(* The wishes at window w depend on the rows up to w only. *)
LEMMA WishStable ==
    ASSUME NEW R, NEW Q, NEW w \in Nat, \A i \in 1..w : Q[i] = R[i], NEW a
    PROVE  /\ Suspected(Q, w) <=> Suspected(R, w)
           /\ Convicted(Q, w) <=> Convicted(R, w)
           /\ Wanted(a, Q, w) <=> Wanted(a, R, w)
<1>1. Suspected(Q, w) <=> Suspected(R, w)
  BY Zenon DEF Suspected
<1>2. Convicted(Q, w) <=> Convicted(R, w)
  <2>1. \A i \in 1..w : \A k \in (i+1)..w : k \in 1..w
    OBVIOUS
  <2> QED
    BY <2>1, Zenon DEF Convicted
<1> QED
  BY <1>1, <1>2 DEF Wanted

----------------------------------------------------------------------------
(* The parts of the invariant while the pipeline has not come that far.    *)

(* Without a row walked there is nothing to follow. *)
LEMMA UnwrittenIsWalked == Unwritten => Walked
<1> SUFFICES ASSUME Unwritten PROVE Walked
  OBVIOUS
<1>1. Follows("D", d_rows, cursor, rows) /\ Follows("E", e_rows, cursor, rows)
  BY SMT DEF Unwritten, Follows
<1>2. \A t \in Targets : cursor[t] = 0 /\ e_state[t] = "out"
  BY DEF Unwritten
<1>3. \A t \in Targets : ~Convicted(rows[t], cursor[t]) /\ ~Suspected(rows[t], cursor[t])
  BY <1>2, NoWishAtStart
<1> QED
  BY <1>1, <1>2, <1>3 DEF Walked

(* Before the replay nobody is blacklisted and nobody should be. *)
LEMMA FreshIsSided == Fresh => Sides
<1> SUFFICES ASSUME Fresh, NEW o \in Nodes, NEW t \in Nodes PROVE ~(t \in m_blocked[o]) /\ ~Side(t)
  BY DEF Sides
<1>1. t \notin m_blocked[o]
  BY DEF Fresh
<1>2. ~TurnDue(t)
  BY DEF Fresh, TurnDue
<1>3. ~Wanted(arm, rows[t], now)
  BY NoWishAtStart DEF Fresh
<1> QED
  BY <1>1, <1>2, <1>3 DEF Side

(* The pipeline starts in the invariant. *)
LEMMA InitPInv == PipelineInit => PInv
<1> SUFFICES ASSUME PipelineInit PROVE PInv
  OBVIOUS
<1>1. IInv /\ TypeOK
  BY InitIInv, InitType DEF PipelineInit
<1>2. Unwritten /\ Fresh /\ phase = "decide"
  BY DEF PipelineInit, Unwritten, Fresh
<1>3. PipelineTypeOK
  BY <1>1, ParamsAssumption DEF PipelineInit, PipelineTypeOK, Arms
<1>4. NoRelapse
  <2>1. \A t \in Targets : Len(rows[t]) = 0
    BY DEF PipelineInit, Init
  <2> QED
    BY <2>1 DEF NoRelapse
<1> QED
  BY <1>1, <1>2, <1>3, <1>4, UnwrittenIsWalked, FreshIsSided DEF PInv

----------------------------------------------------------------------------
(* decide() and the end of its file.                                       *)

(* The rows of decide() never let a conviction fade into a suspicion. *)
LEMMA DecideKeepsNoRelapse ==
    ASSUME IInv, NoRelapse, Next
    PROVE  NoRelapse'
<1> DEFINE OK(R) == \A w \in 1..Len(R) : Convicted(R, w - 1) => R[w].verdict # SUSPICIOUS
<1>1. ASSUME NEW t \in Targets, NEW r \in Entry, rows' = [rows EXCEPT ![t] = Append(@, r)],
             Convicted(rows[t], Len(rows[t])) => r.verdict # SUSPICIOUS
      PROVE  NoRelapse'
  <2>1. rows \in [Targets -> Seq(Entry)]
    BY DEF IInv, TypeOK, Entry
  <2> DEFINE R == rows[t]
             Q == Append(R, r)
  <2>2. /\ R \in Seq(Entry) /\ Len(R) \in Nat /\ Len(Q) = Len(R) + 1
        /\ Q[Len(R) + 1] = r
        /\ \A i \in 1..Len(R) : Q[i] = R[i]
    BY <2>1, AppendFacts
  <2>3. OK(R)
    BY DEF NoRelapse
  <2> HIDE DEF R, Q
  <2>4. ASSUME NEW w \in 1..Len(Q), Convicted(Q, w - 1) PROVE Q[w].verdict # SUSPICIOUS
    <3>1. w - 1 \in Nat /\ \A i \in 1..(w - 1) : Q[i] = R[i]
      BY <2>2
    <3>2. Convicted(R, w - 1)
      BY <2>4, <3>1, WishStable
    <3>3. CASE w = Len(R) + 1
      <4>1. Convicted(R, Len(R))
        BY <3>2, <3>3, <2>2
      <4> QED
        BY <4>1, <1>1, <3>3, <2>2 DEF R
    <3>4. CASE w # Len(R) + 1
      <4>1. w \in 1..Len(R)
        BY <3>4, <2>2
      <4> QED
        BY <4>1, <3>2, <2>2, <2>3
    <3> QED
      BY <3>3, <3>4
  <2>5. OK(Q)
    BY <2>4
  <2>6. \A u \in Targets : rows'[u] = IF u = t THEN Q ELSE rows[u]
    BY <1>1, <2>1 DEF Q, R
  <2>7. \A u \in Targets : OK(rows'[u])
    BY <2>5, <2>6 DEF NoRelapse
  <2> QED
    BY <2>7 DEF NoRelapse
<1>2. ASSUME NEW t \in Targets, NoRow(t) PROVE NoRelapse'
  <2>1. NoEvidence \in Entry /\ NoEvidence.verdict # SUSPICIOUS
    BY DEF Entry, NoEvidence, SUSPICIOUS
  <2> QED
    BY <1>1, <2>1, <1>2 DEF NoRow
<1>3. ASSUME NEW t \in Targets, NEW v \in Views, Decide(t, v) PROVE NoRelapse'
  <2> DEFINE b == NextBad(v, bad_streak[t])
             g == NextGood(v, good_streak[t])
             s == NextState(v, state[t], b, g)
             r == [look |-> Look(v), verdict |-> s, bad |-> b]
  <2>1. b \in Nat /\ g \in Nat \cup {Unset} /\ s \in Verdicts
    <3>1. state[t] \in Verdicts /\ bad_streak[t] \in Nat /\ good_streak[t] \in Nat \cup {Unset}
      BY DEF IInv, TypeOK
    <3> QED
      BY <3>1, NextTypes
  <2>2. r \in Entry
    BY <2>1, LookType DEF Row, Entry
  <2>3. ASSUME Convicted(rows[t], Len(rows[t])) PROVE s # SUSPICIOUS
    <3>0. rows[t] \in Seq(Entry) /\ Len(rows[t]) \in Nat
      BY DEF IInv, TypeOK, Entry
    <3>1. PICK i \in 1..Len(rows[t]) :
             /\ rows[t][i].verdict = CONFIRMED
             /\ \A k \in (i+1)..Len(rows[t]) : rows[t][k].verdict = "none"
      BY <2>3 DEF Convicted
    <3>2. Present(rows[t], i)
      BY <3>1 DEF Present, NoEvidence, CONFIRMED
    <3>3. \A k \in (i+1)..Len(rows[t]) : ~Present(rows[t], k)
      <4>1. \A x \in Entry : x.verdict = "none" => x = NoEvidence
        BY DEF Entry, Row, NoEvidence, Verdicts, NORMAL, SUSPICIOUS, CONFIRMED
      <4>2. \A k \in (i+1)..Len(rows[t]) : rows[t][k] \in Entry
        BY <3>0, <3>1
      <4> QED
        BY <4>1, <4>2, <3>1 DEF Present
    <3>4. state[t] = CONFIRMED
      <4>1. LastRowVerdict(rows[t], state[t])
        BY DEF IInv, Summary
      <4> QED
        BY <4>1, <3>1, <3>2, <3>3 DEF LastRowVerdict, Windows
    <3> QED
      BY <3>4, Zenon DEF NextState, SUSPICIOUS, CONFIRMED, NORMAL
  <2>4. rows' = [rows EXCEPT ![t] = Append(@, r)]
    BY <1>3 DEF Decide
  <2>5. r.verdict = s
    OBVIOUS
  <2> HIDE DEF r, s
  <2> QED
    BY <1>1, <2>2, <2>3, <2>4, <2>5
<1> QED
  BY <1>2, <1>3 DEF Next

(* A row of decide() keeps the invariant. *)
LEMMA DecideKeepsPInv == PInv /\ DecideStep => PInv'
<1> SUFFICES ASSUME PInv, DecideStep PROVE PInv'
  OBVIOUS
<1>1. /\ IInv /\ TypeOK /\ NoRelapse /\ Next /\ phase = "decide"
      /\ UNCHANGED <<phase, sched_vars, replay_vars>>
  BY DEF PInv, DecideStep, IInv
<1>2. IInv' /\ TypeOK' /\ NoRelapse'
  BY <1>1, NextIInv, NextType, DecideKeepsNoRelapse
<1>3. Unwritten' /\ Fresh'
  BY <1>1 DEF PInv, Unwritten, Fresh, sched_vars, replay_vars
<1>4. Walked' /\ Sides'
  BY <1>3, UnwrittenIsWalked, FreshIsSided, PTL
<1>5. PipelineTypeOK'
  BY <1>1, <1>2 DEF PInv, PipelineTypeOK, sched_vars, replay_vars
<1>6. phase' = "decide"
  BY <1>1
<1> QED
  BY <1>2, <1>3, <1>4, <1>5, <1>6 DEF PInv

(* So does the end of its file. *)
LEMMA WriteKeepsPInv == PInv /\ WriteVerdicts => PInv'
<1> SUFFICES ASSUME PInv, WriteVerdicts PROVE PInv'
  OBVIOUS
<1>1. /\ phase = "decide" /\ phase' = "schedule"
      /\ \A t \in Targets : Len(rows[t]) = MaxWindows
      /\ UNCHANGED <<vars, sched_vars, replay_vars>>
  BY DEF WriteVerdicts
<1>2. IInv' /\ NoRelapse'
  <2>1. IInv /\ [Next]_vars /\ UNCHANGED rows
    BY <1>1 DEF PInv, vars
  <2> QED
    BY <2>1, NextIInv DEF PInv, NoRelapse
<1>3. Unwritten' /\ Fresh'
  BY <1>1 DEF PInv, Unwritten, Fresh, sched_vars, replay_vars
<1>4. Walked' /\ Sides'
  BY <1>3, UnwrittenIsWalked, FreshIsSided, PTL
<1>5. PipelineTypeOK'
  BY <1>1, <1>2 DEF PInv, PipelineTypeOK, sched_vars, replay_vars, IInv
<1>6. \A t \in Targets : Len(rows[t])' = MaxWindows
  BY <1>1 DEF vars
<1> QED
  BY <1>1, <1>2, <1>3, <1>4, <1>5, <1>6 DEF PInv

----------------------------------------------------------------------------
(* build_schedules().                                                      *)

(* Walking one more row of t: an event if the wish turns there, or none.   *)
LEMMA FollowsStep ==
    ASSUME NEW a, NEW S, NEW T, NEW c \in [Targets -> Nat], NEW t \in Targets, NEW E,
           Follows(a, S, c, T),
           \/ Turns(a, T[t], c[t] + 1) /\ E = {ForAll(c[t] + 1, t, ActionAt(a, T[t], c[t] + 1))}
           \/ ~Turns(a, T[t], c[t] + 1) /\ E = {}
    PROVE  Follows(a, S \cup E, [c EXCEPT ![t] = c[t] + 1], T)
<1> DEFINE w == c[t] + 1
           d == [c EXCEPT ![t] = w]
<1>1. /\ w \in Nat /\ w \in 1..w
      /\ \A u \in Targets : d[u] = IF u = t THEN w ELSE c[u]
      /\ \A u \in Targets : \A v \in 1..c[u] : v \in 1..d[u]
      /\ \A u \in Targets : \A v \in 1..d[u] : v \in 1..c[u] \/ (u = t /\ v = w)
  OBVIOUS
<1> HIDE DEF d
<1>2. ASSUME NEW e \in S PROVE IsTurn(a, e, d, T)
  <2>1. IsTurn(a, e, c, T)
    BY DEF Follows
  <2> QED
    BY <2>1, <1>1, Zenon DEF IsTurn
<1>3. ASSUME NEW e \in E PROVE IsTurn(a, e, d, T)
  <2>1. Turns(a, T[t], w) /\ e = ForAll(w, t, ActionAt(a, T[t], w))
    OBVIOUS
  <2>2. e.target = t /\ e.time = w
    BY <2>1 DEF ForAll
  <2>3. d[t] = w
    BY <1>1
  <2> HIDE DEF w
  <2> QED
    BY <2>1, <2>2, <2>3, <1>1, Zenon DEF IsTurn
<1>4. ASSUME NEW u \in Targets, NEW v \in 1..d[u], Turns(a, T[u], v)
      PROVE  \E e \in S \cup E : e.target = u /\ e.time = v
  <2>1. CASE v \in 1..c[u]
    BY <2>1, <1>4 DEF Follows
  <2>2. CASE u = t /\ v = w
    <3> DEFINE e == ForAll(w, t, ActionAt(a, T[t], w))
    <3>1. e \in E
      BY <2>2, <1>4
    <3>2. e.target = u /\ e.time = v
      BY <2>2 DEF ForAll
    <3> QED
      BY <3>1, <3>2, Zenon
  <2> QED
    BY <2>1, <2>2, <1>1
<1> QED
  BY <1>2, <1>3, <1>4 DEF Follows, d

(* Arm D: the first flagged row is where the wish turns. *)
LEMMA DTurn ==
    ASSUME NEW S, NEW T, NEW c \in [Targets -> Nat], NEW t \in Targets, NEW x,
           Follows("D", S, c, T),
           Suspected(T[t], c[t]) => \E d \in S : d.target = t,
           x = T[t][c[t] + 1].verdict
    PROVE  LET w == c[t] + 1 IN
           \/ Turns("D", T[t], w) /\ DEvents(w, t, x, S) = {ForAll(w, t, ActionAt("D", T[t], w))}
           \/ ~Turns("D", T[t], w) /\ DEvents(w, t, x, S) = {}
<1> DEFINE w == c[t] + 1
           before == Suspected(T[t], c[t])
<1>1. w \in Nat \ {0} /\ w - 1 = c[t] /\ c[t] \in Nat
  OBVIOUS
<1>2. /\ Wanted("D", T[t], w) <=> before \/ IsFlagged(x)
      /\ Wanted("D", T[t], w - 1) <=> before
  BY <1>1, WishStep DEF Wanted
<1>3. ASSUME NEW d \in S, d.target = t PROVE before
  <2>1. d.time \in 1..c[t] /\ Turns("D", T[t], d.time)
    BY <1>3 DEF Follows, IsTurn
  <2>2. Suspected(T[t], d.time) \/ Suspected(T[t], d.time - 1)
    BY <2>1 DEF Turns, Wanted
  <2> QED
    BY <2>1, <2>2, <1>1, SuspicionLasts
<1>4. before <=> \E d \in S : d.target = t
  BY <1>3
<1>5. CASE IsFlagged(x) /\ ~before
  <2>1. Turns("D", T[t], w) /\ ActionAt("D", T[t], w) = "isolate"
    BY <1>2, <1>5 DEF Turns, ActionAt
  <2> QED
    BY <2>1, <1>4, <1>5 DEF DEvents
<1>6. CASE ~IsFlagged(x) \/ before
  <2>1. ~Turns("D", T[t], w)
    BY <1>2, <1>6 DEF Turns
  <2> QED
    BY <2>1, <1>4, <1>6 DEF DEvents
<1> QED
  BY <1>5, <1>6

(* Arm E: the state of the loop and the verdict of the row give the turn.  *)
LEMMA ETurn ==
    ASSUME NEW R, NEW w \in Nat \ {0}, NEW st \in {"in", "out"},
           NEW x \in Verdicts \cup {"none"}, x = R[w].verdict,
           st = "in" <=> Convicted(R, w - 1),
           Convicted(R, w - 1) => x # SUSPICIOUS
    PROVE  LET a == EAction(st, x) IN
           /\ EStateAfter(st, a) = "in" <=> Convicted(R, w)
           /\ \/ Turns("E", R, w) /\ a # "none" /\ a = ActionAt("E", R, w)
              \/ ~Turns("E", R, w) /\ a = "none"
<1> DEFINE a == EAction(st, x)
<1>1. /\ Wanted("E", R, w) <=> Convicted(R, w)
      /\ Wanted("E", R, w - 1) <=> Convicted(R, w - 1)
      /\ Convicted(R, w) <=> \/ x = CONFIRMED
                             \/ x = "none" /\ Convicted(R, w - 1)
  BY WishStep DEF Wanted
<1>2. CASE st = "out" /\ x = CONFIRMED
  <2>1. a = "isolate" /\ Convicted(R, w) /\ ~Convicted(R, w - 1)
    BY <1>1, <1>2 DEF EAction
  <2> QED
    BY <2>1, <1>1 DEF Turns, ActionAt, EStateAfter
<1>3. CASE st = "in" /\ x = NORMAL
  <2>1. a = "release" /\ ~Convicted(R, w) /\ Convicted(R, w - 1)
    BY <1>1, <1>3 DEF EAction, CONFIRMED, NORMAL
  <2> QED
    BY <2>1, <1>1 DEF Turns, ActionAt, EStateAfter
<1>4. CASE ~(st = "out" /\ x = CONFIRMED) /\ ~(st = "in" /\ x = NORMAL)
  <2>1. a = "none"
    BY <1>4, Zenon DEF EAction
  <2>2. x \in {CONFIRMED, NORMAL, SUSPICIOUS, "none"}
    BY DEF Verdicts
  <2>3. Convicted(R, w) <=> Convicted(R, w - 1)
    BY <1>1, <1>4, <2>2
  <2>4. EStateAfter(st, a) = st
    BY <2>1 DEF EStateAfter
  <2> QED
    BY <2>1, <2>3, <2>4, <1>1 DEF Turns
<1> QED
  BY <1>2, <1>3, <1>4

(* A row walked keeps the invariant. *)
LEMMA RowKeepsPInv ==
    ASSUME PInv, NEW t \in Targets, ScheduleRow(t)
    PROVE  PInv'
<1> DEFINE w == cursor[t] + 1
           x == rows[t][w].verdict
           a == EAction(e_state[t], x)
           E == IF a = "none" THEN {} ELSE {ForAll(w, t, a)}
<1>1. /\ phase = "schedule" /\ cursor[t] < MaxWindows
      /\ cursor' = [cursor EXCEPT ![t] = w]
      /\ d_rows' = d_rows \cup DEvents(w, t, x, d_rows)
      /\ e_state' = [e_state EXCEPT ![t] = EStateAfter(e_state[t], a)]
      /\ e_rows' = e_rows \cup E
      /\ UNCHANGED <<vars, phase, replay_vars>>
  BY DEF ScheduleRow
<1>2. /\ cursor \in [Targets -> 0..MaxWindows] /\ MaxWindows \in Nat
      /\ e_state \in [Targets -> {"out", "in"}]
      /\ rows \in [Targets -> Seq(Entry)]
      /\ Len(rows[t]) = MaxWindows
      /\ w \in 1..MaxWindows /\ w - 1 = cursor[t]
  BY <1>1, ParamsAssumption DEF PInv, PipelineTypeOK, TypeOK, Entry
<1>3. rows[t][w] \in Entry /\ x \in Verdicts \cup {"none"}
  <2>1. rows[t][w] \in Entry
    BY <1>2
  <2> QED
    BY <2>1 DEF Entry, Row, NoEvidence
<1>4. cursor \in [Targets -> Nat] /\ w \in Nat \ {0}
  BY <1>2
<1>5. rows' = rows
  BY <1>1 DEF vars
<1>6. Follows("D", d_rows', cursor', rows')
  <2>1. /\ Follows("D", d_rows, cursor, rows)
        /\ Suspected(rows[t], cursor[t]) => \E d \in d_rows : d.target = t
    BY DEF PInv, Walked
  <2>2. LET v == cursor[t] + 1 IN
        \/ /\ Turns("D", rows[t], v)
           /\ DEvents(v, t, x, d_rows) = {ForAll(v, t, ActionAt("D", rows[t], v))}
        \/ ~Turns("D", rows[t], v) /\ DEvents(v, t, x, d_rows) = {}
    BY <2>1, <1>4, DTurn
  <2>3. Follows("D", d_rows \cup DEvents(w, t, x, d_rows), [cursor EXCEPT ![t] = w], rows)
    BY <2>1, <2>2, <1>4, FollowsStep
  <2> QED
    BY <2>3, <1>1, <1>5
<1>7. /\ Follows("E", e_rows', cursor', rows')
      /\ EStateAfter(e_state[t], a) = "in" <=> Convicted(rows[t], w)
  <2>1. /\ Follows("E", e_rows, cursor, rows)
        /\ e_state[t] = "in" <=> Convicted(rows[t], w - 1)
        /\ Convicted(rows[t], w - 1) => x # SUSPICIOUS
        /\ e_state[t] \in {"in", "out"}
    BY <1>2 DEF PInv, Walked, NoRelapse
  <2>2. /\ EStateAfter(e_state[t], a) = "in" <=> Convicted(rows[t], w)
        /\ \/ Turns("E", rows[t], w) /\ a # "none" /\ a = ActionAt("E", rows[t], w)
           \/ ~Turns("E", rows[t], w) /\ a = "none"
    BY <2>1, <1>3, <1>4, ETurn
  <2>3. \/ Turns("E", rows[t], w) /\ E = {ForAll(w, t, ActionAt("E", rows[t], w))}
        \/ ~Turns("E", rows[t], w) /\ E = {}
    BY <2>2
  <2> HIDE DEF E, a
  <2>4. Follows("E", e_rows \cup E, [cursor EXCEPT ![t] = w], rows)
    BY <2>1, <2>3, <1>4, FollowsStep
  <2> QED
    BY <2>2, <2>4, <1>1, <1>5
<1>8. \A u \in Targets : e_state'[u] = "in" <=> Convicted(rows'[u], cursor'[u])
  BY <1>1, <1>2, <1>5, <1>7 DEF PInv, Walked
<1>9. \A u \in Targets : Suspected(rows'[u], cursor'[u]) => \E d \in d_rows' : d.target = u
  <2> SUFFICES ASSUME NEW u \in Targets, Suspected(rows[u], cursor'[u])
               PROVE  \E d \in d_rows' : d.target = u
    BY <1>5
  <2>1. CASE u # t
    <3>1. cursor'[u] = cursor[u] /\ d_rows \subseteq d_rows'
      BY <2>1, <1>1, <1>2
    <3> QED
      BY <3>1 DEF PInv, Walked
  <2>2. CASE u = t
    <3>1. Suspected(rows[t], w - 1) \/ IsFlagged(x)
      BY <2>2, <1>1, <1>2, <1>4, WishStep
    <3>2. CASE \E d \in d_rows : d.target = t
      BY <3>2, <2>2, <1>1
    <3>3. CASE IsFlagged(x) /\ ~ \E d \in d_rows : d.target = t
      <4>1. ForAll(w, t, "isolate") \in d_rows'
        BY <3>3, <1>1 DEF DEvents
      <4> QED
        BY <4>1, <2>2 DEF ForAll
    <3> QED
      BY <3>1, <3>2, <3>3, <1>2 DEF PInv, Walked
  <2> QED
    BY <2>1, <2>2
<1>10. Walked'
  BY <1>6, <1>7, <1>8, <1>9 DEF Walked
<1>11. PipelineTypeOK'
  <2>1. a \in {"isolate", "release", "none"} /\ EStateAfter(e_state[t], a) \in {"out", "in"}
    <3>1. a \in {"isolate", "release", "none"}
      BY Zenon DEF EAction
    <3> QED
      BY <3>1, <1>2 DEF EStateAfter
  <2>2. t \in Nodes
    BY NodesAssumption
  <2>3. \A z \in {"isolate", "release"} : ForAll(w, t, z) \in Event
    BY <2>2, <1>2 DEF ForAll, Event
  <2>4. DEvents(w, t, x, d_rows) \subseteq Event /\ E \subseteq Event
    BY <2>1, <2>3 DEF DEvents
  <2> HIDE DEF E, a, x
  <2>5. /\ cursor' \in [Targets -> 0..MaxWindows]
        /\ e_state' \in [Targets -> {"out", "in"}]
        /\ d_rows' \in SUBSET Event /\ e_rows' \in SUBSET Event
    BY <2>1, <2>4, <1>1, <1>2 DEF PInv, PipelineTypeOK
  <2> QED
    BY <2>5, <1>1 DEF PInv, PipelineTypeOK, TypeOK, vars, replay_vars
<1>12. IInv' /\ NoRelapse' /\ Fresh'
  <2>1. IInv /\ [Next]_vars
    BY <1>1 DEF PInv, vars
  <2> QED
    BY <2>1, <1>1, <1>5, NextIInv DEF PInv, NoRelapse, Fresh, replay_vars
<1>13. Sides'
  BY <1>12, FreshIsSided, PTL
<1>14. phase' = "schedule" /\ \A u \in Targets : Len(rows'[u]) = MaxWindows
  BY <1>1, <1>5 DEF PInv
<1> QED
  BY <1>10, <1>11, <1>12, <1>13, <1>14 DEF PInv

----------------------------------------------------------------------------
(* The replay.                                                             *)

(* The rows of every arm follow its wish; arm C never wants anything.      *)
LEMMA ArmFollows ==
    ASSUME Walked, NEW a \in Arms
    PROVE  Follows(a, ArmRows(a), cursor, rows)
<1>1. CASE a = "C"
  <2>1. \A R, w : ~Turns(a, R, w)
    BY <1>1 DEF Turns, Wanted
  <2> QED
    BY <2>1, <1>1 DEF ArmRows, Follows
<1>2. CASE a = "D"
  BY <1>2 DEF ArmRows, Walked
<1>3. CASE a = "E"
  BY <1>3 DEF ArmRows, Walked
<1> QED
  BY <1>1, <1>2, <1>3 DEF Arms

(* Loading a schedule leaves exactly the turns of its arm to be run. *)
LEMMA LoadKeepsPInv ==
    ASSUME PInv, NEW a \in Arms, LoadIsolationSchedule(a)
    PROVE  PInv'
<1>1. /\ phase = "schedule" /\ arm' = a
      /\ \A t \in Targets : cursor[t] = MaxWindows
      /\ pending' = ScheduleFile(ArmRows(a))
      /\ phase' = IF pending' = {} THEN "fatal" ELSE "replay"
      /\ UNCHANGED <<vars, sched_vars, now, m_blocked, m_isolationCount>>
  BY DEF LoadIsolationSchedule
<1>2. Walked /\ Fresh /\ PipelineTypeOK /\ MaxWindows \in Nat
  BY <1>1, ParamsAssumption DEF PInv
<1>3. Follows(a, ArmRows(a), cursor, rows)
  BY <1>2, ArmFollows
<1>4. pending' # {} /\ phase' = "replay"
  BY <1>1 DEF ScheduleFile
<1>5. now = 0 /\ now' = 0 /\ rows' = rows /\ cursor' = cursor /\ ArmRows(a)' = ArmRows(a)
  BY <1>1, <1>2 DEF Fresh, vars, sched_vars, ArmRows
<1>6. Remaining'
  <2>1. ASSUME NEW e \in pending' PROVE e.time >= 0 /\ (e \in ArmRows(a) \/ e = NoOp)
    <3>1. CASE e \in ArmRows(a)
      <4>1. IsTurn(a, e, cursor, rows)
        BY <3>1, <1>3 DEF Follows
      <4> QED
        BY <3>1, <4>1, <1>1, <1>2 DEF IsTurn
    <3>2. CASE e = NoOp
      BY <3>2 DEF NoOp, ForAll
    <3> QED
      BY <3>1, <3>2, <1>1 DEF ScheduleFile, NoOp
  <2>2. ASSUME NEW t \in Targets, NEW w \in 1..MaxWindows, Turns(a, rows[t], w)
        PROVE  \E e \in pending' : e.target = t /\ e.time = w
    <3>1. PICK e \in ArmRows(a) : e.target = t /\ e.time = w
      BY <2>2, <1>1, <1>3 DEF Follows
    <3>2. pending' = ArmRows(a)
      BY <3>1, <1>1 DEF ScheduleFile
    <3> QED
      BY <3>1, <3>2
  <2> QED
    BY <2>1, <2>2, <1>1, <1>5 DEF Remaining
<1>7. Sides'
  <2>1. \A t : ~TurnDue(t)' /\ ~Wanted(a, rows'[t], 0)
    BY <1>5, NoWishAtStart DEF TurnDue
  <2>2. \A t : ~Side(t)'
    BY <2>1, <1>1, <1>5 DEF Side
  <2>3. \A o \in Nodes : m_blocked'[o] = {}
    BY <1>1, <1>2 DEF Fresh
  <2> QED
    BY <2>2, <2>3 DEF Sides
<1>8. PipelineTypeOK'
  <2>1. NoOp \in Event
    BY NodesAssumption, <1>2 DEF NoOp, ForAll, Event
  <2>2. pending' \in SUBSET Event
    BY <2>1, <1>1, <1>2 DEF ScheduleFile, NoOp, PipelineTypeOK, ArmRows, Arms
  <2> QED
    BY <2>2, <1>1, <1>2, <1>4 DEF PipelineTypeOK, TypeOK, vars, sched_vars
<1>9. IInv' /\ NoRelapse'
  <2>1. IInv /\ [Next]_vars
    BY <1>1 DEF PInv, vars
  <2> QED
    BY <2>1, <1>5, NextIInv DEF PInv, NoRelapse
<1>10. Walked'
  BY <1>1, <1>2, <1>5 DEF Walked, sched_vars
<1>11. \A t \in Targets : Len(rows'[t]) = MaxWindows /\ cursor'[t] = MaxWindows
  BY <1>1, <1>5 DEF PInv
<1> QED
  BY <1>4, <1>6, <1>7, <1>8, <1>9, <1>10, <1>11 DEF PInv

(* A pending event is the no-op or the turn of its arm at its window.      *)
LEMMA PendingIsTurn ==
    ASSUME PInv, phase = "replay", NEW e \in pending
    PROVE  \/ e = NoOp /\ e.time = 0 /\ now = 0 /\ e.target = node0
           \/ /\ e.target \in Targets /\ e.time \in 1..MaxWindows /\ e.time >= now
              /\ e = ForAll(e.time, e.target, ActionAt(arm, rows[e.target], e.time))
              /\ Turns(arm, rows[e.target], e.time)
<1>1. /\ Remaining /\ Walked /\ arm \in Arms /\ now \in Nat
      /\ \A t \in Targets : cursor[t] = MaxWindows
  BY ParamsAssumption DEF PInv, PipelineTypeOK
<1>2. Follows(arm, ArmRows(arm), cursor, rows)
  BY <1>1, ArmFollows
<1>3. CASE e = NoOp
  BY <1>3, <1>1 DEF NoOp, ForAll, Remaining
<1>4. CASE e \in ArmRows(arm)
  <2>1. IsTurn(arm, e, cursor, rows) /\ e.time >= now
    BY <1>4, <1>1, <1>2 DEF Follows, Remaining
  <2> QED
    BY <2>1, <1>1 DEF IsTurn
<1> QED
  BY <1>1, <1>3, <1>4 DEF Remaining

(* Simulated time moves on: who turns at the new window has an event due. *)
LEMMA TickKeepsPInv == PInv /\ Tick => PInv'
<1> SUFFICES ASSUME PInv, Tick PROVE PInv'
  OBVIOUS
<1>1. /\ phase = "replay" /\ now < MaxWindows /\ now' = now + 1
      /\ \A e \in pending : e.time > now
      /\ UNCHANGED <<vars, phase, sched_vars, arm, pending, m_blocked, m_isolationCount>>
  BY DEF Tick
<1>2. /\ Remaining /\ Sides /\ PipelineTypeOK /\ now \in Nat /\ MaxWindows \in Nat
      /\ \A t \in Targets : cursor[t] = MaxWindows
  BY <1>1, ParamsAssumption DEF PInv, PipelineTypeOK
<1>3. rows' = rows /\ arm' = arm /\ pending' = pending /\ m_blocked' = m_blocked
  BY <1>1 DEF vars
<1>4. \A e \in pending : e.time \in Nat /\ e.time >= now + 1
  <2>1. \A e \in pending : e.time \in 0..MaxWindows
    BY <1>2 DEF PipelineTypeOK, Event
  <2> QED
    BY <2>1, <1>1, <1>2
<1>5. Remaining'
  <2>1. \A e \in pending : e.time >= now' /\ (e \in ArmRows(arm)' \/ e = NoOp)
    BY <1>1, <1>2, <1>4 DEF Remaining, ArmRows, sched_vars
  <2>2. \A w \in (now' + 1)..MaxWindows : w \in (now + 1)..MaxWindows
    BY <1>1, <1>2
  <2> QED
    BY <2>1, <2>2, <1>2, <1>3 DEF Remaining
<1>6. \A t \in Targets : Side(t)' <=> Side(t)
  <2> SUFFICES ASSUME NEW t \in Targets PROVE Side(t)' <=> Side(t)
    OBVIOUS
  <2>1. Side(t) <=> Wanted(arm, rows[t], now)
    <3>1. ~TurnDue(t)
      BY <1>1, <1>2, <1>4 DEF TurnDue
    <3> QED
      BY <3>1 DEF Side
  <2>2. TurnDue(t)' <=> \E e \in pending : e.target = t /\ e.time = now + 1
    BY <1>1, <1>2 DEF TurnDue
  <2>3. TurnDue(t)' <=> Turns(arm, rows[t], now + 1)
    <3>1. ASSUME NEW e \in pending, e.target = t, e.time = now + 1
          PROVE  Turns(arm, rows[t], now + 1)
      BY <3>1, <1>1, <1>2, PendingIsTurn
    <3>2. now + 1 \in (now + 1)..MaxWindows
      BY <1>1, <1>2
    <3>3. ASSUME Turns(arm, rows[t], now + 1)
          PROVE  \E e \in pending : e.target = t /\ e.time = now + 1
      BY <3>2, <3>3, <1>2 DEF Remaining
    <3> QED
      BY <2>2, <3>1, <3>3
  <2>4. Side(t)' <=> IF TurnDue(t)' THEN ~Wanted(arm, rows[t], now + 1)
                                    ELSE Wanted(arm, rows[t], now + 1)
    BY <1>1, <1>3 DEF Side
  <2>5. (now + 1) - 1 = now
    BY <1>2
  <2> QED
    BY <2>1, <2>3, <2>4, <2>5 DEF Turns
<1>7. Sides'
  BY <1>2, <1>3, <1>6 DEF Sides
<1>8. PipelineTypeOK' /\ Walked'
  BY <1>1, <1>2 DEF PInv, PipelineTypeOK, TypeOK, Walked, vars, sched_vars
<1>9. IInv' /\ NoRelapse'
  <2>1. IInv /\ [Next]_vars
    BY <1>1 DEF PInv, vars
  <2> QED
    BY <2>1, <1>3, NextIInv DEF PInv, NoRelapse
<1>10. phase' = "replay" /\ \A t \in Targets : Len(rows'[t]) = MaxWindows /\ cursor'[t] = MaxWindows
  BY <1>1, <1>2, <1>3 DEF PInv, sched_vars
<1> QED
  BY <1>5, <1>7, <1>8, <1>9, <1>10 DEF PInv

(* What running one event does: the no-op changes nothing, and a turn puts *)
(* its target, and no other, on the side the arm wants it on by now.       *)
LEMMA ApplyEffect ==
    ASSUME PInv, NEW e \in pending, ApplyIsolationEvent(e)
    PROVE  \/ /\ now = 0 /\ e.time = 0
              /\ UNCHANGED <<m_blocked, m_isolationCount>>
              /\ \A t \in Targets : Side(t)' <=> Side(t)
           \/ /\ now > 0 /\ e.target \in Targets
              /\ Side(e.target) <=> ~Wanted(arm, rows[e.target], now)
              /\ Side(e.target)' <=> Wanted(arm, rows[e.target], now)
              /\ \A t \in Targets : t # e.target => (Side(t)' <=> Side(t))
              /\ IF Wanted(arm, rows[e.target], now)
                 THEN /\ m_blocked' = Isolate(Nodes \ {e.target}, e.target)
                      /\ m_isolationCount' = m_isolationCount + Cardinality(Nodes \ {e.target})
                 ELSE /\ m_blocked' = Release(Nodes \ {e.target}, e.target)
                      /\ UNCHANGED m_isolationCount
<1> DEFINE t == e.target
<1>1. /\ phase = "replay" /\ e.time = now
      /\ pending' = pending \ {e}
      /\ UNCHANGED <<vars, phase, sched_vars, arm, now>>
  BY DEF ApplyIsolationEvent
<1>2. /\ now' = now /\ arm' = arm /\ rows' = rows
      /\ now \in Nat /\ Sides /\ m_blocked \in [Nodes -> SUBSET Nodes]
  BY <1>1, ParamsAssumption DEF vars, PInv, PipelineTypeOK
<1>3. CASE now = 0
  <2>1. e = NoOp
    BY <1>1, <1>3, PendingIsTurn
  <2>2. \A u \in Targets : ~Side(u) /\ ~Side(u)'
    <3>1. \A u \in Targets : ~TurnDue(u) /\ ~TurnDue(u)' /\ ~Wanted(arm, rows[u], now)
      BY <1>2, <1>3, NoWishAtStart DEF TurnDue
    <3> QED
      BY <3>1, <1>2 DEF Side
  <2>3. \A o \in Nodes : m_blocked[o] = {}
    BY <2>2, <1>2 DEF Sides
  <2>4. UNCHANGED <<m_blocked, m_isolationCount>>
    <3>1. m_blocked' = Release(Reached(e), e.target) /\ UNCHANGED m_isolationCount
      BY <2>1 DEF ApplyIsolationEvent, NoOp, ForAll
    <3>2. Release(Reached(e), e.target) = m_blocked
      BY <2>3, <1>2 DEF Release
    <3> QED
      BY <3>1, <3>2
  <2> QED
    BY <2>2, <2>4, <1>1, <1>3
<1>4. CASE now > 0
  <2>1. /\ t \in Targets /\ e = ForAll(now, t, ActionAt(arm, rows[t], now))
        /\ Turns(arm, rows[t], now)
    BY <1>1, <1>4, PendingIsTurn
  <2>2. e.observer = "all" /\ e.action = ActionAt(arm, rows[t], now)
    BY <2>1 DEF ForAll
  <2>3. ASSUME NEW d \in pending, d.target = t, d.time = now PROVE d = e
    BY <2>1, <2>3, <1>1, <1>4, PendingIsTurn
  <2>4. TurnDue(t) /\ ~TurnDue(t)'
    BY <2>3, <1>1, <1>2, <1>4 DEF TurnDue
  <2>5. \A u \in Targets : u # t => (TurnDue(u)' <=> TurnDue(u))
    BY <1>1, <1>2 DEF TurnDue
  <2>6. /\ Side(t) <=> ~Wanted(arm, rows[t], now)
        /\ Side(t)' <=> Wanted(arm, rows[t], now)
        /\ \A u \in Targets : u # t => (Side(u)' <=> Side(u))
    BY <2>4, <2>5, <1>2 DEF Side
  <2>7. Reached(e) = Nodes \ {t}
    BY <2>2 DEF Reached
  <2>8. IF Wanted(arm, rows[t], now)
        THEN /\ m_blocked' = Isolate(Nodes \ {t}, t)
             /\ m_isolationCount' = m_isolationCount + Cardinality(Nodes \ {t})
        ELSE /\ m_blocked' = Release(Nodes \ {t}, t)
             /\ UNCHANGED m_isolationCount
    BY <2>2, <2>7 DEF ApplyIsolationEvent, ActionAt
  <2> QED
    BY <2>1, <2>6, <2>8, <1>4
<1> QED
  BY <1>2, <1>3, <1>4

(* An event run keeps the invariant. *)
LEMMA ApplyKeepsPInv ==
    ASSUME PInv, NEW e \in pending, ApplyIsolationEvent(e)
    PROVE  PInv'
<1> DEFINE t == e.target
<1>1. /\ phase = "replay" /\ e.time = now
      /\ pending' = pending \ {e}
      /\ UNCHANGED <<vars, phase, sched_vars, arm, now>>
  BY DEF ApplyIsolationEvent
<1>2. /\ now' = now /\ arm' = arm /\ rows' = rows /\ cursor' = cursor
      /\ now \in Nat /\ MaxWindows \in Nat /\ Sides /\ Remaining
      /\ m_blocked \in [Nodes -> SUBSET Nodes] /\ m_isolationCount \in Nat
      /\ Targets \subseteq Nodes /\ IsFiniteSet(Nodes)
  BY <1>1, ParamsAssumption, NodesAssumption DEF vars, sched_vars, PInv, PipelineTypeOK
<1>3. Remaining'
  <2>1. \A d \in pending' : d.time >= now' /\ (d \in ArmRows(arm)' \/ d = NoOp)
    BY <1>1, <1>2 DEF Remaining, ArmRows, sched_vars
  <2>2. \A w \in (now + 1)..MaxWindows : w # now
    BY <1>2
  <2> QED
    BY <2>1, <2>2, <1>1, <1>2 DEF Remaining
<1>4. Sides' /\ m_blocked' \in [Nodes -> SUBSET Nodes] /\ m_isolationCount' \in Nat
  <2>1. CASE /\ UNCHANGED <<m_blocked, m_isolationCount>>
             /\ \A u \in Targets : Side(u)' <=> Side(u)
    BY <2>1, <1>2 DEF Sides
  <2>2. CASE /\ t \in Targets /\ Wanted(arm, rows[t], now)
             /\ Side(t)' <=> Wanted(arm, rows[t], now)
             /\ \A u \in Targets : u # t => (Side(u)' <=> Side(u))
             /\ m_blocked' = Isolate(Nodes \ {t}, t)
             /\ m_isolationCount' = m_isolationCount + Cardinality(Nodes \ {t})
    <3>1. \A o \in Nodes : m_blocked'[o] = IF o # t THEN m_blocked[o] \cup {t} ELSE m_blocked[o]
      BY <2>2 DEF Isolate
    <3>2. Sides'
      <4> SUFFICES ASSUME NEW o \in Nodes, NEW u \in Nodes
                   PROVE  u \in m_blocked'[o] <=> (o # u /\ u \in Targets /\ Side(u)')
        BY DEF Sides
      <4>1. u \in m_blocked[o] <=> (o # u /\ u \in Targets /\ Side(u))
        BY <1>2 DEF Sides
      <4>2. CASE u = t
        BY <4>1, <4>2, <3>1, <2>2
      <4>3. CASE u # t
        BY <4>1, <4>3, <3>1, <2>2
      <4> QED
        BY <4>2, <4>3
    <3>3. m_blocked' \in [Nodes -> SUBSET Nodes]
      BY <2>2, <1>2 DEF Isolate
    <3>4. m_isolationCount' \in Nat
      <4>1. Cardinality(Nodes \ {t}) \in Nat
        BY <1>2, FS_Difference, FS_CardinalityType
      <4> QED
        BY <4>1, <2>2, <1>2
    <3> QED
      BY <3>2, <3>3, <3>4, <2>2, <1>2
  <2>3. CASE /\ t \in Targets /\ ~Wanted(arm, rows[t], now)
             /\ Side(t)' <=> Wanted(arm, rows[t], now)
             /\ \A u \in Targets : u # t => (Side(u)' <=> Side(u))
             /\ m_blocked' = Release(Nodes \ {t}, t)
             /\ UNCHANGED m_isolationCount
    <3>1. \A o \in Nodes : m_blocked'[o] = IF o # t THEN m_blocked[o] \ {t} ELSE m_blocked[o]
      BY <2>3 DEF Release
    <3>2. Sides'
      <4> SUFFICES ASSUME NEW o \in Nodes, NEW u \in Nodes
                   PROVE  u \in m_blocked'[o] <=> (o # u /\ u \in Targets /\ Side(u)')
        BY DEF Sides
      <4>1. u \in m_blocked[o] <=> (o # u /\ u \in Targets /\ Side(u))
        BY <1>2 DEF Sides
      <4>2. CASE u = t
        BY <4>1, <4>2, <3>1, <2>3
      <4>3. CASE u # t
        BY <4>1, <4>3, <3>1, <2>3
      <4> QED
        BY <4>2, <4>3
    <3>3. m_blocked' \in [Nodes -> SUBSET Nodes]
      BY <2>3, <1>2 DEF Release
    <3> QED
      BY <3>2, <3>3, <2>3, <1>2
  <2> QED
    BY <2>1, <2>2, <2>3, ApplyEffect
<1>5. PipelineTypeOK' /\ Walked'
  BY <1>1, <1>4 DEF PInv, PipelineTypeOK, TypeOK, Walked, vars, sched_vars
<1>6. IInv' /\ NoRelapse'
  <2>1. IInv /\ [Next]_vars
    BY <1>1 DEF PInv, vars
  <2> QED
    BY <2>1, <1>2, NextIInv DEF PInv, NoRelapse
<1>7. phase' = "replay" /\ \A u \in Targets : Len(rows'[u]) = MaxWindows /\ cursor'[u] = MaxWindows
  BY <1>1, <1>2 DEF PInv
<1> QED
  BY <1>3, <1>4, <1>5, <1>6, <1>7 DEF PInv

(* A step that changes nothing keeps the invariant. *)
LEMMA StutterKeepsPInv == PInv /\ UNCHANGED ivars => PInv'
<1> SUFFICES ASSUME PInv, UNCHANGED ivars PROVE PInv'
  OBVIOUS
<1>1. IInv'
  BY NextIInv DEF PInv, ivars, vars
<1>2. PipelineTypeOK' /\ NoRelapse' /\ Walked' /\ Sides'
  BY DEF PInv, ivars, vars, sched_vars, replay_vars, PipelineTypeOK, TypeOK, NoRelapse, Walked,
         Sides, Side, TurnDue
<1>3. (Remaining <=> Remaining') /\ (Fresh <=> Fresh') /\ (Unwritten <=> Unwritten')
  BY DEF ivars, vars, sched_vars, replay_vars, Remaining, Fresh, Unwritten, ArmRows
<1>4. phase' = phase /\ rows' = rows /\ cursor' = cursor
  BY DEF ivars, vars, sched_vars
<1> QED
  BY <1>1, <1>2, <1>3, <1>4 DEF PInv

(* Every step keeps the invariant. *)
LEMMA StepKeepsPInv == PInv /\ [PipelineNext]_ivars => PInv'
  BY DecideKeepsPInv, WriteKeepsPInv, RowKeepsPInv, LoadKeepsPInv, ApplyKeepsPInv,
     TickKeepsPInv, StutterKeepsPInv DEF PipelineNext

(* The invariant holds in every state. *)
LEMMA AlwaysPInv == PipelineSpec => []PInv
  BY InitPInv, StepKeepsPInv, PTL DEF PipelineSpec

----------------------------------------------------------------------------
(* Safety.                                                                 *)

(* Every event is one the loader can build, and the counters are naturals. *)
THEOREM PipelineTypeCorrect == PipelineSpec => []PipelineTypeOK
<1>1. PInv => PipelineTypeOK
  BY DEF PInv
<1> QED
  BY <1>1, AlwaysPInv, PTL

(* Whatever the verdicts, no arm stops the simulator with an empty         *)
(* schedule, and the explicit no-op of arm C isolates nobody.              *)
THEOREM SchedulesAreReplayable == PipelineSpec => []ScheduleIsReplayable
<1>1. PInv => ScheduleIsReplayable
  <2> SUFFICES ASSUME PInv, arm = "C", NEW o \in Nodes, NEW t \in Nodes, t \in m_blocked[o]
               PROVE  FALSE
    BY DEF PInv, PipelineTypeOK, ScheduleIsReplayable
  <2>1. t \in Targets /\ Side(t)
    BY DEF PInv, Sides
  <2>2. TurnDue(t)
    BY <2>1 DEF Side, Wanted
  <2>3. phase = "replay"
    BY <2>2 DEF PInv, PipelineTypeOK, Fresh, TurnDue
  <2>4. PICK e \in pending : e.target = t /\ e.time = now /\ now > 0
    BY <2>2 DEF TurnDue
  <2>5. Turns(arm, rows[t], now)
    BY <2>3, <2>4, PendingIsTurn
  <2> QED
    BY <2>5 DEF Turns, Wanted
<1> QED
  BY <1>1, AlwaysPInv, PTL

(* A target arm E isolates has been isolated by arm D at that time.        *)
THEOREM ArmDReactsFirst == PipelineSpec => []DNotLaterThanE
<1>1. PInv => DNotLaterThanE
  <2> SUFFICES ASSUME PInv, NEW e \in e_rows, e.action = "isolate"
               PROVE  \E d \in d_rows : d.target = e.target /\ d.time <= e.time
    BY DEF DNotLaterThanE
  <2> DEFINE t == e.target
             R == rows[t]
  <2>1. /\ t \in Targets /\ e.time \in 1..cursor[t] /\ cursor[t] \in Nat
        /\ e = ForAll(e.time, t, ActionAt("E", R, e.time))
    BY ParamsAssumption DEF PInv, Walked, Follows, IsTurn, PipelineTypeOK
  <2>2. Convicted(R, e.time)
    <3>1. e.action = ActionAt("E", R, e.time)
      BY <2>1 DEF ForAll
    <3> QED
      BY <3>1 DEF ActionAt, Wanted
  <2>3. Suspected(R, e.time)
    BY <2>1, <2>2, ConvictedIsSuspected
  <2>4. Suspected(R, cursor[t])
    BY <2>1, <2>3, SuspicionLasts
  <2>5. PICK d \in d_rows : d.target = t
    BY <2>1, <2>4 DEF PInv, Walked
  <2>6. d.time \in 1..cursor[t] /\ Turns("D", R, d.time)
    BY <2>5 DEF PInv, Walked, Follows, IsTurn
  <2>7. ASSUME d.time > e.time PROVE FALSE
    <3>1. e.time \in Nat /\ d.time \in Nat /\ d.time - 1 \in Nat
          /\ e.time <= d.time - 1 /\ e.time <= d.time
      BY <2>1, <2>6, <2>7
    <3>2. Suspected(R, d.time) /\ Suspected(R, d.time - 1)
      BY <3>1, <2>3, SuspicionLasts
    <3> QED
      BY <3>2, <2>6 DEF Turns, Wanted
  <2> QED
    BY <2>1, <2>5, <2>6, <2>7
<1> QED
  BY <1>1, AlwaysPInv, PTL

(* All observers but the target itself agree about every node.             *)
THEOREM NetworkAgrees == PipelineSpec => []NetworkWideAgreement
<1>1. PInv => NetworkWideAgreement
  BY DEF PInv, Sides, NetworkWideAgreement
<1> QED
  BY <1>1, AlwaysPInv, PTL

(* Every isolation counted adds the target to as many blacklists.          *)
THEOREM CountIsExact == PipelineSpec => EachIsolationIsNew
<1> DEFINE Changed == {o \in Nodes : m_blocked[o] # m_blocked'[o]}
           Exact == m_isolationCount' - m_isolationCount \in {0, Cardinality(Changed)}
<1>1. ASSUME PInv, PipelineNext PROVE Exact
  <2>0. m_isolationCount \in Nat
    BY <1>1 DEF PInv, PipelineTypeOK
  <2>1. ASSUME UNCHANGED m_isolationCount PROVE Exact
    BY <2>0, <2>1
  <2>2. ASSUME NEW e \in pending, ApplyIsolationEvent(e) PROVE Exact
    <3>1. CASE UNCHANGED m_isolationCount
      BY <3>1, <2>1
    <3>2. CASE m_isolationCount' # m_isolationCount
      <4> DEFINE t == e.target
      <4>1. /\ t \in Targets
            /\ Side(t) <=> ~Wanted(arm, rows[t], now)
            /\ Wanted(arm, rows[t], now)
            /\ m_blocked' = Isolate(Nodes \ {t}, t)
            /\ m_isolationCount' = m_isolationCount + Cardinality(Nodes \ {t})
        BY <3>2, <2>2, <1>1, ApplyEffect
      <4>2. t \in Nodes /\ \A o \in Nodes : t \notin m_blocked[o]
        BY <4>1, <1>1, NodesAssumption DEF PInv, Sides
      <4>3. \A o \in Nodes : m_blocked'[o] = IF o # t THEN m_blocked[o] \cup {t} ELSE m_blocked[o]
        BY <4>1 DEF Isolate
      <4>4. Changed = Nodes \ {t}
        BY <4>2, <4>3
      <4>5. IsFiniteSet(Nodes \ {t})
        BY NodesAssumption, FS_Difference
      <4>6. Cardinality(Nodes \ {t}) \in Nat
        BY <4>5, FS_CardinalityType
      <4>7. m_isolationCount' - m_isolationCount = Cardinality(Nodes \ {t})
        BY <4>1, <4>6, <2>0
      <4>8. Cardinality(Changed) = Cardinality(Nodes \ {t})
        BY <4>4
      <4> HIDE DEF Changed
      <4> QED
        BY <4>7, <4>8
    <3> QED
      BY <3>1, <3>2
  <2> QED
    BY <2>1, <2>2, <1>1 DEF PipelineNext, DecideStep, WriteVerdicts, ScheduleRow,
       LoadIsolationSchedule, Tick, replay_vars
<1>2. ASSUME PInv, [PipelineNext]_ivars PROVE [Exact]_ivars
  BY <1>1, <1>2
<1> QED
  BY <1>2, AlwaysPInv, PTL DEF PipelineSpec, EachIsolationIsNew

----------------------------------------------------------------------------
(* The pipeline implements IsolationPolicy.                                *)

(* The verdicts of a table, row by row. *)
Column(R) == [i \in 1..Len(R) |-> R[i].verdict]

(* A row appended to the table is a verdict appended to its column. *)
LEMMA ColumnOfAppend ==
    ASSUME NEW R \in Seq(Entry), NEW r \in Entry
    PROVE  Column(Append(R, r)) = Append(Column(R), r.verdict)
<1> DEFINE X == {x.verdict : x \in Entry}
           Q == Append(R, r)
           C == Column(R)
<1>1. /\ Len(R) \in Nat /\ Len(Q) = Len(R) + 1 /\ Q[Len(R) + 1] = r
      /\ \A i \in 1..Len(R) : Q[i] = R[i]
  BY AppendFacts
<1>2. \A i \in 1..Len(R) : R[i] \in Entry
  BY ElementOfSeq
<1>3. C \in [1..Len(R) -> X]
  BY <1>2 DEF Column
<1>4. C \in Seq(X) /\ Len(C) = Len(R)
  BY <1>1, <1>3
<1>5. r.verdict \in X
  OBVIOUS
<1>6. /\ Append(C, r.verdict) \in [1..(Len(R) + 1) -> X]
      /\ Append(C, r.verdict)[Len(R) + 1] = r.verdict
      /\ \A i \in 1..Len(R) : Append(C, r.verdict)[i] = C[i]
  <2> DEFINE v == r.verdict
  <2>1. C \in Seq(X) /\ v \in X /\ Len(C) = Len(R) /\ Len(R) \in Nat
    BY <1>1, <1>4, <1>5
  <2> HIDE DEF C, X, v
  <2>2. /\ Append(C, v) \in Seq(X) /\ Len(Append(C, v)) = Len(R) + 1
        /\ Append(C, v)[Len(R) + 1] = v
        /\ \A i \in 1..Len(R) : Append(C, v)[i] = C[i]
    BY <2>1, AppendProperties
  <2>3. Append(C, v) \in [1..(Len(R) + 1) -> X]
    BY <2>2, LenProperties
  <2> QED
    BY <2>2, <2>3 DEF v
<1>7. \A i \in 1..(Len(R) + 1) : i \in 1..Len(R) \/ i = Len(R) + 1
  BY <1>1
<1>8. \A i \in 1..(Len(R) + 1) : Append(C, r.verdict)[i] = Q[i].verdict
  <2>1. \A i \in 1..Len(R) : C[i] = R[i].verdict
    BY DEF Column
  <2> HIDE DEF C, Q
  <2> QED
    BY <1>1, <1>6, <1>7, <2>1
<1>9. Append(C, r.verdict) = [i \in 1..(Len(R) + 1) |-> Q[i].verdict]
  <2> HIDE DEF C, Q, X
  <2> QED
    BY <1>6, <1>8
<1> QED
  BY <1>1, <1>9 DEF Column

(* The recorded verdicts are the columns of the tables. *)
LEMMA RecordedIsColumn == RecordedVerdicts = [t \in Targets |-> Column(rows[t])]
  BY DEF RecordedVerdicts, Column

(* The policy and the arm want the same. *)
LEMMA SameWish ==
    ASSUME NEW t \in Targets, NEW w \in Nat, w <= Len(rows[t]), Len(rows[t]) \in Nat
    PROVE  Policy!Wants(RecordedVerdicts, t, w) <=> Wanted(arm, rows[t], w)
<1>1. \A i \in 1..w : RecordedVerdicts[t][i] = rows[t][i].verdict
  BY DEF RecordedVerdicts
<1>2. \A i \in 1..w : \A k \in (i+1)..w : k \in 1..w
  OBVIOUS
<1>3. Policy!HeldConfirmed(RecordedVerdicts, t, w) <=> Convicted(rows[t], w)
  BY <1>1, <1>2, Zenon DEF Policy!HeldConfirmed, Convicted, CONFIRMED
<1>4. Policy!Flagged(RecordedVerdicts, t, w) <=> Suspected(rows[t], w)
  BY <1>1 DEF Policy!Flagged, Suspected, IsFlagged, CONFIRMED, SUSPICIOUS
<1> QED
  BY <1>3, <1>4, Zenon DEF Policy!Wants, Wanted

(* The network isolates whom its observers have on that side. *)
LEMMA IsolatedIsSide == Sides => IsolatedTargets = {t \in Targets : Side(t)}
<1> SUFFICES ASSUME Sides, NEW t \in Targets
             PROVE  (\E o \in Nodes : t \in m_blocked[o]) <=> Side(t)
  BY DEF IsolatedTargets
<1>1. PICK o \in Nodes : o # t
  BY NodesAssumption
<1> QED
  BY <1>1, NodesAssumption DEF Sides

(* Before the replay nobody is isolated. *)
LEMMA FreshIsolatesNobody ==
    ASSUME Fresh
    PROVE  now = 0 /\ IsolatedTargets = {}
  BY DEF Fresh, IsolatedTargets

(* The start of the pipeline is a start of the policy. *)
LEMMA InitIsPolicyInit == PipelineInit => Policy!PolicyInit
<1> SUFFICES ASSUME PipelineInit PROVE Policy!PolicyInit
  OBVIOUS
<1>1. arm = "C" /\ now = 0 /\ IsolatedTargets = {}
  BY DEF PipelineInit, IsolatedTargets
<1>2. \A t \in Targets : [i \in 1..Len(rows[t]) |-> rows[t][i].verdict] = <<>>
  BY DEF PipelineInit, Init
<1>3. RecordedVerdicts = [t \in Targets |-> <<>>]
  BY <1>2 DEF RecordedVerdicts
<1> QED
  BY <1>1, <1>3 DEF Policy!PolicyInit

(* A step of decide() appends a row or a gap to the table of a target     *)
(* whose turn it is.                                                      *)
LEMMA DecideAppends ==
    ASSUME PipelineTypeOK, DecideStep
    PROVE  \E t \in Targets, r \in Entry : Due(t) /\ rows' = [rows EXCEPT ![t] = Append(@, r)]
<1>1. ASSUME NEW t \in Targets, NoRow(t)
      PROVE  \E r \in Entry : Due(t) /\ rows' = [rows EXCEPT ![t] = Append(@, r)]
  BY <1>1 DEF NoRow, Entry
<1>2. ASSUME NEW t \in Targets, NEW v \in Views, Decide(t, v)
      PROVE  \E r \in Entry : Due(t) /\ rows' = [rows EXCEPT ![t] = Append(@, r)]
  <2> DEFINE b == NextBad(v, bad_streak[t])
             g == NextGood(v, good_streak[t])
             s == NextState(v, state[t], b, g)
             r == [look |-> Look(v), verdict |-> s, bad |-> b]
  <2>1. state[t] \in Verdicts /\ bad_streak[t] \in Nat /\ good_streak[t] \in Nat \cup {Unset}
    BY DEF PipelineTypeOK, TypeOK
  <2>2. b \in Nat /\ s \in Verdicts
    BY <2>1, NextTypes
  <2>3. r \in Entry
    BY <2>2, LookType DEF Row, Entry
  <2>4. Due(t) /\ rows' = [rows EXCEPT ![t] = Append(@, r)]
    BY <1>2 DEF Decide
  <2> QED
    BY <2>3, <2>4
<1> QED
  BY <1>1, <1>2, Zenon DEF DecideStep, Next

(* decide() records. *)
LEMMA DecideIsRecord ==
    ASSUME PInv, DecideStep
    PROVE  Policy!Record
<1>1. /\ now = 0 /\ IsolatedTargets = {}
      /\ now' = now /\ arm' = arm /\ IsolatedTargets' = IsolatedTargets
  <2>1. Fresh /\ UNCHANGED replay_vars
    BY DEF PInv, DecideStep
  <2> QED
    BY <2>1, FreshIsolatesNobody DEF replay_vars, IsolatedTargets
<1>2. rows \in [Targets -> Seq(Entry)]
  BY DEF PInv, PipelineTypeOK, TypeOK, Entry
<1>3. PICK t \in Targets, r \in Entry : rows' = [rows EXCEPT ![t] = Append(@, r)]
  BY DecideAppends DEF PInv
<1>4. r.verdict \in {"none", "normal", "suspicious", "confirmed"}
  BY DEF Entry, Row, NoEvidence, Verdicts, NORMAL, SUSPICIOUS, CONFIRMED
<1>5. RecordedVerdicts' = [RecordedVerdicts EXCEPT ![t] = Append(@, r.verdict)]
  <2>1. rows[t] \in Seq(Entry)
    BY <1>2
  <2>2. \A u \in Targets : Column(rows'[u]) = IF u = t THEN Append(Column(rows[u]), r.verdict)
                                                       ELSE Column(rows[u])
    BY <1>2, <1>3, <2>1, ColumnOfAppend
  <2>3. RecordedVerdicts' = [u \in Targets |-> Column(rows'[u])]
    BY DEF RecordedVerdicts, Column
  <2> QED
    BY <2>2, <2>3, RecordedIsColumn
<1> QED
  BY <1>1, <1>4, <1>5 DEF Policy!Record

(* Loading a schedule chooses the arm. *)
LEMMA LoadIsChoose ==
    ASSUME PInv, NEW a \in Arms, LoadIsolationSchedule(a)
    PROVE  Policy!Choose
<1>1. Fresh /\ arm' = a /\ UNCHANGED <<vars, now, m_blocked>>
  BY DEF PInv, LoadIsolationSchedule
<1>2. now = 0 /\ IsolatedTargets = {}
  BY <1>1, FreshIsolatesNobody
<1>3. RecordedVerdicts' = RecordedVerdicts /\ IsolatedTargets' = IsolatedTargets /\ now' = now
  BY <1>1 DEF vars, RecordedVerdicts, IsolatedTargets
<1> QED
  BY <1>1, <1>2, <1>3 DEF Policy!Choose, Arms

(* With nothing due in its window the replay has settled. *)
LEMMA NothingDueIsSettled ==
    ASSUME PInv, phase = "replay", \A e \in pending : e.time > now
    PROVE  Policy!Settled
<1>1. /\ now \in Nat /\ now <= MaxWindows /\ MaxWindows \in Nat /\ Sides
      /\ \A t \in Targets : Len(rows[t]) = MaxWindows
  BY ParamsAssumption DEF PInv, PipelineTypeOK
<1> SUFFICES ASSUME NEW t \in Targets
             PROVE  t \in IsolatedTargets <=> Policy!Wants(RecordedVerdicts, t, now)
  BY Zenon DEF Policy!Settled
<1>2. t \in IsolatedTargets <=> Side(t)
  BY <1>1, IsolatedIsSide
<1>3. ~TurnDue(t)
  BY <1>1 DEF TurnDue
<1>4. Side(t) <=> Wanted(arm, rows[t], now)
  BY <1>3 DEF Side
<1>5. Policy!Wants(RecordedVerdicts, t, now) <=> Wanted(arm, rows[t], now)
  BY <1>1, SameWish
<1> QED
  BY <1>2, <1>4, <1>5

(* The clock advances settled. *)
LEMMA TickIsAdvance ==
    ASSUME PInv, Tick
    PROVE  Policy!Advance
<1>1. /\ phase = "replay" /\ now < MaxWindows /\ now' = now + 1
      /\ \A e \in pending : e.time > now
      /\ UNCHANGED <<vars, arm, m_blocked>>
  BY DEF Tick
<1>2. /\ now \in Nat /\ MaxWindows \in Nat /\ Sides
      /\ \A t \in Targets : Len(rows[t]) = MaxWindows
  BY <1>1, ParamsAssumption DEF PInv, PipelineTypeOK
<1>3. RecordedVerdicts' = RecordedVerdicts /\ IsolatedTargets' = IsolatedTargets /\ arm' = arm
  BY <1>1 DEF vars, RecordedVerdicts, IsolatedTargets
<1>4. \A t \in Targets : now < Len(RecordedVerdicts[t])
  <2>1. \A t \in Targets : Len(RecordedVerdicts[t]) = MaxWindows
    BY <1>2 DEF RecordedVerdicts
  <2> QED
    BY <2>1, <1>1
<1>5. Policy!Settled
  BY <1>1, <1>2, NothingDueIsSettled
<1> QED
  BY <1>1, <1>3, <1>4, <1>5 DEF Policy!Advance

(* An event revises one target, or is the no-op. *)
LEMMA ApplyIsRevise ==
    ASSUME PInv, PInv', NEW e \in pending, ApplyIsolationEvent(e)
    PROVE  (\E t \in Targets : Policy!Revise(t)) \/ UNCHANGED Policy!pvars
<1>1. phase = "replay" /\ e.time = now /\ UNCHANGED <<vars, arm, now>>
  BY DEF ApplyIsolationEvent
<1>2. RecordedVerdicts' = RecordedVerdicts /\ arm' = arm /\ now' = now
  BY <1>1 DEF vars, RecordedVerdicts
<1>3. /\ IsolatedTargets = {t \in Targets : Side(t)}
      /\ IsolatedTargets' = {t \in Targets : Side(t)'}
  <2>1. Sides /\ Sides'
    BY DEF PInv
  <2>2. (IsolatedTargets = {t \in Targets : Side(t)})'
    BY <2>1, IsolatedIsSide, PTL
  <2> QED
    BY <2>1, <2>2, IsolatedIsSide
<1>4. CASE \A t \in Targets : Side(t)' <=> Side(t)
  BY <1>2, <1>3, <1>4 DEF Policy!pvars
<1>5. CASE /\ now > 0 /\ e.target \in Targets
           /\ Side(e.target) <=> ~Wanted(arm, rows[e.target], now)
           /\ Side(e.target)' <=> Wanted(arm, rows[e.target], now)
           /\ \A t \in Targets : t # e.target => (Side(t)' <=> Side(t))
  <2> DEFINE t == e.target
             I == IsolatedTargets
  <2>1. Policy!Wants(RecordedVerdicts, t, now) <=> Wanted(arm, rows[t], now)
    <3>1. now \in Nat /\ now <= Len(rows[t]) /\ Len(rows[t]) \in Nat
      BY <1>1, <1>5, ParamsAssumption DEF PInv, PipelineTypeOK
    <3> QED
      BY <3>1, <1>5, SameWish
  <2>2. t \in I <=> Side(t)
    BY <1>3, <1>5
  <2>3. I' = IF t \in I THEN I \ {t} ELSE I \cup {t}
    BY <1>3, <1>5, <2>2
  <2>4. t \in I <=> ~Policy!Wants(RecordedVerdicts, t, now)
    BY <2>1, <2>2, <1>5
  <2>5. Policy!Revise(t)
    BY <1>2, <2>3, <2>4, Zenon DEF Policy!Revise
  <2> QED
    BY <2>5, <1>5
<1> QED
  BY <1>4, <1>5, ApplyEffect

(* Every step of the pipeline is a step of the policy or none. *)
LEMMA StepIsPolicyStep ==
    ASSUME PInv, PInv', [PipelineNext]_ivars
    PROVE  [Policy!PolicyNext]_(Policy!pvars)
<1>1. CASE DecideStep
  BY <1>1, DecideIsRecord DEF Policy!PolicyNext
<1>2. ASSUME NEW a \in Arms, LoadIsolationSchedule(a) PROVE Policy!PolicyNext
  BY <1>2, LoadIsChoose DEF Policy!PolicyNext
<1>3. CASE Tick
  BY <1>3, TickIsAdvance DEF Policy!PolicyNext
<1>4. ASSUME NEW e \in pending, ApplyIsolationEvent(e)
      PROVE  Policy!PolicyNext \/ UNCHANGED Policy!pvars
  BY <1>4, ApplyIsRevise DEF Policy!PolicyNext
<1>5. ASSUME UNCHANGED <<rows, arm, now, m_blocked>> PROVE UNCHANGED Policy!pvars
  BY <1>5 DEF Policy!pvars, RecordedVerdicts, IsolatedTargets
<1>6. ASSUME WriteVerdicts \/ (\E t \in Targets : ScheduleRow(t)) \/ UNCHANGED ivars
      PROVE  UNCHANGED <<rows, arm, now, m_blocked>>
  BY <1>6 DEF WriteVerdicts, ScheduleRow, ivars, vars, replay_vars
<1> QED
  BY <1>1, <1>2, <1>3, <1>4, <1>5, <1>6 DEF PipelineNext

(* Whatever the verdicts, schedule and replay put a target on the side its *)
(* arm wants it on before simulated time leaves the window, and move       *)
(* nobody else.                                                            *)
THEOREM ThePolicyIsImplemented == PipelineSpec => ImplementsPolicy
  BY InitIsPolicyInit, StepIsPolicyStep, AlwaysPInv, PTL
     DEF PipelineSpec, ImplementsPolicy, Policy!PolicySpec

----------------------------------------------------------------------------
(* The safety half of EndsSettled: the pipeline never stalls before its    *)
(* end, every step brings the end nearer, and the end is the right one.    *)

Over == phase = "replay" /\ pending = {} /\ now = MaxWindows

(* The guard of some step of the program that is running. *)
GoesOn ==
    CASE phase = "decide"   -> \/ \A t \in Targets : Len(rows[t]) = MaxWindows
                               \/ \E t \in Targets : Due(t)
      [] phase = "schedule" -> \/ \A t \in Targets : cursor[t] = MaxWindows
                               \/ \E t \in Targets :
                                     /\ cursor[t] < MaxWindows
                                     /\ \A u \in Targets \ {t} : cursor[u] \in {0, MaxWindows}
      [] phase = "replay"   -> \/ \E e \in pending : e.time = now
                               \/ now < MaxWindows /\ \A e \in pending : e.time > now
      [] OTHER              -> FALSE

(* No table outgrows the trace, and the E loop has one group open at a     *)
(* time.                                                                   *)
InTurn ==
    /\ \A t \in Targets : Len(rows[t]) <= MaxWindows
    /\ \A t, u \in Targets : t = u \/ cursor[t] \in {0, MaxWindows} \/ cursor[u] \in {0, MaxWindows}

(* Both hold in every state of the pipeline. *)
LEMMA AlwaysInTurn == PipelineSpec => []InTurn
<1>1. PipelineInit => InTurn
  <2> SUFFICES ASSUME PipelineInit PROVE InTurn
    OBVIOUS
  <2>1. \A t \in Targets : Len(rows[t]) = 0 /\ cursor[t] = 0
    BY DEF PipelineInit, Init
  <2> QED
    BY <2>1, ParamsAssumption DEF InTurn
<1>2. ASSUME PInv, InTurn, [PipelineNext]_ivars PROVE InTurn'
  <2>0. PipelineTypeOK /\ MaxWindows \in Nat /\ rows \in [Targets -> Seq(Entry)]
    BY <1>2, ParamsAssumption DEF PInv, PipelineTypeOK, TypeOK, Entry
  <2>1. CASE UNCHANGED <<rows, cursor>>
    BY <1>2, <2>1 DEF InTurn
  <2>2. ASSUME NEW t \in Targets, ScheduleRow(t) PROVE InTurn'
    <3>1. /\ \A u \in Targets \ {t} : cursor[u] \in {0, MaxWindows}
          /\ cursor' = [cursor EXCEPT ![t] = cursor[t] + 1] /\ rows' = rows
      BY <2>2 DEF ScheduleRow, vars
    <3>2. \A u \in Targets \ {t} : cursor'[u] \in {0, MaxWindows}
      BY <1>2, <3>1 DEF PInv, PipelineTypeOK
    <3> QED
      BY <1>2, <3>1, <3>2 DEF InTurn
  <2>3. CASE DecideStep
    <3>1. PICK t \in Targets, r \in Entry : Due(t) /\ rows' = [rows EXCEPT ![t] = Append(@, r)]
      BY <2>0, <2>3, DecideAppends
    <3>2. Len(rows[t]) \in Nat /\ Len(Append(rows[t], r)) = Len(rows[t]) + 1
      BY <2>0, AppendFacts
    <3>3. \A u \in Targets : Len(rows'[u]) <= MaxWindows
      BY <1>2, <2>0, <3>1, <3>2 DEF Due, InTurn
    <3>4. UNCHANGED cursor
      BY <2>3 DEF DecideStep, sched_vars
    <3> QED
      BY <1>2, <3>3, <3>4 DEF InTurn
  <2> QED
    BY <1>2, <2>1, <2>2, <2>3 DEF PipelineNext, WriteVerdicts, LoadIsolationSchedule,
       ApplyIsolationEvent, Tick, ivars, vars, sched_vars
<1> QED
  BY <1>1, <1>2, AlwaysPInv, PTL DEF PipelineSpec

(* Some table is the shortest. *)
LEMMA ShortestTable ==
    ASSUME Targets # {}, \A t \in Targets : Len(rows[t]) \in Nat
    PROVE  \E t \in Targets : \A u \in Targets : Len(rows[t]) <= Len(rows[u])
<1> DEFINE L == {Len(rows[t]) : t \in Targets}
<1>1. L # {} /\ L \subseteq Nat
  OBVIOUS
<1>2. PICK n \in L : \A m \in L : ~(<<m, n>> \in OpToRel(<, Nat))
  <2> HIDE DEF L
  <2> QED
    BY <1>1, NatLessThanWellFounded, WFMin
<1>3. \A m \in L : n <= m
  <2> SUFFICES ASSUME NEW m \in L, m < n PROVE FALSE
    BY <1>1
  <2>1. m \in Nat /\ n \in Nat
    BY <1>1
  <2>2. <<m, n>> \in OpToRel(<, Nat)
    BY <2>1 DEF OpToRel
  <2> QED
    BY <1>2, <2>2
<1> QED
  BY <1>3

(* No program of the pipeline waits for anything: as long as the replay is *)
(* not over, the guard of one of its steps holds.                          *)
THEOREM PipelineNeverStalls == PipelineSpec => [](Over \/ GoesOn)
<1>1. ASSUME PInv, InTurn PROVE Over \/ GoesOn
  <2>0. /\ PipelineTypeOK /\ phase \in {"decide", "schedule", "replay"} /\ MaxWindows \in Nat
        /\ \A t \in Targets : cursor[t] \in 0..MaxWindows
        /\ \A t \in Targets : Len(rows[t]) \in Nat
    BY <1>1, ParamsAssumption DEF PInv, PipelineTypeOK, TypeOK
  <2>1. CASE phase = "decide"
    <3>1. CASE \E t \in Targets : Len(rows[t]) < MaxWindows
      <4>1. PICK t \in Targets : \A u \in Targets : Len(rows[t]) <= Len(rows[u])
        BY <2>0, <3>1, ShortestTable
      <4>2. Due(t)
        BY <2>0, <3>1, <4>1 DEF Due
      <4> QED
        BY <2>1, <4>2 DEF GoesOn
    <3>2. CASE \A t \in Targets : ~(Len(rows[t]) < MaxWindows)
      <4>1. \A t \in Targets : Len(rows[t]) <= MaxWindows
        BY <1>1 DEF InTurn
      <4> QED
        BY <2>0, <2>1, <3>2, <4>1 DEF GoesOn
    <3> QED
      BY <3>1, <3>2
  <2>2. CASE phase = "schedule"
    <3> SUFFICES ASSUME NEW v \in Targets, cursor[v] # MaxWindows
                 PROVE  \E t \in Targets : /\ cursor[t] < MaxWindows
                                           /\ \A u \in Targets \ {t} : cursor[u] \in {0, MaxWindows}
      BY <2>2 DEF GoesOn
    <3>1. CASE \E t \in Targets : cursor[t] \notin {0, MaxWindows}
      BY <1>1, <2>0, <3>1 DEF InTurn
    <3>2. CASE \A t \in Targets : cursor[t] \in {0, MaxWindows}
      BY <2>0, <3>2
    <3> QED
      BY <3>1, <3>2
  <2>3. CASE phase = "replay"
    <3>1. /\ now \in 0..MaxWindows
          /\ \A e \in pending : e.time \in 0..MaxWindows /\ e.time >= now
      BY <1>1, <2>0, <2>3 DEF PInv, Remaining, PipelineTypeOK, Event
    <3>2. CASE \E e \in pending : e.time = now
      BY <2>3, <3>2 DEF GoesOn
    <3>3. CASE \A e \in pending : e.time # now
      <4>1. \A e \in pending : e.time > now
        BY <2>0, <3>1, <3>3
      <4>2. CASE now < MaxWindows
        BY <2>3, <4>1, <4>2 DEF GoesOn
      <4>3. CASE now = MaxWindows
        BY <2>0, <2>3, <3>1, <4>1, <4>3 DEF Over
      <4> QED
        BY <2>0, <3>1, <4>2, <4>3
    <3> QED
      BY <3>2, <3>3
  <2> QED
    BY <2>0, <2>1, <2>2, <2>3
<1> QED
  BY <1>1, AlwaysPInv, AlwaysInTurn, PTL

(* When it is over, exactly the targets are isolated that the arm wants    *)
(* isolated at the end of the trace.                                       *)
THEOREM TheEndIsSettled == PipelineSpec => [](Over => Policy!Settled)
<1>1. ASSUME PInv, Over PROVE Policy!Settled
  BY <1>1, NothingDueIsSettled DEF Over
<1> QED
  BY <1>1, AlwaysPInv, PTL

(* What the pipeline still has to do: phases to enter, rows to decide and  *)
(* to schedule, windows to reach and events to apply.  An event counts     *)
(* from the start, whether it will be scheduled or not.                    *)
Windowed(f) == {c \in Targets \X (1..MaxWindows) : c[2] > f[c[1]]}

PhasesAhead == CASE phase = "decide"   -> {"schedule", "replay"}
                 [] phase = "schedule" -> {"replay"}
                 [] OTHER              -> {}
RowsAhead   == Windowed([t \in Targets |-> Len(rows[t])])
WalksAhead  == Windowed(cursor)
TicksAhead  == (now + 1)..MaxWindows
EventsAhead == IF phase = "replay" THEN pending ELSE Event

Left == UNION {{"phase"} \X PhasesAhead, {"row"} \X RowsAhead, {"walk"} \X WalksAhead,
               {"tick"} \X TicksAhead, {"event"} \X EventsAhead}

StepsLeft == Cardinality(Left)

(* There are finitely many events. *)
LEMMA EventIsFinite == IsFiniteSet(Event)
<1> DEFINE O == Nodes \cup {"all"}
           A == {"isolate", "release"}
           P == ((0..MaxWindows) \X O) \X (Nodes \X A)
           f == [p \in P |-> [time |-> p[1][1], observer |-> p[1][2],
                              target |-> p[2][1], action |-> p[2][2]]]
<1>1. IsFiniteSet(0..MaxWindows)
  BY ParamsAssumption, FS_Interval
<1>2. IsFiniteSet(O)
  BY NodesAssumption, FS_AddElement
<1>3. IsFiniteSet(A)
  <2>1. IsFiniteSet({"isolate"}) /\ IsFiniteSet({"release"})
    BY FS_Singleton
  <2>2. A = {"isolate"} \cup {"release"}
    OBVIOUS
  <2> QED
    BY <2>1, <2>2, FS_Union
<1>4. IsFiniteSet(P)
  <2> HIDE DEF O, A
  <2>1. IsFiniteSet((0..MaxWindows) \X O) /\ IsFiniteSet(Nodes \X A)
    BY <1>1, <1>2, <1>3, NodesAssumption, FS_Product
  <2> QED
    BY <2>1, FS_Product
<1>5. f \in Surjection(P, Event)
  <2>1. f \in [P -> Event]
    BY DEF Event
  <2>2. ASSUME NEW e \in Event PROVE \E p \in P : f[p] = e
    <3> DEFINE p == <<<<e.time, e.observer>>, <<e.target, e.action>>>>
    <3>1. p \in P
      BY DEF Event
    <3>2. f[p] = [time |-> e.time, observer |-> e.observer,
                  target |-> e.target, action |-> e.action]
      BY <3>1
    <3>3. f[p] = e
      BY <3>2 DEF Event
    <3> QED
      BY <3>1, <3>3
  <2> QED
    BY <2>1, <2>2 DEF Surjection
<1> QED
  <2> HIDE DEF P, f
  <2> QED
    BY <1>4, <1>5, FS_Surjection

(* There is finitely much to do. *)
LEMMA LeftIsFinite == PipelineTypeOK => IsFiniteSet(Left)
<1> SUFFICES ASSUME PipelineTypeOK PROVE IsFiniteSet(Left)
  OBVIOUS
<1>1. IsFiniteSet(PhasesAhead)
  <2>1. IsFiniteSet({}) /\ IsFiniteSet({"schedule"}) /\ IsFiniteSet({"replay"})
    BY FS_EmptySet, FS_Singleton
  <2>2. IsFiniteSet({"schedule"} \cup {"replay"})
    BY <2>1, FS_Union
  <2>3. {"schedule", "replay"} = {"schedule"} \cup {"replay"}
    OBVIOUS
  <2> QED
    BY <2>1, <2>2, <2>3 DEF PhasesAhead
<1>2. /\ IsFiniteSet(1..MaxWindows) /\ IsFiniteSet(TicksAhead)
      /\ IsFiniteSet(Targets)
  <2>1. now + 1 \in Int /\ MaxWindows \in Int
    BY ParamsAssumption DEF PipelineTypeOK
  <2> QED
    BY <2>1, FS_Interval, NodesAssumption, FS_Subset DEF TicksAhead
<1>3. IsFiniteSet(RowsAhead) /\ IsFiniteSet(WalksAhead)
  <2>1. IsFiniteSet(Targets \X (1..MaxWindows))
    BY <1>2, FS_Product
  <2>2. /\ RowsAhead \in SUBSET (Targets \X (1..MaxWindows))
        /\ WalksAhead \in SUBSET (Targets \X (1..MaxWindows))
    BY DEF RowsAhead, WalksAhead, Windowed
  <2> QED
    BY <2>1, <2>2, FS_Subset
<1>4. IsFiniteSet(EventsAhead)
  <2>1. EventsAhead \in SUBSET Event
    BY DEF EventsAhead, PipelineTypeOK
  <2> QED
    BY <2>1, EventIsFinite, FS_Subset
<1>5. ASSUME NEW k, NEW S, IsFiniteSet(S) PROVE IsFiniteSet({k} \X S)
  BY <1>5, FS_Singleton, FS_Product
<1>6. /\ IsFiniteSet({"phase"} \X PhasesAhead) /\ IsFiniteSet({"row"} \X RowsAhead)
      /\ IsFiniteSet({"walk"} \X WalksAhead) /\ IsFiniteSet({"tick"} \X TicksAhead)
      /\ IsFiniteSet({"event"} \X EventsAhead)
  BY <1>1, <1>2, <1>3, <1>4, <1>5
<1> DEFINE A == {"phase"} \X PhasesAhead
           B == {"row"} \X RowsAhead
           C == {"walk"} \X WalksAhead
           D == {"tick"} \X TicksAhead
           E == {"event"} \X EventsAhead
<1>7. Left = A \cup (B \cup (C \cup (D \cup E)))
  BY DEF Left
<1> HIDE DEF A, B, C, D, E
<1>8. IsFiniteSet(D \cup E)
  BY <1>6, FS_Union DEF D, E
<1>9. IsFiniteSet(C \cup (D \cup E))
  BY <1>6, <1>8, FS_Union DEF C
<1>10. IsFiniteSet(B \cup (C \cup (D \cup E)))
  BY <1>6, <1>9, FS_Union DEF B
<1> QED
  BY <1>6, <1>7, <1>10, FS_Union DEF A

(* Less of one kind, and not more of any other, is less to do. *)
LEMMA LeftShrinks ==
    ASSUME PipelineTypeOK,
           PhasesAhead' \subseteq PhasesAhead, RowsAhead' \subseteq RowsAhead,
           WalksAhead' \subseteq WalksAhead, TicksAhead' \subseteq TicksAhead,
           EventsAhead' \subseteq EventsAhead,
           \/ PhasesAhead' # PhasesAhead \/ RowsAhead' # RowsAhead
           \/ WalksAhead' # WalksAhead \/ TicksAhead' # TicksAhead \/ EventsAhead' # EventsAhead
    PROVE  StepsLeft' < StepsLeft
<1>1. Left' \subseteq Left
  BY DEF Left
<1>2. Left' # Left
  <2>1. /\ \A x : x \in PhasesAhead <=> <<"phase", x>> \in Left
        /\ \A x : x \in RowsAhead <=> <<"row", x>> \in Left
        /\ \A x : x \in WalksAhead <=> <<"walk", x>> \in Left
        /\ \A x : x \in TicksAhead <=> <<"tick", x>> \in Left
        /\ \A x : x \in EventsAhead <=> <<"event", x>> \in Left
    BY DEF Left
  <2>2. /\ \A x : x \in PhasesAhead' <=> <<"phase", x>> \in Left'
        /\ \A x : x \in RowsAhead' <=> <<"row", x>> \in Left'
        /\ \A x : x \in WalksAhead' <=> <<"walk", x>> \in Left'
        /\ \A x : x \in TicksAhead' <=> <<"tick", x>> \in Left'
        /\ \A x : x \in EventsAhead' <=> <<"event", x>> \in Left'
    BY DEF Left
  <2> QED
    BY <2>1, <2>2
<1>3. IsFiniteSet(Left)
  BY LeftIsFinite
<1>4. IsFiniteSet(Left') /\ Cardinality(Left') <= Cardinality(Left)
      /\ (Cardinality(Left) = Cardinality(Left') => Left = Left')
  BY <1>1, <1>3, FS_Subset
<1>5. Cardinality(Left) \in Nat /\ Cardinality(Left') \in Nat
  BY <1>3, <1>4, FS_CardinalityType
<1> QED
  BY <1>2, <1>4, <1>5 DEF StepsLeft

(* A counter that moves on leaves fewer windows ahead. *)
LEMMA WindowedShrinks ==
    ASSUME NEW f, NEW g, NEW t \in Targets, MaxWindows \in Nat,
           \A u \in Targets : f[u] \in Nat /\ g[u] = IF u = t THEN f[u] + 1 ELSE f[u],
           f[t] < MaxWindows
    PROVE  Windowed(g) \subseteq Windowed(f) /\ Windowed(g) # Windowed(f)
<1>1. Windowed(g) \subseteq Windowed(f)
  <2> SUFFICES ASSUME NEW u \in Targets, NEW w \in 1..MaxWindows, w > g[u] PROVE w > f[u]
    BY DEF Windowed
  <2> QED
    OBVIOUS
<1>2. <<t, f[t] + 1>> \in Windowed(f) /\ <<t, f[t] + 1>> \notin Windowed(g)
  <2>1. f[t] + 1 \in 1..MaxWindows /\ g[t] = f[t] + 1 /\ f[t] + 1 > f[t] /\ ~(f[t] + 1 > g[t])
    OBVIOUS
  <2> QED
    BY <2>1 DEF Windowed
<1> QED
  BY <1>1, <1>2

(* Every step of the pipeline leaves less to do: a trace takes at most     *)
(* StepsLeft steps from the start to the end, however decide() judges.     *)
THEOREM PipelineWindsDown ==
    PipelineSpec => [](StepsLeft \in Nat) /\ [][StepsLeft' < StepsLeft]_ivars
<1>1. PInv => StepsLeft \in Nat
  BY LeftIsFinite, FS_CardinalityType DEF PInv, StepsLeft
<1>2. ASSUME PInv, PInv', PipelineNext PROVE StepsLeft' < StepsLeft
  <2>0. /\ PipelineTypeOK /\ MaxWindows \in Nat
        /\ rows \in [Targets -> Seq(Entry)] /\ cursor \in [Targets -> 0..MaxWindows]
    BY <1>2, ParamsAssumption DEF PInv, PipelineTypeOK, TypeOK, Entry
  <2>1. UNCHANGED phase => UNCHANGED PhasesAhead
    BY DEF PhasesAhead
  <2>2. UNCHANGED rows => UNCHANGED RowsAhead
    BY DEF RowsAhead
  <2>3. UNCHANGED cursor => UNCHANGED WalksAhead
    BY DEF WalksAhead
  <2>4. UNCHANGED now => UNCHANGED TicksAhead
    BY DEF TicksAhead
  <2>5. UNCHANGED <<phase, pending>> => UNCHANGED EventsAhead
    BY DEF EventsAhead
  <2>6. CASE DecideStep
    <3>1. PICK t \in Targets, r \in Entry : Due(t) /\ rows' = [rows EXCEPT ![t] = Append(@, r)]
      BY <2>0, <2>6, DecideAppends
    <3>2. /\ Len(Append(rows[t], r)) = Len(rows[t]) + 1
          /\ \A u \in Targets : Len(rows[u]) \in Nat
      BY <2>0, AppendFacts
    <3> DEFINE f == [u \in Targets |-> Len(rows[u])]
               g == [u \in Targets |-> Len(rows'[u])]
    <3>3. /\ \A u \in Targets : f[u] \in Nat /\ g[u] = IF u = t THEN f[u] + 1 ELSE f[u]
          /\ f[t] < MaxWindows
      BY <2>0, <3>1, <3>2 DEF Due
    <3>4. RowsAhead = Windowed(f) /\ RowsAhead' = Windowed(g)
      BY DEF RowsAhead, Windowed
    <3> HIDE DEF f, g
    <3>5. RowsAhead' \subseteq RowsAhead /\ RowsAhead' # RowsAhead
      BY <2>0, <3>3, <3>4, WindowedShrinks
    <3>6. UNCHANGED <<phase, cursor, now, pending>>
      BY <2>6 DEF DecideStep, sched_vars, replay_vars
    <3> QED
      BY <2>0, <2>1, <2>3, <2>4, <2>5, <3>5, <3>6, LeftShrinks
  <2>7. CASE WriteVerdicts
    <3>1. /\ phase = "decide" /\ phase' = "schedule" /\ UNCHANGED <<rows, cursor, now, pending>>
      BY <2>7 DEF WriteVerdicts, vars, sched_vars, replay_vars
    <3>2. PhasesAhead' \subseteq PhasesAhead /\ PhasesAhead' # PhasesAhead
      BY <3>1 DEF PhasesAhead
    <3>3. EventsAhead' = EventsAhead
      BY <3>1 DEF EventsAhead, Event
    <3> QED
      BY <2>0, <2>2, <2>3, <2>4, <3>1, <3>2, <3>3, LeftShrinks
  <2>8. ASSUME NEW t \in Targets, ScheduleRow(t) PROVE StepsLeft' < StepsLeft
    <3>1. /\ cursor[t] < MaxWindows /\ cursor' = [cursor EXCEPT ![t] = cursor[t] + 1]
          /\ UNCHANGED <<phase, rows, now, pending>>
      BY <2>8 DEF ScheduleRow, vars, replay_vars
    <3>2. \A u \in Targets : cursor[u] \in Nat /\ cursor'[u] = IF u = t THEN cursor[u] + 1
                                                                       ELSE cursor[u]
      BY <2>0, <3>1
    <3> DEFINE f == cursor
               g == cursor'
    <3>3. WalksAhead = Windowed(f) /\ WalksAhead' = Windowed(g)
      BY DEF WalksAhead, Windowed
    <3>4. /\ \A u \in Targets : f[u] \in Nat /\ g[u] = IF u = t THEN f[u] + 1 ELSE f[u]
          /\ f[t] < MaxWindows
      BY <3>1, <3>2
    <3> HIDE DEF f, g
    <3>5. WalksAhead' \subseteq WalksAhead /\ WalksAhead' # WalksAhead
      BY <2>0, <3>3, <3>4, WindowedShrinks
    <3> QED
      BY <2>0, <2>1, <2>2, <2>4, <2>5, <3>1, <3>5, LeftShrinks
  <2>9. ASSUME NEW a \in Arms, LoadIsolationSchedule(a) PROVE StepsLeft' < StepsLeft
    <3>1. phase = "schedule" /\ UNCHANGED <<rows, cursor, now>>
          /\ phase' \in {"fatal", "replay"}
      BY <2>9 DEF LoadIsolationSchedule, vars, sched_vars
    <3>2. phase' = "replay" /\ pending' \subseteq Event
      BY <1>2, <3>1 DEF PInv, PipelineTypeOK, Event
    <3>3. PhasesAhead' \subseteq PhasesAhead /\ PhasesAhead' # PhasesAhead
      BY <3>1, <3>2 DEF PhasesAhead
    <3>4. EventsAhead' \subseteq EventsAhead
      BY <3>1, <3>2 DEF EventsAhead
    <3> QED
      BY <2>0, <2>2, <2>3, <2>4, <3>1, <3>3, <3>4, LeftShrinks
  <2>10. ASSUME NEW e \in pending, ApplyIsolationEvent(e) PROVE StepsLeft' < StepsLeft
    <3>1. /\ phase = "replay" /\ pending' = pending \ {e}
          /\ UNCHANGED <<phase, rows, cursor, now>>
      BY <2>10 DEF ApplyIsolationEvent, vars, sched_vars
    <3>2. EventsAhead' \subseteq EventsAhead /\ EventsAhead' # EventsAhead
      BY <3>1 DEF EventsAhead
    <3> QED
      BY <2>0, <2>1, <2>2, <2>3, <2>4, <3>1, <3>2, LeftShrinks
  <2>11. CASE Tick
    <3>1. /\ now < MaxWindows /\ now' = now + 1 /\ now \in Nat
          /\ UNCHANGED <<phase, rows, cursor, pending>>
      BY <2>0, <2>11 DEF Tick, vars, sched_vars, PipelineTypeOK
    <3>2. TicksAhead' \subseteq TicksAhead /\ TicksAhead' # TicksAhead
      <4>1. now + 1 \in TicksAhead /\ now + 1 \notin TicksAhead'
        BY <2>0, <3>1 DEF TicksAhead
      <4>2. TicksAhead' \subseteq TicksAhead
        BY <2>0, <3>1 DEF TicksAhead
      <4> QED
        BY <4>1, <4>2
    <3> QED
      BY <2>0, <2>1, <2>2, <2>3, <2>5, <3>1, <3>2, LeftShrinks
  <2> QED
    BY <1>2, <2>6, <2>7, <2>8, <2>9, <2>10, <2>11 DEF PipelineNext
<1>3. ASSUME PInv, PInv', [PipelineNext]_ivars PROVE [StepsLeft' < StepsLeft]_ivars
  BY <1>2, <1>3
<1> QED
  BY <1>1, <1>3, AlwaysPInv, PTL DEF PipelineSpec

=============================================================================
