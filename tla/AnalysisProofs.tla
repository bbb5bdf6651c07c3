--------------------------- MODULE AnalysisProofs ---------------------------
(***************************************************************************)
(* Proofs about FeatureEmitter, for any number of nodes and attackers, any *)
(* window and any length of run, and about Trust, for any scores, weights, *)
(* decays and number of observers.                                         *)
(*                                                                         *)
(* The rows of the emitter: those written so far add up to the snapshot    *)
(* (Written), and a row written now is none of them because its time is    *)
(* new; the neighbours that changed since the snapshot are no more than    *)
(* the moves counted since (Moves).                                        *)
(*                                                                         *)
(* Trust: a mean lies between any two bounds of what it is the mean of,    *)
(* rounded down or not (MeanBetween), so that consensus, aggregate and     *)
(* history stay between the worst and the best score.  Of a list in order  *)
(* with an element cut from each end, what remains lies between elements   *)
(* other than any one given (RestBounds).                                  *)
(***************************************************************************)
EXTENDS FeatureEmitter, Trust, SumTheorems, SequenceTheorems

----------------------------------------------------------------------------
(* Rows of honest nodes.                                                   *)

Numbers == [Nodes -> [Counters -> Nat]]

(* Counters only grow between two rows. *)
CountersOK ==
    /\ g_ctr \in Numbers /\ g_prev \in Numbers
    /\ \A i \in Nodes, c \in Counters : g_prev[i][c] <= g_ctr[i][c]

(* An honest node drops nothing and has no neighbour it never heard. *)
HonestNodes ==
    /\ g_heard \in [Nodes -> SUBSET Nodes] /\ nbs \in [Nodes -> SUBSET Nodes]
    /\ \A i \in Nodes : ~mal(i) => /\ g_ctr[i]["fwdDrop"] = 0
                                   /\ g_prev[i]["fwdDrop"] = 0
                                   /\ nbs[i] \subseteq g_heard[i]

IInv == CountersOK /\ HonestNodes /\ HonestLooksHonest

LEMMA WholeRatio ==
    ASSUME NEW k \in Nat \ {0}
    PROVE  (100 * k) \div k = 100
OBVIOUS

LEMMA HonestHasNoPartner ==
    ASSUME NEW i \in Nodes, ~mal(i)
    PROVE  Partner(i) = {}
BY FeatureAssumption DEF Nodes, mal, Partner

LEMMA PartnersAreNodes ==
    ASSUME NEW i \in Nodes
    PROVE  Partner(i) \subseteq Nodes
BY FeatureAssumption DEF Nodes, Partner

(* The row an honest node writes. *)
LEMMA HonestRow ==
    ASSUME CountersOK, HonestNodes, NEW i \in Nodes, ~mal(i)
    PROVE  Row(i).fwd_ratio = 100 /\ Row(i).nb_no_rssi = 0
<1> DEFINE d == [c \in Counters |-> g_ctr[i][c] - g_prev[i][c]]
           k == g_ctr[i]["fwdOk"] - g_prev[i]["fwdOk"]
<1>1. "fwdOk" \in Counters /\ "fwdDrop" \in Counters
  BY DEF Counters
<1>2. /\ g_ctr[i] \in [Counters -> Nat] /\ g_prev[i] \in [Counters -> Nat]
      /\ g_prev[i]["fwdOk"] <= g_ctr[i]["fwdOk"]
  BY <1>1 DEF CountersOK, Numbers
<1>3. k \in Nat
  BY <1>1, <1>2
<1>4. d["fwdOk"] = k /\ d["fwdDrop"] = 0
  BY <1>1, <1>2 DEF HonestNodes
<1> HIDE DEF d, k
<1>5. d["fwdOk"] + d["fwdDrop"] = k /\ 100 * d["fwdOk"] = 100 * k
  BY <1>3, <1>4
<1>6. Ratio(d) = IF k = 0 THEN 100 ELSE (100 * k) \div k
  BY <1>5 DEF Ratio
<1>7. Ratio(d) = 100
  BY <1>3, <1>6, WholeRatio
<1>8. nbs[i] \ g_heard[i] = {}
  BY DEF HonestNodes
<1>9. Cardinality(nbs[i] \ g_heard[i]) = 0
  BY <1>8, FS_EmptySet
<1> QED
  BY <1>7, <1>9 DEF Row, d

LEMMA RowLabel == ASSUME NEW i \in Nodes PROVE Row(i).is_malicious = mal(i)
BY Zenon DEF Row

----------------------------------------------------------------------------
(* The steps.                                                              *)

LEMMA CountKeeps ==
    ASSUME IInv, NEW i \in Nodes, Event(i), NEW cs \in SUBSET Counters, Count(i, cs),
           "fwdDrop" \in cs => mal(i)
    PROVE  IInv'
<1> DEFINE f == [c \in Counters |-> g_ctr[i][c] + (IF c \in cs THEN 1 ELSE 0)]
<1>1. /\ g_ctr' = [g_ctr EXCEPT ![i] = f]
      /\ UNCHANGED <<g_heard, nbs, g_prev, rows>>
  BY DEF Count, Event
<1>2. g_ctr \in Numbers /\ g_ctr[i] \in [Counters -> Nat]
  BY DEF IInv, CountersOK, Numbers
<1>3. f \in [Counters -> Nat] /\ \A c \in Counters : g_ctr[i][c] <= f[c]
  BY <1>2
<1>4. ~mal(i) => f["fwdDrop"] = g_ctr[i]["fwdDrop"]
  BY <1>2 DEF Counters
<1> HIDE DEF f
<1>5. \A j \in Nodes : g_ctr'[j] = IF j = i THEN f ELSE g_ctr[j]
  BY <1>1, <1>2 DEF Numbers
<1>6. CountersOK'
  <2>1. g_ctr' \in Numbers
    BY <1>1, <1>2, <1>3 DEF Numbers
  <2>2. g_prev' \in Numbers
    BY <1>1 DEF IInv, CountersOK
  <2>3. ASSUME NEW j \in Nodes, NEW c \in Counters PROVE g_prev'[j][c] <= g_ctr'[j][c]
    <3>1. g_prev[j][c] \in Nat /\ g_ctr[j][c] \in Nat /\ g_prev[j][c] <= g_ctr[j][c]
      BY DEF IInv, CountersOK, Numbers
    <3>2. f[c] \in Nat
      BY <1>3
    <3> QED
      BY <1>1, <1>3, <1>5, <3>1, <3>2
  <2> QED
    BY <2>1, <2>2, <2>3 DEF CountersOK
<1>7. HonestNodes'
  BY <1>1, <1>4, <1>5 DEF IInv, HonestNodes
<1>8. HonestLooksHonest'
  BY <1>1 DEF IInv, HonestLooksHonest
<1> QED
  BY <1>6, <1>7, <1>8 DEF IInv

LEMMA NodeStepKeeps ==
    ASSUME IInv, NEW i \in Nodes, Event(i),
           \/ Forwarding(i) \/ RecvRequest(i) \/ SendRequest(i)
           \/ SnifferRx(i) \/ NeighboursChange(i)
    PROVE  IInv'
<1>1. CASE Forwarding(i)
  <2>1. /\ {"fwdSeen", "fwdDrop"} \in SUBSET Counters /\ {"fwdSeen", "fwdOk"} \in SUBSET Counters
        /\ {"fwdSeen", "noRoute"} \in SUBSET Counters
        /\ "fwdDrop" \notin {"fwdSeen", "fwdOk"} /\ "fwdDrop" \notin {"fwdSeen", "noRoute"}
    BY DEF Counters
  <2> QED
    BY <1>1, <2>1, CountKeeps DEF Forwarding
<1>2. CASE RecvRequest(i) \/ SendRequest(i)
  <2>1. /\ {"rreqRecv"} \in SUBSET Counters /\ {"rrepSent"} \in SUBSET Counters
        /\ "fwdDrop" \notin {"rreqRecv"} /\ "fwdDrop" \notin {"rrepSent"}
    BY DEF Counters
  <2> QED
    BY <1>2, <2>1, CountKeeps DEF RecvRequest, SendRequest
<1>3. CASE SnifferRx(i)
  <2>1. PICK j \in Nodes : g_heard' = [g_heard EXCEPT ![i] = @ \cup {j}]
    BY <1>3 DEF SnifferRx
  <2>2. UNCHANGED <<g_ctr, g_prev, nbs, rows>>
    BY <1>3 DEF SnifferRx, Event
  <2>3. HonestNodes'
    BY <2>1, <2>2 DEF IInv, HonestNodes
  <2> QED
    BY <2>2, <2>3 DEF IInv, CountersOK, HonestLooksHonest
<1>4. CASE NeighboursChange(i)
  <2>1. UNCHANGED <<g_ctr, g_prev, g_heard, rows>>
    BY <1>4 DEF NeighboursChange, Event
  <2>2. PICK N \in SUBSET Nodes : /\ nbs' = [nbs EXCEPT ![i] = N]
                                  /\ N \subseteq nbs[i] \cup g_heard[i] \cup Partner(i)
    <3>1. nbs[i] \subseteq Nodes /\ g_heard[i] \subseteq Nodes /\ Partner(i) \subseteq Nodes
      BY PartnersAreNodes DEF IInv, HonestNodes
    <3>2. CASE \E j \in (g_heard[i] \cup Partner(i)) \ nbs[i] :
                 nbs' = [nbs EXCEPT ![i] = @ \cup {j}]
      <4>1. PICK j \in g_heard[i] \cup Partner(i) : nbs' = [nbs EXCEPT ![i] = @ \cup {j}]
        BY <3>2
      <4>2. /\ nbs[i] \cup {j} \in SUBSET Nodes
            /\ nbs[i] \cup {j} \subseteq nbs[i] \cup g_heard[i] \cup Partner(i)
        BY <3>1
      <4> QED
        BY <4>1, <4>2
    <3>3. CASE \E j \in nbs[i] : nbs' = [nbs EXCEPT ![i] = @ \ {j}]
      <4>1. PICK j \in nbs[i] : nbs' = [nbs EXCEPT ![i] = @ \ {j}]
        BY <3>3
      <4>2. /\ nbs[i] \ {j} \in SUBSET Nodes
            /\ nbs[i] \ {j} \subseteq nbs[i] \cup g_heard[i] \cup Partner(i)
        BY <3>1
      <4> QED
        BY <4>1, <4>2
    <3> QED
      BY <1>4, <3>2, <3>3 DEF NeighboursChange
  <2>3. \A j \in Nodes : nbs'[j] = IF j = i THEN N ELSE nbs[j]
    BY <2>2 DEF IInv, HonestNodes
  <2>4. ~mal(i) => N \subseteq g_heard[i]
    BY <2>2, HonestHasNoPartner DEF IInv, HonestNodes
  <2>5. nbs' \in [Nodes -> SUBSET Nodes]
    BY <2>2 DEF IInv, HonestNodes
  <2>6. HonestNodes'
    BY <2>1, <2>3, <2>4, <2>5 DEF IInv, HonestNodes
  <2> QED
    BY <2>1, <2>6 DEF IInv, CountersOK, HonestLooksHonest
<1> QED
  BY <1>1, <1>2, <1>3, <1>4

LEMMA EmitWindowKeeps ==
    ASSUME IInv, EmitWindow
    PROVE  IInv'
<1>1. /\ rows' = rows \cup {Row(i) : i \in Nodes}
      /\ g_prev' = g_ctr /\ UNCHANGED <<g_ctr, g_heard, nbs>>
  BY DEF EmitWindow, Snapshot
<1>2. CountersOK'
  BY <1>1 DEF IInv, CountersOK, Numbers
<1>3. HonestNodes'
  BY <1>1 DEF IInv, HonestNodes
<1>4. \A i \in Nodes : ~Row(i).is_malicious => Row(i).fwd_ratio = 100 /\ Row(i).nb_no_rssi = 0
  BY HonestRow, RowLabel, Zenon DEF IInv
<1>5. HonestLooksHonest'
  BY <1>1, <1>4 DEF IInv, HonestLooksHonest
<1> QED
  BY <1>2, <1>3, <1>5 DEF IInv

LEMMA Inductive ==
    ASSUME IInv, [Next]_vars
    PROVE  IInv'
<1>1. CASE \E i \in Nodes :
             /\ Event(i)
             /\ Forwarding(i) \/ RecvRequest(i) \/ SendRequest(i) \/ SnifferRx(i)
                  \/ NeighboursChange(i)
  BY <1>1, NodeStepKeeps
<1>2. CASE EmitWindow
  BY <1>2, EmitWindowKeeps
<1>3. CASE Stop \/ Tick \/ UNCHANGED vars
  <2>1. UNCHANGED <<g_ctr, g_prev, g_heard, nbs, rows>>
    BY <1>3 DEF Stop, Tick, vars
  <2> QED
    BY <2>1 DEF IInv, CountersOK, HonestNodes, HonestLooksHonest
<1> QED
  BY <1>1, <1>2, <1>3 DEF Next

LEMMA InitIsIInv == Init => IInv
<1> SUFFICES ASSUME Init PROVE IInv
  OBVIOUS
<1>1. /\ g_ctr = [i \in Nodes |-> [c \in Counters |-> 0]] /\ g_prev = g_ctr
      /\ g_heard = [i \in Nodes |-> {}] /\ nbs = g_heard /\ rows = {}
  BY DEF Init
<1> QED
  BY <1>1 DEF IInv, CountersOK, Numbers, HonestNodes, HonestLooksHonest, Counters

(* EmitWindow never writes a row that makes an honest node look like an    *)
(* attacker, however many packets it has no route for and however often    *)
(* its neighbours come and go: Forwarding counts a drop only at an         *)
(* attacker, and SnifferRx remembers whom a node heard for the whole run.  *)
THEOREM HonestRowsLookHonest == Spec => []HonestLooksHonest
<1>1. IInv => HonestLooksHonest
  BY DEF IInv
<1> QED
  BY <1>1, InitIsIInv, Inductive, PTL DEF Spec

----------------------------------------------------------------------------
(* Rows and counters.                                                      *)

ReportedIn(R, c) == MapThenSumSet(LAMBDA r : r.d[c], R)

RowsOf(R, i) == {r \in R : r.node_id = i}

(* The rows written so far add up to the snapshot. *)
Written ==
    /\ IsFiniteSet(rows) /\ now \in Nat /\ nextEmit \in Nat
    /\ \A r \in rows : /\ r.time_s \in Nat /\ r.time_s < nextEmit
                       /\ \A c \in Counters : r.d[c] \in Int
    /\ \A i \in Nodes, c \in Counters : Reported(rows, i, c) = g_prev[i][c]

(* What became of the packets to forward. *)
Settles(k) == k["fwdSeen"] = k["fwdOk"] + k["fwdDrop"] + k["noRoute"]

Balanced == \A i \in Nodes : Settles(g_ctr[i]) /\ Settles(g_prev[i])

Changed(i) == (nbs[i] \ prevNb[i]) \cup (prevNb[i] \ nbs[i])

Moves ==
    /\ moves \in [Nodes -> Nat] /\ prevNb \in [Nodes -> SUBSET Nodes]
    /\ \A i \in Nodes : Cardinality(Changed(i)) <= moves[i]

FInv == IInv /\ Written /\ Balanced /\ Moves

LEMMA ReportedInSum ==
    ASSUME NEW c, NEW R, IsFiniteSet(R)
    PROVE  ReportedIn(R, c) = SumFunctionOnSet([r \in R |-> r.d[c]], R)
<1> DEFINE f == [r \in R |-> r.d[c]]
           F(h, s) == IF s = {} THEN 0 ELSE f[Some(s)] + h[s \ {Some(s)}]
           G(h, s) == IF s = {} THEN 0 ELSE Some(s).d[c] + h[s \ {Some(s)}]
           h == CHOOSE h : h = [s \in SUBSET R |-> G(h, s)]
<1>1. ReportedIn(R, c) = h[R]
  BY DEF ReportedIn, MapThenSumSet, MapThenFoldSet, Some
<1>2. ASSUME NEW g, NEW s \in SUBSET R
      PROVE  F(g, s) = G(g, s)
  <2>1. s # {} => Some(s) \in R
    BY SomeElement
  <2> QED
    BY <2>1
<1> HIDE DEF f, F, G
<1>3. ASSUME NEW g
      PROVE  [s \in SUBSET R |-> F(g, s)] = [s \in SUBSET R |-> G(g, s)]
  BY <1>2
<1>4. PICK g : Adds(g, f, R)
  BY AddsExists
<1>5. g = [s \in SUBSET R |-> G(g, s)]
  BY <1>3, <1>4 DEF Adds, F
<1>6. h = [s \in SUBSET R |-> G(h, s)]
  BY <1>5
<1> HIDE DEF h
<1>7. Adds(h, f, R)
  BY <1>3, <1>6 DEF Adds, F
<1>8. SumFunctionOnSet(f, R) = h[R]
  BY <1>7, SumIsAdded
<1> QED
  BY <1>1, <1>8 DEF f

LEMMA ReportedInOneMore ==
    ASSUME NEW c, NEW R, IsFiniteSet(R), NEW e, e \notin R,
           \A r \in R : r.d[c] \in Int, e.d[c] \in Int
    PROVE  ReportedIn(R \cup {e}, c) = ReportedIn(R, c) + e.d[c]
<1> DEFINE S == R \cup {e}
           f == [r \in S |-> r.d[c]]
           g == [r \in R |-> r.d[c]]
<1>1. IsFiniteSet(S) /\ e \in S /\ S \ {e} = R
  BY FS_AddElement
<1>2. \A x \in S : f[x] \in Int
  OBVIOUS
<1>3. f[e] = e.d[c] /\ \A x \in R : f[x] = g[x]
  OBVIOUS
<1>4. ReportedIn(S, c) = SumFunctionOnSet(f, S) /\ ReportedIn(R, c) = SumFunctionOnSet(g, R)
  BY <1>1, ReportedInSum
<1> HIDE DEF S, f, g
<1>5. SumFunctionOnSet(f, S) = SumFunctionOnSet(f, R) + f[e]
  BY <1>1, <1>2, SumOfOneMore
<1>6. SumFunctionOnSet(f, R) = SumFunctionOnSet(g, R)
  BY <1>3, SumsAgree
<1> QED
  BY <1>3, <1>4, <1>5, <1>6 DEF S

LEMMA RowFields ==
    ASSUME NEW i \in Nodes
    PROVE  /\ Row(i).time_s = now /\ Row(i).node_id = i
           /\ Row(i).d = [c \in Counters |-> g_ctr[i][c] - g_prev[i][c]]
           /\ Row(i).nb_churn = Cardinality(Changed(i))
BY Zenon DEF Row, Changed

LEMMA NodesFinite == IsFiniteSet(Nodes)
BY FeatureAssumption, FS_Interval DEF Nodes

(* Whatever writes no row. *)
LEMMA NoRowKeepsWritten ==
    ASSUME Written, UNCHANGED <<rows, g_prev, nextEmit>>, now' \in Nat
    PROVE  Written' /\ NewRowsAddUp /\ NewChurnIsReal
<1>1. NewRowsAddUp
  BY DEF NewRowsAddUp
<1>2. NewChurnIsReal
  <2>1. rows' \ rows = {}
    OBVIOUS
  <2> QED
    BY <2>1 DEF NewChurnIsReal
<1>3. Written'
  BY DEF Written
<1> QED
  BY <1>1, <1>2, <1>3

LEMMA EmitWindowWrites ==
    ASSUME FInv, EmitWindow
    PROVE  Written' /\ NewRowsAddUp /\ NewChurnIsReal
<1> DEFINE New == {Row(i) : i \in Nodes}
<1>1. /\ rows' = rows \cup New /\ g_prev' = g_ctr /\ now = nextEmit
      /\ nextEmit' = now + Win /\ now' = now
  BY DEF EmitWindow, Snapshot
<1>2. now \in Nat /\ nextEmit \in Nat /\ Win \in Nat \ {0}
  BY FeatureAssumption DEF FInv, Written
<1>3. /\ \A r \in rows : /\ r.time_s \in Nat /\ r.time_s < nextEmit
                         /\ \A c \in Counters : r.d[c] \in Int
      /\ \A i \in Nodes, c \in Counters : Reported(rows, i, c) = g_prev[i][c]
      /\ IsFiniteSet(rows)
  BY DEF FInv, Written
<1>4. \A i \in Nodes, c \in Counters :
         /\ g_ctr[i][c] \in Nat /\ g_prev[i][c] \in Nat
         /\ Row(i).d[c] = g_ctr[i][c] - g_prev[i][c]
  BY RowFields DEF FInv, IInv, CountersOK, Numbers
<1>5. \A i \in Nodes : Row(i) \notin rows
  <2> SUFFICES ASSUME NEW i \in Nodes PROVE Row(i) \notin rows
    OBVIOUS
  <2>1. Row(i).time_s = now
    BY RowFields
  <2>2. \A r \in rows : r.time_s < now
    BY <1>1, <1>3
  <2> QED
    BY <1>2, <2>1, <2>2
<1>6. IsFiniteSet(rows')
  <2>1. [i \in Nodes |-> Row(i)] \in Surjection(Nodes, New)
    BY DEF Surjection
  <2>2. IsFiniteSet(New)
    BY <2>1, NodesFinite, FS_Surjection DEF ExistsSurjection
  <2> QED
    BY <1>1, <1>3, <2>2, FS_Union
<1>7. ASSUME NEW r \in rows'
      PROVE  /\ r.time_s \in Nat /\ r.time_s < nextEmit'
             /\ \A c \in Counters : r.d[c] \in Int
  <2>1. CASE r \in rows
    <3>1. r.time_s \in Nat /\ r.time_s < now /\ now < nextEmit'
      BY <1>1, <1>2, <1>3, <2>1
    <3>2. r.time_s < nextEmit'
      BY <1>1, <1>2, <3>1
    <3> QED
      BY <1>3, <2>1, <3>1, <3>2
  <2>2. CASE r \in New
    <3>1. PICK i \in Nodes : r = Row(i)
      BY <2>2
    <3>2. r.time_s = now
      BY <3>1, RowFields
    <3>3. now \in Nat /\ now < nextEmit'
      BY <1>1, <1>2
    <3>4. \A c \in Counters : r.d[c] \in Int
      BY <1>4, <3>1
    <3> QED
      BY <3>2, <3>3, <3>4
  <2> QED
    BY <1>1, <2>1, <2>2
<1>8. ASSUME NEW i \in Nodes, NEW c \in Counters
      PROVE  Reported(rows', i, c) = g_ctr[i][c]
  <2>1. RowsOf(rows', i) = RowsOf(rows, i) \cup {Row(i)}
    <3>1. RowsOf(rows', i) = {r \in rows \cup New : r.node_id = i}
      BY <1>1 DEF RowsOf
    <3>2. \A r \in New : r.node_id = i <=> r = Row(i)
      BY RowFields
    <3>3. Row(i) \in New
      OBVIOUS
    <3> HIDE DEF New
    <3> QED
      BY <3>1, <3>2, <3>3 DEF RowsOf
  <2>2. /\ RowsOf(rows, i) \subseteq rows /\ IsFiniteSet(RowsOf(rows, i)) /\ Row(i) \notin RowsOf(rows, i)
        /\ \A r \in RowsOf(rows, i) : r.d[c] \in Int
    BY <1>3, <1>5, FS_Subset DEF RowsOf
  <2>3. Row(i).d[c] \in Int
    BY <1>4
  <2>4. ReportedIn(RowsOf(rows, i) \cup {Row(i)}, c) = ReportedIn(RowsOf(rows, i), c) + Row(i).d[c]
    BY <2>2, <2>3, ReportedInOneMore
  <2>5. Reported(rows, i, c) = ReportedIn(RowsOf(rows, i), c)
    BY DEF Reported, ReportedIn, RowsOf
  <2>6. Reported(rows', i, c) = ReportedIn(RowsOf(rows', i), c)
    BY DEF Reported, ReportedIn, RowsOf
  <2> QED
    BY <1>3, <1>4, <2>1, <2>4, <2>5, <2>6
<1>9. Written'
  BY <1>1, <1>2, <1>6, <1>7, <1>8 DEF Written
<1>10. ASSUME NEW i \in Nodes
       PROVE  Settles(Row(i).d) /\ Row(i).nb_churn <= moves[Row(i).node_id]
  <2>1. Settles(g_ctr[i]) /\ Settles(g_prev[i]) /\ Cardinality(Changed(i)) <= moves[i]
    BY DEF FInv, Balanced, Moves
  <2>2. Settles(Row(i).d)
    BY <1>4, <2>1 DEF Settles, Counters
  <2> QED
    BY <2>1, <2>2, RowFields
<1>11. \A r \in rows' \ rows : \E i \in Nodes : r = Row(i)
  BY <1>1
<1>12. NewChurnIsReal
  BY <1>10, <1>11 DEF NewChurnIsReal
<1>13. NewRowsAddUp
  BY <1>8, <1>10, <1>11 DEF NewRowsAddUp, Settles
<1> QED
  BY <1>9, <1>12, <1>13

LEMMA CountKeepsBalance ==
    ASSUME FInv, NEW i \in Nodes, NEW cs \in SUBSET Counters, Count(i, cs),
           UNCHANGED g_prev,
           \/ "fwdSeen" \in cs /\ \E x \in {"fwdOk", "fwdDrop", "noRoute"} : cs = {"fwdSeen", x}
           \/ cs \in {{"rreqRecv"}, {"rrepSent"}}
    PROVE  Balanced'
<1> DEFINE f == [c \in Counters |-> g_ctr[i][c] + (IF c \in cs THEN 1 ELSE 0)]
<1>1. g_ctr' = [g_ctr EXCEPT ![i] = f]
  BY DEF Count
<1>2. g_ctr \in Numbers /\ g_ctr[i] \in [Counters -> Nat]
  BY DEF FInv, IInv, CountersOK, Numbers
<1>3. Settles(g_ctr[i])
  BY DEF FInv, Balanced
<1>4. Settles(f)
  BY <1>2, <1>3 DEF Settles, Counters
<1> HIDE DEF f
<1>5. \A j \in Nodes : g_ctr'[j] = IF j = i THEN f ELSE g_ctr[j]
  BY <1>1, <1>2 DEF Numbers
<1> QED
  BY <1>4, <1>5 DEF FInv, Balanced

(* One neighbour more or less changes the difference by one at most. *)
LEMMA ChangedByOne ==
    ASSUME NEW N \in SUBSET Nodes, NEW P \in SUBSET Nodes, NEW M \in SUBSET Nodes,
           NEW j \in Nodes, M \in {N \cup {j}, N \ {j}}
    PROVE  Cardinality((M \ P) \cup (P \ M)) <= Cardinality((N \ P) \cup (P \ N)) + 1
<1> DEFINE C == (N \ P) \cup (P \ N)
           D == (M \ P) \cup (P \ M)
<1>1. D \subseteq C \cup {j} /\ C \subseteq Nodes
  OBVIOUS
<1> HIDE DEF C, D
<1>2. IsFiniteSet(C) /\ IsFiniteSet(C \cup {j})
  BY <1>1, NodesFinite, FS_Subset, FS_AddElement
<1>3. Cardinality(C) \in Nat /\ Cardinality(C \cup {j}) \in Nat
      /\ Cardinality(C \cup {j}) <= Cardinality(C) + 1
  BY <1>2, FS_AddElement, FS_CardinalityType
<1>4. Cardinality(D) \in Nat /\ Cardinality(D) <= Cardinality(C \cup {j})
  BY <1>1, <1>2, FS_Subset, FS_CardinalityType
<1>5. Cardinality(D) <= Cardinality(C) + 1
  BY <1>3, <1>4
<1> QED
  BY <1>5 DEF C, D

LEMMA NodeStepKeepsFInv ==
    ASSUME FInv, NEW i \in Nodes, Event(i),
           \/ Forwarding(i) \/ RecvRequest(i) \/ SendRequest(i)
           \/ SnifferRx(i) \/ NeighboursChange(i)
    PROVE  FInv' /\ NewRowsAddUp /\ NewChurnIsReal
<1>1. UNCHANGED <<now, g_prev, prevNb, nextEmit, rows>>
  BY DEF Event
<1>2. IInv'
  BY NodeStepKeeps DEF FInv
<1>3. Written' /\ NewRowsAddUp /\ NewChurnIsReal
  BY <1>1, NoRowKeepsWritten DEF FInv, Written
<1>4. CASE Forwarding(i) \/ RecvRequest(i) \/ SendRequest(i)
  <2>1. UNCHANGED <<nbs, moves>>
    BY <1>4 DEF Forwarding, RecvRequest, SendRequest, Count
  <2>2. Moves'
    BY <1>1, <2>1 DEF FInv, Moves, Changed
  <2>3. Balanced'
    <3>1. /\ {"fwdSeen", "fwdDrop"} \in SUBSET Counters
          /\ {"fwdSeen", "fwdOk"} \in SUBSET Counters
          /\ {"fwdSeen", "noRoute"} \in SUBSET Counters
          /\ {"rreqRecv"} \in SUBSET Counters /\ {"rrepSent"} \in SUBSET Counters
      BY DEF Counters
    <3>2. CASE Count(i, {"fwdSeen", "fwdDrop"})
      BY <1>1, <3>1, <3>2, CountKeepsBalance
    <3>3. CASE Count(i, {"fwdSeen", "fwdOk"})
      BY <1>1, <3>1, <3>3, CountKeepsBalance
    <3>4. CASE Count(i, {"fwdSeen", "noRoute"})
      BY <1>1, <3>1, <3>4, CountKeepsBalance
    <3>5. CASE Count(i, {"rreqRecv"}) \/ Count(i, {"rrepSent"})
      BY <1>1, <3>1, <3>5, CountKeepsBalance
    <3> QED
      BY <1>4, <3>2, <3>3, <3>4, <3>5 DEF Forwarding, RecvRequest, SendRequest
  <2> QED
    BY <1>2, <1>3, <2>2, <2>3 DEF FInv
<1>5. CASE SnifferRx(i)
  <2>1. UNCHANGED <<g_ctr, nbs, moves>>
    BY <1>5 DEF SnifferRx
  <2>2. Moves' /\ Balanced'
    BY <1>1, <2>1 DEF FInv, Moves, Changed, Balanced
  <2> QED
    BY <1>2, <1>3, <2>2 DEF FInv
<1>6. CASE NeighboursChange(i)
  <2>1. UNCHANGED g_ctr /\ moves' = [moves EXCEPT ![i] = @ + 1]
    BY <1>6 DEF NeighboursChange
  <2>2. Balanced'
    BY <1>1, <2>1 DEF FInv, Balanced
  <2>3. /\ nbs \in [Nodes -> SUBSET Nodes] /\ g_heard \in [Nodes -> SUBSET Nodes]
        /\ prevNb \in [Nodes -> SUBSET Nodes] /\ moves \in [Nodes -> Nat]
        /\ \A n \in Nodes : Cardinality(Changed(n)) <= moves[n]
    BY DEF FInv, Moves, IInv, HonestNodes
  <2>4. PICK j \in Nodes, M \in SUBSET Nodes :
           M \in {nbs[i] \cup {j}, nbs[i] \ {j}} /\ nbs' = [nbs EXCEPT ![i] = M]
    <3>1. Partner(i) \subseteq Nodes /\ g_heard[i] \subseteq Nodes /\ nbs[i] \subseteq Nodes
      BY <2>3, PartnersAreNodes
    <3> QED
      BY <1>6, <3>1 DEF NeighboursChange
  <2>5. /\ nbs[i] \in SUBSET Nodes /\ M \in SUBSET Nodes /\ prevNb[i] \in SUBSET Nodes
        /\ nbs'[i] = M /\ \A n \in Nodes \ {i} : nbs'[n] = nbs[n]
    BY <2>3, <2>4
  <2>6. Cardinality(Changed(i)') <= Cardinality(Changed(i)) + 1
    BY <1>1, <2>4, <2>5, ChangedByOne DEF Changed
  <2>7. Cardinality(Changed(i)) \in Nat /\ Cardinality(Changed(i)') \in Nat
    <3>1. Changed(i) \subseteq Nodes /\ Changed(i)' \subseteq Nodes
      BY <1>1, <2>5 DEF Changed
    <3> QED
      BY <3>1, NodesFinite, FS_Subset, FS_CardinalityType
  <2>8. \A n \in Nodes \ {i} : Changed(n)' = Changed(n) /\ moves'[n] = moves[n]
    BY <1>1, <2>1, <2>3, <2>5 DEF Changed
  <2>9. moves'[i] = moves[i] + 1 /\ moves' \in [Nodes -> Nat] /\ moves[i] \in Nat
    BY <2>1, <2>3
  <2>10. Cardinality(Changed(i)') <= moves'[i]
    BY <2>3, <2>6, <2>7, <2>9
  <2>11. Moves'
    BY <1>1, <2>3, <2>8, <2>9, <2>10 DEF Moves
  <2> QED
    BY <1>2, <1>3, <2>2, <2>11 DEF FInv
<1> QED
  BY <1>4, <1>5, <1>6

LEMMA EmitWindowKeepsFInv ==
    ASSUME FInv, EmitWindow
    PROVE  FInv' /\ NewRowsAddUp /\ NewChurnIsReal
<1>1. /\ g_prev' = g_ctr /\ prevNb' = nbs /\ moves' = [i \in Nodes |-> 0]
      /\ UNCHANGED <<g_ctr, nbs>>
  BY DEF EmitWindow, Snapshot
<1>2. IInv'
  BY EmitWindowKeeps DEF FInv
<1>3. Balanced'
  BY <1>1 DEF FInv, Balanced
<1>4. Moves'
  <2>1. \A i \in Nodes : Changed(i)' = {}
    BY <1>1 DEF Changed
  <2>2. nbs \in [Nodes -> SUBSET Nodes]
    BY DEF FInv, IInv, HonestNodes
  <2> QED
    BY <1>1, <2>1, <2>2, FS_EmptySet DEF Moves
<1> QED
  BY <1>2, <1>3, <1>4, EmitWindowWrites DEF FInv

LEMMA StepKeepsFInv ==
    ASSUME FInv, [Next]_vars
    PROVE  FInv' /\ NewRowsAddUp /\ NewChurnIsReal
<1>1. CASE \E i \in Nodes :
             /\ Event(i)
             /\ Forwarding(i) \/ RecvRequest(i) \/ SendRequest(i) \/ SnifferRx(i)
                  \/ NeighboursChange(i)
  BY <1>1, NodeStepKeepsFInv
<1>2. CASE EmitWindow
  BY <1>2, EmitWindowKeepsFInv
<1>3. CASE Stop \/ Tick \/ UNCHANGED vars
  <2>1. UNCHANGED <<g_ctr, g_prev, nbs, prevNb, moves, nextEmit, rows>> /\ now' \in Nat
    BY <1>3 DEF Stop, Tick, vars, FInv, Written
  <2>2. IInv'
    BY Inductive DEF FInv
  <2>3. Balanced' /\ Moves'
    BY <2>1 DEF FInv, Balanced, Moves, Changed
  <2> QED
    BY <2>1, <2>2, <2>3, NoRowKeepsWritten DEF FInv
<1> QED
  BY <1>1, <1>2, <1>3 DEF Next

LEMMA InitIsFInv == Init => FInv
<1> SUFFICES ASSUME Init PROVE FInv
  OBVIOUS
<1>1. /\ g_ctr = [i \in Nodes |-> [c \in Counters |-> 0]] /\ g_prev = g_ctr
      /\ nbs = [i \in Nodes |-> {}] /\ prevNb = nbs /\ moves = [i \in Nodes |-> 0]
      /\ rows = {} /\ now = 0 /\ nextEmit = Win
  BY DEF Init
<1>2. Written
  <2>1. ASSUME NEW i \in Nodes, NEW c \in Counters
        PROVE  Reported(rows, i, c) = g_prev[i][c]
    <3>1. RowsOf(rows, i) = {}
      BY <1>1 DEF RowsOf
    <3>2. Reported(rows, i, c) = ReportedIn(RowsOf(rows, i), c)
      BY DEF Reported, ReportedIn, RowsOf
    <3>3. ReportedIn({}, c) = 0
      BY ReportedInSum, SumOfNone, FS_EmptySet
    <3> QED
      BY <1>1, <3>1, <3>2, <3>3
  <2> QED
    BY <1>1, <2>1, FeatureAssumption, FS_EmptySet DEF Written
<1>3. Balanced
  BY <1>1 DEF Balanced, Settles, Counters
<1>4. Moves
  <2>1. \A i \in Nodes : Changed(i) = {}
    BY <1>1 DEF Changed
  <2> QED
    BY <1>1, <2>1, FS_EmptySet DEF Moves
<1> QED
  BY <1>2, <1>3, <1>4, InitIsIInv DEF FInv

(* RowsAddUp: EmitWindow takes its differences and its snapshot of the     *)
(* same counters, so that no event at a node is lost between two rows or   *)
(* counted in both, and packets to forward are accounted for in every row. *)
THEOREM FeatureRowsAddUp == Spec => RowsAddUp
<1>1. FInv /\ [Next]_vars => FInv' /\ [NewRowsAddUp]_vars
  BY StepKeepsFInv
<1> QED
  BY <1>1, InitIsFInv, PTL DEF Spec, RowsAddUp

(* ChurnIsReal: the neighbours compared are those of the last row, so that *)
(* nb_churn never exceeds the changes there were since.                    *)
THEOREM FeatureChurnIsReal == Spec => ChurnIsReal
<1>1. FInv /\ [Next]_vars => FInv' /\ [NewChurnIsReal]_vars
  BY StepKeepsFInv
<1> QED
  BY <1>1, InitIsFInv, PTL DEF Spec, ChurnIsReal

----------------------------------------------------------------------------
(* Numbers.                                                                *)

LEMMA TimesMonotone ==
    ASSUME NEW a \in Int, NEW b \in Int, a <= b, NEW n \in Nat
    PROVE  a * n \in Int /\ b * n \in Int /\ a * n <= b * n
<1> DEFINE d == b - a
<1>1. d \in Nat /\ b = a + d
  OBVIOUS
<1> HIDE DEF d
<1>2. b * n = a * n + d * n /\ d * n \in Nat /\ a * n \in Int
  BY <1>1
<1> QED
  BY <1>2

(* A mean, rounded down, lies between any bounds of what it is the mean of.*)
LEMMA MeanBetween ==
    ASSUME NEW n \in Nat \ {0}, NEW lo \in Int, NEW hi \in Int,
           NEW s \in (lo * n)..(hi * n)
    PROVE  s \div n \in lo..hi
<1> DEFINE q == s \div n
           r == s % n
<1>0. lo * n \in Int /\ hi * n \in Int /\ s \in Int
  OBVIOUS
<1>1. q \in Int /\ r \in 0..(n - 1) /\ s = n * q + r
  BY <1>0
<1> HIDE DEF q, r
<1>2. q * n = n * q /\ n * q \in Int
  BY <1>1
<1>3. lo <= q
  <2> SUFFICES ASSUME q + 1 <= lo PROVE FALSE
    BY <1>1
  <2>1. q + 1 \in Int /\ (q + 1) * n <= lo * n
    BY <1>1, TimesMonotone
  <2>2. (q + 1) * n = q * n + n
    BY <1>1
  <2> QED
    BY <1>0, <1>1, <1>2, <2>1, <2>2
<1>4. q <= hi
  <2> SUFFICES ASSUME hi + 1 <= q PROVE FALSE
    BY <1>1
  <2>1. hi + 1 \in Int /\ (hi + 1) * n <= q * n
    BY <1>1, TimesMonotone
  <2>2. (hi + 1) * n = hi * n + n
    OBVIOUS
  <2> QED
    BY <1>0, <1>1, <1>2, <2>1, <2>2
<1> QED
  BY <1>1, <1>3, <1>4 DEF q

(* Bounds of a set of scores. *)
LEMMA Bounds ==
    ASSUME NEW S, S \subseteq Scores, S # {}
    PROVE  /\ Min(S) \in S /\ Max(S) \in S
           /\ \A x \in S : x \in Int /\ Min(S) <= x /\ x <= Max(S)
<1>1. S \subseteq Nat /\ \A x \in S : Scale - x \in Nat
  BY TrustAssumption
<1>2. \E m \in S : \A x \in S : m <= x
  <2>1. PICK m \in S : \A y \in S : ~(<<y, m>> \in OpToRel(<, Nat))
    BY <1>1, NatLessThanWellFounded, WFMin
  <2>2. \A x \in S : m <= x
    <3> SUFFICES ASSUME NEW x \in S PROVE m <= x
      OBVIOUS
    <3>1. x \in Nat /\ m \in Nat
      BY <1>1
    <3>2. ~(x < m)
      BY <2>1, <3>1 DEF OpToRel
    <3> QED
      BY <3>1, <3>2
  <2> QED
    BY <2>2
<1>3. \E m \in S : \A x \in S : x <= m
  <2> DEFINE T == {Scale - x : x \in S}
  <2>1. T \subseteq Nat /\ T # {}
    BY <1>1
  <2>2. PICK k \in T : \A y \in T : ~(<<y, k>> \in OpToRel(<, Nat))
    BY <2>1, NatLessThanWellFounded, WFMin
  <2>3. PICK m \in S : k = Scale - m
    BY <2>2
  <2>4. \A x \in S : x <= m
    <3> SUFFICES ASSUME NEW x \in S PROVE x <= m
      OBVIOUS
    <3>1. Scale - x \in T
      OBVIOUS
    <3>2. ~(Scale - x < Scale - m)
      BY <2>1, <2>2, <2>3, <3>1 DEF OpToRel
    <3>3. x \in Nat /\ m \in Nat /\ Scale \in Nat
      BY <1>1, TrustAssumption
    <3> QED
      BY <3>2, <3>3
  <2> QED
    BY <2>4
<1>4. Min(S) \in S /\ \A x \in S : Min(S) <= x
  BY <1>2 DEF Min
<1>5. Max(S) \in S /\ \A x \in S : x <= Max(S)
  BY <1>3 DEF Max
<1> QED
  BY <1>1, <1>4, <1>5

(* Of more scores the bounds are wider. *)
LEMMA BoundsWiden ==
    ASSUME NEW S, NEW T, S \subseteq T, T \subseteq Scores, S # {}
    PROVE  Min(S)..Max(S) \subseteq Min(T)..Max(T)
<1>1. S \subseteq Scores /\ T # {}
  OBVIOUS
<1>2. Min(S) \in T /\ Max(S) \in T
  BY <1>1, Bounds
<1>3. /\ Min(S) \in Int /\ Max(S) \in Int /\ Min(T) \in Int /\ Max(T) \in Int
      /\ Min(T) <= Min(S) /\ Max(S) <= Max(T)
  BY <1>1, <1>2, Bounds
<1> QED
  BY <1>3

----------------------------------------------------------------------------
(* Consensus.                                                              *)

LEMMA SequenceSum ==
    ASSUME NEW v
    PROVE  FoldSeq(+, 0, v) = SumFunctionOnSet(v, DOMAIN v)
BY DEF FoldSeq, FoldFunction, SumFunctionOnSet

LEMMA SequenceMean ==
    ASSUME NEW v \in Seq(Int), v # << >>, NEW lo \in Int, NEW hi \in Int,
           \A i \in 1..Len(v) : v[i] \in lo..hi
    PROVE  FoldSeq(+, 0, v) \div Len(v) \in lo..hi
<1>1. Len(v) \in Nat \ {0} /\ DOMAIN v = 1..Len(v)
  OBVIOUS
<1>2. IsFiniteSet(1..Len(v)) /\ Cardinality(1..Len(v)) = Len(v)
  BY <1>1, FS_Interval
<1>3. SumFunctionOnSet(v, 1..Len(v)) \in (lo * Len(v))..(hi * Len(v))
  <2>1. SumFunctionOnSet(v, 1..Len(v))
            \in (lo * Cardinality(1..Len(v)))..(hi * Cardinality(1..Len(v)))
    BY <1>2, SumBounds
  <2> QED
    BY <1>2, <2>1
<1>4. FoldSeq(+, 0, v) = SumFunctionOnSet(v, 1..Len(v))
  BY <1>1, SequenceSum
<1> QED
  BY <1>1, <1>3, <1>4, MeanBetween

(* What is left of a list, and how many are cut from each end. *)
LEMMA TrimmedList ==
    ASSUME NEW v \in Seq(Scores), v # << >>
    PROVE  \E k \in Nat :
              /\ Trimmed(v) \in Seq(Int) /\ Trimmed(v) # << >>
              /\ \A j \in 1..Len(Trimmed(v)) : /\ Trimmed(v)[j] = v[k + j]
                                              /\ k + j \in (k + 1)..(Len(v) - k)
              /\ Trim >= 20 /\ Len(v) >= 5 => k >= 1
<1> DEFINE n == Len(v)
           k == (Trim * n) \div 100
<1>1. Trim \in 0..49 /\ Scores \subseteq Int
  BY TrustAssumption
<1>2. n \in Nat \ {0} /\ v \in Seq(Int)
  <2>1. n \in Nat \ {0}
    OBVIOUS
  <2>2. v \in Seq(Int)
    BY <1>1, SeqMonotonic
  <2> QED
    BY <2>1, <2>2
<1>3. Trim * n \in (0 * n)..(49 * n)
  BY <1>1, <1>2, TimesMonotone
<1>4. k \in Nat /\ 100 * k <= 49 * n
  <2> DEFINE p == Trim * n
  <2>1. p \in 0..(49 * n)
    BY <1>2, <1>3
  <2> HIDE DEF p
  <2>2. k = p \div 100
    BY DEF p
  <2> QED
    BY <1>2, <2>1, <2>2
<1>5. n - 2 * k >= 1
  BY <1>2, <1>4
<1>6. Trim >= 20 /\ n >= 5 => k >= 1
  <2> SUFFICES ASSUME Trim >= 20, n >= 5 PROVE k >= 1
    OBVIOUS
  <2> DEFINE p == Trim * n
  <2>1. 20 * n <= p /\ p \in Int
    BY <1>1, <1>2, TimesMonotone
  <2> HIDE DEF p
  <2>2. k = p \div 100
    BY DEF p
  <2> QED
    BY <1>2, <2>1, <2>2
<1>7. CASE n >= 5 /\ k > 0
  <2>1. Trimmed(v) = SubSeq(v, k + 1, n - k)
    BY <1>5, <1>7 DEF Trimmed
  <2> HIDE DEF n, k
  <2>2. k + 1 \in 1..n /\ n - k \in 1..n /\ k + 1 <= n - k
    BY <1>2, <1>4, <1>5
  <2>3. /\ Trimmed(v) \in Seq(Int) /\ Len(Trimmed(v)) = (n - k) - (k + 1) + 1
        /\ \A j \in 1..((n - k) - (k + 1) + 1) : Trimmed(v)[j] = v[(k + 1) + j - 1]
    BY <1>2, <2>1, <2>2, SubSeqProperties DEF n
  <2>4. Len(Trimmed(v)) = n - 2 * k /\ Len(Trimmed(v)) # 0
    BY <1>2, <1>4, <1>5, <2>3
  <2>5. \A j \in 1..(n - 2 * k) : Trimmed(v)[j] = v[k + j] /\ k + j \in (k + 1)..(n - k)
    BY <1>2, <1>4, <1>5, <2>3
  <2>6. Trimmed(v) # << >>
    BY <2>3, <2>4
  <2>7. \A j \in 1..Len(Trimmed(v)) : Trimmed(v)[j] = v[k + j] /\ k + j \in (k + 1)..(n - k)
    BY <2>4, <2>5
  <2> QED
    BY <1>4, <1>6, <2>3, <2>6, <2>7 DEF n
<1>8. CASE ~(n >= 5 /\ k > 0)
  <2>1. Trimmed(v) = v
    BY <1>8 DEF Trimmed
  <2>2. Trim >= 20 => ~(n >= 5)
    BY <1>4, <1>6, <1>8
  <2> HIDE DEF k
  <2>3. \A j \in 1..n : v[j] = v[0 + j] /\ 0 + j \in (0 + 1)..(n - 0)
    BY <1>2
  <2> QED
    BY <1>2, <2>1, <2>2, <2>3
<1> QED
  BY <1>7, <1>8

(* The consensus lies between any bounds of what was said. *)
LEMMA ConsensusBetween ==
    ASSUME NEW v \in Seq(Scores), v # << >>, NEW lo \in Int, NEW hi \in Int,
           \A i \in 1..Len(v) : v[i] \in lo..hi
    PROVE  TrimmedBoundedMean(v) \in lo..hi
<1>1. PICK k \in Nat :
         /\ Trimmed(v) \in Seq(Int) /\ Trimmed(v) # << >>
         /\ \A j \in 1..Len(Trimmed(v)) : /\ Trimmed(v)[j] = v[k + j]
                                         /\ k + j \in (k + 1)..(Len(v) - k)
  BY TrimmedList
<1>2. \A j \in 1..Len(Trimmed(v)) : Trimmed(v)[j] \in lo..hi
  <2> SUFFICES ASSUME NEW j \in 1..Len(Trimmed(v)) PROVE Trimmed(v)[j] \in lo..hi
    OBVIOUS
  <2>1. k + j \in 1..Len(v)
    BY <1>1
  <2> QED
    BY <1>1, <2>1
<1>3. FoldSeq(+, 0, Trimmed(v)) \div Len(Trimmed(v)) \in lo..hi
  BY <1>1, <1>2, SequenceMean
<1> QED
  BY <1>3 DEF TrimmedBoundedMean

InOrder(v) == v \in Seq(Scores) /\ \A i \in 2..Len(v) : v[i - 1] <= v[i]

LEMMA ListOfScores ==
    ASSUME NEW v \in Seq(Scores)
    PROVE  Len(v) \in Nat /\ \A x \in 1..Len(v) : v[x] \in Scores /\ v[x] \in Nat
<1>1. Len(v) \in Nat
  OBVIOUS
<1>2. ASSUME NEW x \in 1..Len(v)
      PROVE  v[x] \in Scores /\ v[x] \in Nat
  <2>1. v[x] \in Scores
    BY ElementOfSeq
  <2>2. \A s \in Scores : s \in Nat
    BY ONLY TrustAssumption
  <2> QED
    BY ONLY <2>1, <2>2
<1> QED
  BY <1>1, <1>2

LEMMA FarInOrder ==
    ASSUME NEW v, InOrder(v), NEW a \in 1..Len(v), NEW b \in 1..Len(v), a <= b
    PROVE  v[a] <= v[b]
<1>1. Len(v) \in Nat /\ \A x \in 1..Len(v) : v[x] \in Nat
  BY ListOfScores DEF InOrder
<1> DEFINE B == {x \in Nat : x \in a..Len(v) /\ v[x] < v[a]}
<1>2. SUFFICES ASSUME b \in B PROVE FALSE
  BY <1>1
<1>3. PICK x \in B : \A y \in B : ~(<<y, x>> \in OpToRel(<, Nat))
  BY <1>2, NatLessThanWellFounded, WFMin
<1>4. x \in Nat /\ x \in a..Len(v) /\ v[x] < v[a]
  BY <1>3
<1>5. x # a
  <2>1. ~(v[a] < v[a])
    BY <1>1
  <2> QED
    BY <1>4, <2>1
<1>6. x - 1 \in Nat /\ x - 1 \in a..Len(v) /\ x - 1 < x /\ x \in 2..Len(v)
  BY <1>1, <1>4, <1>5
<1>7. x - 1 \notin B
  BY <1>3, <1>4, <1>6 DEF OpToRel
<1>8. ~(v[x - 1] < v[a])
  BY <1>6, <1>7
<1>9. v[x - 1] <= v[x]
  BY <1>6 DEF InOrder
<1>10. v[x] \in Nat /\ v[x - 1] \in Nat /\ v[a] \in Nat
  BY <1>1, <1>4, <1>6
<1> QED
  BY <1>4, <1>8, <1>9, <1>10

(* Neither the first nor the last of a list is worse or better than all    *)
(* the others together.                                                    *)
LEMMA RestBounds ==
    ASSUME NEW v, InOrder(v), Len(v) >= 3, NEW i \in 1..Len(v), NEW m \in 2..(Len(v) - 1)
    PROVE  LET rest == {v[x] : x \in 1..Len(v) \ {i}}
           IN  /\ rest \subseteq Scores /\ rest # {}
               /\ v[m] \in Min(rest)..Max(rest)
<1> DEFINE n == Len(v)
           rest == {v[x] : x \in 1..Len(v) \ {i}}
<1>1. n \in Nat /\ \A x \in 1..n : v[x] \in Scores /\ v[x] \in Nat
  BY ListOfScores DEF InOrder
<1>2. PICK a \in 1..n \ {i} : a <= m
  <2>1. CASE i = 1
    BY <1>1, <2>1
  <2>2. CASE i # 1
    BY <1>1, <2>2
  <2> QED
    BY <2>1, <2>2
<1>3. PICK b \in 1..n \ {i} : m <= b
  <2>1. CASE i = n
    BY <1>1, <2>1
  <2>2. CASE i # n
    BY <1>1, <2>2
  <2> QED
    BY <2>1, <2>2
<1>4. v[a] \in rest /\ v[b] \in rest /\ rest \subseteq Scores
  BY <1>1
<1>5. m \in 1..n
  BY <1>1
<1>6. v[a] <= v[m] /\ v[m] <= v[b]
  BY <1>2, <1>3, <1>5, FarInOrder
<1>7. v[a] \in Nat /\ v[m] \in Nat /\ v[b] \in Nat
  BY <1>1, <1>5
<1> HIDE DEF rest
<1>8. rest # {} /\ Min(rest) \in Int /\ Max(rest) \in Int
      /\ Min(rest) <= v[a] /\ v[b] <= Max(rest)
  BY <1>4, Bounds
<1>9. v[m] \in Min(rest)..Max(rest)
  BY <1>6, <1>7, <1>8
<1> QED
  BY <1>4, <1>8, <1>9 DEF rest

LEMMA OneOfFive ==
    ASSUME Trim >= 20, InOrder(others)
    PROVE  OneLiarIsTrimmed
<1> SUFFICES ASSUME Len(others) >= 5, NEW i \in 1..Len(others)
             PROVE  LET rest == {others[k] : k \in 1..Len(others) \ {i}}
                    IN  TrimmedBoundedMean(others) \in Min(rest)..Max(rest)
  <2>1. DOMAIN others = 1..Len(others)
    BY DEF InOrder
  <2> QED
    BY <2>1 DEF OneLiarIsTrimmed
<1> DEFINE n == Len(others)
           rest == {others[k] : k \in 1..n \ {i}}
<1>1. others \in Seq(Scores) /\ others # << >> /\ n \in Nat
  BY DEF InOrder
<1>2. PICK k \in Nat :
         /\ Trimmed(others) \in Seq(Int) /\ Trimmed(others) # << >>
         /\ \A j \in 1..Len(Trimmed(others)) : /\ Trimmed(others)[j] = others[k + j]
                                              /\ k + j \in (k + 1)..(Len(others) - k)
         /\ Trim >= 20 /\ Len(others) >= 5 => k >= 1
  BY <1>1, TrimmedList
<1>3. ASSUME NEW j \in 1..Len(Trimmed(others))
      PROVE  Trimmed(others)[j] \in Min(rest)..Max(rest)
  <2>1. k + j \in 2..(Len(others) - 1)
    <3>1. k + j \in (k + 1)..(n - k) /\ k >= 1
      BY <1>2
    <3> QED
      BY <1>1, <3>1
  <2>2. others[k + j] \in Min(rest)..Max(rest)
    <3> DEFINE m == k + j
    <3>1. m \in 2..(Len(others) - 1) /\ Len(others) >= 3
      BY <1>1, <2>1
    <3> HIDE DEF m
    <3>2. others[m] \in Min(rest)..Max(rest)
      BY <3>1, RestBounds
    <3> QED
      BY <3>2 DEF m
  <2> QED
    BY <1>2, <2>2
<1>4. Min(rest) \in Int /\ Max(rest) \in Int
  <2>1. 2 \in 2..(Len(others) - 1)
    BY <1>1
  <2>2. rest \subseteq Scores /\ rest # {}
    BY <2>1, RestBounds, <1>1
  <2> HIDE DEF rest
  <2> QED
    BY <2>2, Bounds
<1> HIDE DEF rest
<1>5. FoldSeq(+, 0, Trimmed(others)) \div Len(Trimmed(others)) \in Min(rest)..Max(rest)
  BY <1>2, <1>3, <1>4, SequenceMean
<1> QED
  BY <1>1, <1>5 DEF rest, TrimmedBoundedMean

----------------------------------------------------------------------------
(* Aggregate and history.                                                  *)

LEMMA PartBetween ==
    ASSUME NEW lo \in Int, NEW hi \in Int, NEW w \in Nat \ {0},
           NEW x \in (lo..hi) \cup {NaN}
    PROVE  /\ Weight(x, w) \in Nat /\ (Weight(x, w) = 0 <=> x = NaN)
           /\ Part(x, w) \in (lo * Weight(x, w))..(hi * Weight(x, w))
<1>1. CASE x = NaN
  BY <1>1 DEF Weight, Part
<1>2. CASE x # NaN
  <2>1. x \in Int /\ lo <= x /\ x <= hi
    BY <1>2
  <2>2. lo * w \in Int /\ x * w \in Int /\ hi * w \in Int /\ lo * w <= x * w /\ x * w <= hi * w
    BY <2>1, TimesMonotone
  <2>3. Weight(x, w) = w /\ Part(x, w) = x * w
    BY <1>2 DEF Weight, Part
  <2> QED
    BY <1>2, <2>2, <2>3
<1> QED
  BY <1>1, <1>2

LEMMA AggregateBetween ==
    ASSUME NEW lo \in Int, NEW hi \in Int,
           NEW d \in (lo..hi) \cup {NaN}, NEW r \in (lo..hi) \cup {NaN},
           NEW h \in (lo..hi) \cup {NaN}, ~(d = NaN /\ r = NaN /\ h = NaN)
    PROVE  Aggregate(d, r, h) \in lo..hi
<1> DEFINE a == Weight(d, w_direct)
           b == Weight(r, w_indirect)
           c == Weight(h, w_history)
           x == Part(d, w_direct)
           y == Part(r, w_indirect)
           z == Part(h, w_history)
<1>1. w_direct \in Nat \ {0} /\ w_indirect \in Nat \ {0} /\ w_history \in Nat \ {0}
  BY TrustAssumption
<1>2. /\ a \in Nat /\ (a = 0 <=> d = NaN) /\ x \in (lo * a)..(hi * a)
      /\ b \in Nat /\ (b = 0 <=> r = NaN) /\ y \in (lo * b)..(hi * b)
      /\ c \in Nat /\ (c = 0 <=> h = NaN) /\ z \in (lo * c)..(hi * c)
  <2>1. a \in Nat /\ (a = 0 <=> d = NaN) /\ x \in (lo * a)..(hi * a)
    BY ONLY <1>1, PartBetween, lo \in Int, hi \in Int, d \in (lo..hi) \cup {NaN}
  <2>2. b \in Nat /\ (b = 0 <=> r = NaN) /\ y \in (lo * b)..(hi * b)
    BY ONLY <1>1, PartBetween, lo \in Int, hi \in Int, r \in (lo..hi) \cup {NaN}
  <2>3. c \in Nat /\ (c = 0 <=> h = NaN) /\ z \in (lo * c)..(hi * c)
    BY ONLY <1>1, PartBetween, lo \in Int, hi \in Int, h \in (lo..hi) \cup {NaN}
  <2> HIDE DEF a, b, c, x, y, z
  <2> QED
    BY <2>1, <2>2, <2>3
<1>3. Aggregate(d, r, h) = IF a + b + c = 0 THEN h ELSE (x + y + z) \div (a + b + c)
  BY DEF Aggregate
<1> HIDE DEF a, b, c, x, y, z
<1>4. a + b + c \in Nat \ {0}
  BY <1>2
<1>5. /\ lo * (a + b + c) = lo * a + lo * b + lo * c
      /\ hi * (a + b + c) = hi * a + hi * b + hi * c
      /\ lo * a \in Int /\ lo * b \in Int /\ lo * c \in Int
      /\ hi * a \in Int /\ hi * b \in Int /\ hi * c \in Int
  BY <1>2
<1>6. x + y + z \in (lo * (a + b + c))..(hi * (a + b + c))
  BY <1>2, <1>5
<1>7. (x + y + z) \div (a + b + c) \in lo..hi
  BY <1>4, <1>6, MeanBetween
<1> QED
  BY <1>3, <1>4, <1>7

LEMMA HistoryBetween ==
    ASSUME NEW lo \in Int, NEW hi \in Int, NEW h \in (lo..hi) \cup {NaN},
           NEW u \in lo..hi
    PROVE  History(h, u) \in lo..hi
<1>1. u # NaN /\ NaN \notin Int
  BY TrustAssumption
<1>2. CASE h = NaN
  BY <1>1, <1>2 DEF History
<1>3. CASE h # NaN
  <2> DEFINE lam == IF u < h THEN DecayDown ELSE DecayUp
  <2>1. lam \in 0..100 /\ h \in Int /\ u \in Int
    BY <1>3, TrustAssumption
  <2>2. History(h, u) = (lam * h + (100 - lam) * u) \div 100
    BY <1>1, <1>3 DEF History
  <2> HIDE DEF lam
  <2> DEFINE mu == 100 - lam
  <2>3. lam \in Nat /\ mu \in Nat /\ lam + mu = 100
    BY <2>1
  <2> HIDE DEF mu
  <2>4. /\ lo * lam \in Int /\ h * lam \in Int /\ hi * lam \in Int
        /\ lo * lam <= h * lam /\ h * lam <= hi * lam
        /\ lo * mu \in Int /\ u * mu \in Int /\ hi * mu \in Int
        /\ lo * mu <= u * mu /\ u * mu <= hi * mu
    BY <1>3, <2>1, <2>3, TimesMonotone
  <2>5. lo * 100 = lo * lam + lo * mu /\ hi * 100 = hi * lam + hi * mu
    <3>1. lo * (lam + mu) = lo * lam + lo * mu /\ hi * (lam + mu) = hi * lam + hi * mu
      BY <2>1, <2>3
    <3> QED
      BY <2>3, <3>1
  <2>6. lam * h = h * lam /\ mu * u = u * mu
    BY <2>1, <2>3
  <2>7. lam * h + mu * u \in (lo * 100)..(hi * 100)
    BY <2>4, <2>5, <2>6
  <2>8. (lam * h + mu * u) \div 100 \in lo..hi
    BY <2>7, MeanBetween
  <2> QED
    BY <2>2, <2>8 DEF mu
<1> QED
  BY <1>2, <1>3

(* Without anything measured there is only the history. *)
LEMMA SilenceIsHistory ==
    ASSUME NEW h \in Int \cup {NaN}
    PROVE  Aggregate(NaN, NaN, h) = h /\ History(h, h) = h
<1>1. NaN \notin Int /\ w_history \in Nat \ {0}
  BY TrustAssumption
<1>2. CASE h = NaN
  <2>1. Weight(NaN, w_direct) = 0 /\ Weight(NaN, w_indirect) = 0 /\ Weight(NaN, w_history) = 0
    BY DEF Weight
  <2> QED
    BY <1>2, <2>1 DEF Aggregate, History
<1>3. CASE h # NaN
  <2>1. h \in h..h /\ h \in Int
    BY <1>3
  <2>2. Aggregate(NaN, NaN, h) \in h..h
    BY <1>3, <2>1, AggregateBetween
  <2>3. History(h, h) \in h..h
    BY <2>1, HistoryBetween
  <2> QED
    BY <2>1, <2>2, <2>3
<1> QED
  BY <1>2, <1>3

----------------------------------------------------------------------------
(* The steps.                                                              *)

TInv == seen \subseteq Scores /\ others \in Sorted /\ TrustWithinEvidence

LEMMA ScoresAreNumbers == NaN \notin Scores /\ NaN \notin Int /\ \A s \in Scores : s \in Int
<1>1. NaN \notin Int
  BY TrustAssumption
<1>2. \A s \in Scores : s \in Int
  BY TrustAssumption
<1> QED
  BY ONLY <1>1, <1>2

LEMMA SortedInOrder ==
    ASSUME NEW v \in Sorted
    PROVE  InOrder(v)
<1>1. PICK n \in 0..MaxOthers : v \in [1..n -> Scores]
  BY DEF Sorted
<1>2. v \in Seq(Scores)
  BY <1>1, TrustAssumption, SeqDef
<1> QED
  BY <1>2 DEF Sorted, InOrder

(* What is measured is a score or nothing, and nothing if nothing is.      *)
LEMMA DirectsAreScores ==
    ASSUME NEW o, NEW d \in Directs(o)
    PROVE  d \in Scores \cup {NaN} /\ (~o => d = NaN)
<1>1. PICK m \in (Scores \cup {NaN}) \X (Scores \cup {NaN}) :
         /\ o <=> Gated("behaviour", m[1]) # NaN \/ Gated("localization", m[2]) # NaN
         /\ d \in ComputeDirect(Gated("behaviour", m[1]), Gated("localization", m[2]))
  BY DEF Directs
<1> DEFINE B == Gated("behaviour", m[1])
           L == Gated("localization", m[2])
<1>2. B \in Scores \cup {NaN} /\ L \in Scores \cup {NaN}
  BY DEF Gated
<1>3. d \in ComputeDirect(B, L) /\ (o <=> B # NaN \/ L # NaN)
  BY <1>1
<1> HIDE DEF B, L
<1>4. CASE B = NaN /\ L = NaN
  BY <1>3, <1>4 DEF ComputeDirect
<1>5. CASE B = NaN /\ L # NaN
  BY <1>2, <1>3, <1>5 DEF ComputeDirect
<1>6. CASE B # NaN /\ L = NaN
  BY <1>2, <1>3, <1>6 DEF ComputeDirect
<1>7. CASE B # NaN /\ L # NaN
  <2>1. ComputeDirect(B, L) = Fused(B, L)
    BY <1>7 DEF ComputeDirect
  <2>2. d \in Scores
    BY <1>3, <2>1 DEF Fused
  <2> QED
    BY <1>3, <1>7, <2>2
<1> QED
  BY <1>4, <1>5, <1>6, <1>7

LEMMA WindowKeepsTInv ==
    ASSUME TInv, NEW o, NEW v \in Sorted, NEW d \in Scores \cup {NaN}, Window(o, d, v)
    PROVE  TInv'
<1> DEFINE r == TrimmedBoundedMean(v)
           new == (seen \cup ToSet(v) \cup {d}) \ {NaN}
           u == Aggregate(d, r, history)
<1>1. /\ others' = v /\ trust' = u /\ history' = History(history, u) /\ seen' = new
  BY DEF Window
<1>2. InOrder(v) /\ v \in Seq(Scores) /\ ToSet(v) = {v[k] : k \in 1..Len(v)}
  BY SortedInOrder DEF InOrder, ToSet
<1>3. ToSet(v) \subseteq Scores
  BY <1>2, ListOfScores
<1>4. new \subseteq Scores /\ seen \subseteq new /\ ToSet(v) \subseteq new /\ (d # NaN => d \in new)
  BY <1>3, ScoresAreNumbers DEF TInv
<1>5. CASE new = {}
  <2>1. seen = {} /\ d = NaN
    BY <1>4, <1>5
  <2>2. v = << >>
    <3> SUFFICES ASSUME v # << >> PROVE FALSE
      OBVIOUS
    <3>1. v[1] \in ToSet(v)
      BY <1>2
    <3> QED
      BY <1>4, <1>5, <3>1
  <2>3. r = NaN
    BY <2>2 DEF TrimmedBoundedMean
  <2>4. history = NaN
    BY <2>1 DEF TInv, TrustWithinEvidence
  <2>5. u = NaN
    BY <2>1, <2>3, <2>4, SilenceIsHistory
  <2>6. History(history, u) = NaN
    BY <2>4, <2>5, SilenceIsHistory
  <2> QED
    BY <1>1, <1>5, <2>5, <2>6 DEF TInv, TrustWithinEvidence
<1>6. CASE new # {}
  <2> DEFINE lo == Min(new)
             hi == Max(new)
  <2> HIDE DEF new
  <2>1. lo \in Int /\ hi \in Int /\ \A x \in new : x \in lo..hi
    <3>1. /\ Min(new) \in new /\ Max(new) \in new
          /\ \A x \in new : x \in Int /\ Min(new) <= x /\ x <= Max(new)
      BY <1>4, <1>6, Bounds
    <3> QED
      BY <3>1
  <2>2. history \in (lo..hi) \cup {NaN} /\ (history = NaN <=> seen = {})
    <3>1. CASE seen = {}
      BY <3>1 DEF TInv, TrustWithinEvidence
    <3>2. CASE seen # {}
      <4>1. history \in Min(seen)..Max(seen)
        BY <3>2 DEF TInv, TrustWithinEvidence
      <4>2. Min(seen)..Max(seen) \subseteq lo..hi
        BY <1>4, <3>2, BoundsWiden
      <4>3. history \in lo..hi
        BY <4>1, <4>2
      <4>4. history \in Int
        BY <2>1, <4>3
      <4> QED
        BY <3>2, <4>3, <4>4, ScoresAreNumbers
    <3> QED
      BY <3>1, <3>2
  <2>3. r \in (lo..hi) \cup {NaN} /\ (v # << >> => r \in lo..hi)
    <3>1. CASE v = << >>
      BY <3>1 DEF TrimmedBoundedMean
    <3>2. CASE v # << >>
      <4>1. \A k \in 1..Len(v) : v[k] \in ToSet(v)
        BY <1>2
      <4>2. \A k \in 1..Len(v) : v[k] \in lo..hi
        BY <1>4, <2>1, <4>1
      <4> HIDE DEF lo, hi
      <4> QED
        BY <1>2, <2>1, <3>2, <4>2, ConsensusBetween
    <3> QED
      BY <3>1, <3>2
  <2>4. d \in (lo..hi) \cup {NaN}
    BY <1>4, <2>1
  <2>5. ~(d = NaN /\ r = NaN /\ history = NaN)
    <3> SUFFICES ASSUME d = NaN, r = NaN, history = NaN PROVE FALSE
      OBVIOUS
    <3>1. v = << >>
      <4>1. r \notin lo..hi
        BY <2>1, ScoresAreNumbers
      <4> QED
        BY <2>3, <4>1
    <3>2. ToSet(v) = {}
      BY <1>2, <3>1
    <3>3. new = {}
      BY <2>2, <3>2 DEF new
    <3> QED
      BY <1>6, <3>3
  <2> HIDE DEF lo, hi, r
  <2>6. u \in lo..hi
    BY <2>1, <2>2, <2>3, <2>4, <2>5, AggregateBetween
  <2> HIDE DEF u
  <2>7. History(history, u) \in lo..hi
    BY <2>1, <2>2, <2>6, HistoryBetween
  <2>8. {trust', history'} \subseteq Min(seen')..Max(seen') /\ seen' # {}
    BY <1>1, <1>6, <2>6, <2>7 DEF lo, hi
  <2> QED
    BY <1>1, <1>4, <2>8 DEF TInv, TrustWithinEvidence
<1> QED
  BY <1>5, <1>6

LEMMA InitIsTInv == TrustInit => TInv
<1> SUFFICES ASSUME TrustInit PROVE TInv
  OBVIOUS
<1>1. others = << >> /\ seen = {} /\ trust = NaN /\ history = NaN
  BY DEF TrustInit
<1>2. << >> \in Sorted
  <2>1. << >> \in [1..0 -> Scores] /\ 0 \in 0..MaxOthers
    BY TrustAssumption
  <2> QED
    BY <2>1 DEF Sorted
<1> QED
  BY <1>1, <1>2 DEF TInv, TrustWithinEvidence

LEMMA StepKeepsTInv == TInv /\ [TrustNext]_trust_vars => TInv'
<1> SUFFICES ASSUME TInv, [TrustNext]_trust_vars PROVE TInv'
  OBVIOUS
<1>1. CASE UNCHANGED trust_vars
  BY <1>1 DEF trust_vars, TInv, TrustWithinEvidence
<1>2. CASE TrustNext
  <2>1. PICK o \in BOOLEAN, v \in Sorted : \E d \in Directs(o) : Window(o, d, v)
    BY <1>2 DEF TrustNext
  <2>2. PICK d \in Directs(o) : Window(o, d, v)
    BY <2>1
  <2>3. d \in Scores \cup {NaN}
    BY DirectsAreScores
  <2> QED
    BY <2>2, <2>3, WindowKeepsTInv
<1> QED
  BY <1>1, <1>2

LEMMA AlwaysTInv == TrustSpec => []TInv
BY InitIsTInv, StepKeepsTInv, PTL DEF TrustSpec

(* TrustWithinEvidence: compute_trust never makes trust better or worse    *)
(* than all that was ever measured, and none of nothing, whichever parts   *)
(* are missing and in whatever order windows come.                         *)
THEOREM TrustStaysWithinEvidence == TrustSpec => []TrustWithinEvidence
<1>1. TInv => TrustWithinEvidence
  BY DEF TInv
<1> QED
  BY <1>1, AlwaysTInv, PTL

(* OneLiarIsTrimmed: _trimmed_bounded_mean cuts at least one from each end *)
(* of five or more, as trim_fraction = 0.2 does, so that no single one     *)
(* moves the consensus past what the others say.                           *)
THEOREM OneLiarMovesNothing ==
    ASSUME Trim >= 20
    PROVE  TrustSpec => []OneLiarIsTrimmed
<1>1. TInv => OneLiarIsTrimmed
  BY SortedInOrder, OneOfFive DEF TInv
<1> QED
  BY <1>1, AlwaysTInv, PTL

(* SilenceCarriesHistory: without a measurement of its own and without a   *)
(* recommendation an observer keeps its trust and its history as they are. *)
THEOREM SilenceKeepsTrust == TrustSpec => SilenceCarriesHistory
<1>1. TInv /\ [TrustNext]_trust_vars
         => [~own' /\ others' = << >> => trust' = history /\ history' = history]_trust_vars
  <2> SUFFICES ASSUME TInv, TrustNext, ~own', others' = << >>
               PROVE  trust' = history /\ history' = history
    OBVIOUS
  <2>1. PICK o \in BOOLEAN, v \in Sorted : \E d \in Directs(o) : Window(o, d, v)
    BY DEF TrustNext
  <2>2. PICK d \in Directs(o) : Window(o, d, v)
    BY <2>1
  <2>3. /\ own' = o /\ v = << >>
        /\ trust' = Aggregate(d, TrimmedBoundedMean(v), history)
        /\ history' = History(history, trust')
    BY <2>2 DEF Window
  <2>4. d = NaN
    BY <2>3, DirectsAreScores
  <2>5. TrimmedBoundedMean(v) = NaN
    BY <2>3 DEF TrimmedBoundedMean
  <2>6. history \in Int \cup {NaN}
    <3>1. CASE seen = {}
      BY <3>1 DEF TInv, TrustWithinEvidence
    <3>2. CASE seen # {}
      <4>1. history \in Min(seen)..Max(seen) /\ Min(seen) \in Int /\ Max(seen) \in Int
        BY <3>2, Bounds DEF TInv, TrustWithinEvidence
      <4> QED
        BY <4>1
    <3> QED
      BY <3>1, <3>2
  <2> QED
    BY <2>3, <2>4, <2>5, <2>6, SilenceIsHistory
<1> QED
  BY <1>1, AlwaysTInv, PTL DEF TrustSpec, SilenceCarriesHistory

=============================================================================
