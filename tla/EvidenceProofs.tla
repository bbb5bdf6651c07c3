--------------------------- MODULE EvidenceProofs ---------------------------
(***************************************************************************)
(* Proofs about NodeMonitor and Evidence, for every window and step,       *)
(* length of the run, number of packets and kind of node, and for every    *)
(* set of observers and number of beacons.                                 *)
(*                                                                         *)
(* The monitor: each fate is a set of packets, and a packet changes sets   *)
(* when AODV forwards or gives up what it had queued; the counters follow  *)
(* their sizes.  RowsOnGrid needs the time of the next sample, which is    *)
(* the next point of the grid as long as there is one before the end of    *)
(* the run.  RowsAddUp needs that no counter was ever ahead of itself nor  *)
(* comes to the end of its range, or the difference would wrap.            *)
(*                                                                         *)
(* The table is a function of the rows of the monitor and of the beacons   *)
(* heard, and neither changes once it is built; what remains is arithmetic *)
(* on the two grids.                                                       *)
(***************************************************************************)
EXTENDS Evidence, SumTheorems, SequenceTheorems

----------------------------------------------------------------------------
(* The monitor.                                                            *)

USE MonitorAssumption

(* The packets of one fate. *)
Those(F, g) == {p \in DOMAIN F : F[p] = g}

Types ==
    /\ now \in 0..SimTime /\ nextSample \in {None, Window} \cup 0..SimTime
    /\ c \in [Counters -> Nat] /\ prev \in [Counters -> Nat]
    /\ fate \in Seq(Fates) /\ packets \in Seq([own : BOOLEAN, at : Nat])
    /\ Len(packets) = Len(fate)
    /\ \A i \in 1..Len(packets) : packets[i].at <= now
    /\ g_transitEntryTime = [p \in DOMAIN g_transitEntryTime |-> g_transitEntryTime[p]]
    /\ DOMAIN g_transitEntryTime \subseteq DOMAIN fate
    /\ \A p \in DOMAIN g_transitEntryTime : g_transitEntryTime[p] \in 0..now

Account(k, F) ==
    /\ k["transitRx"] = k["forwarded"] + k["maliciousDrop"] + k["ipDrop"]
                            + Cardinality(Those(F, "queued"))
                            + Cardinality(Those(F, "consumed"))
    /\ k["maliciousDrop"] = Cardinality(Those(F, "malicious"))
    /\ k["ipDrop"] = Cardinality(Those(F, "lost"))
    /\ k["forwarded"] = Cardinality(Those(F, "forwarded"))
    /\ k["delaySamples"] = k["forwarded"]

EntryTimes == DOMAIN g_transitEntryTime = DOMAIN fate \ Those(fate, "forwarded")

(* The row numbered n is due then. *)
DueAt(n) == Window + n * WindowStep

(* The next sample is the next point of the grid, or the run ends first. *)
SampleGrid ==
    /\ \E S : g_behaviour \in Seq(S)
    /\ \A i \in 1..Len(g_behaviour) : g_behaviour[i].time = DueAt(i - 1)
    /\ nextSample # None => nextSample = DueAt(Len(g_behaviour)) /\ now <= nextSample
    /\ nextSample = None => now > 0 /\ DueAt(Len(g_behaviour)) >= SimTime

(* Every packet the wrapper was offered was counted, and no counter has    *)
(* gone back since the last sample.                                        *)
Behind ==
    /\ c["transitRx"] = Len(fate) /\ Len(fate) <= MaxPackets
    /\ \A k \in Counters \ {"delaySum"} : prev[k] <= c[k]

(* The column of the table for each counter. *)
Field == [transitRx |-> "transit_rx", forwarded |-> "forwarded",
          maliciousDrop |-> "malicious_drop", ipDrop |-> "ip_drop",
          delaySum |-> "delay_sum", delaySamples |-> "delay_n"]

Column(rows, x) == SumFunctionOnSet([i \in 1..Len(rows) |-> rows[i][x]], 1..Len(rows))

Columns ==
    \A k \in Counters : /\ \A i \in 1..Len(g_behaviour) : g_behaviour[i][Field[k]] \in Int
                        /\ Column(g_behaviour, Field[k]) = prev[k]

IInv == Types /\ Account(c, fate) /\ EntryTimes /\ SampleGrid /\ Behind /\ Columns

----------------------------------------------------------------------------
(* Counters. *)
LEMMA CounterType ==
    ASSUME NEW k \in [Counters -> Nat]
    PROVE  /\ k["transitRx"] \in Nat /\ k["forwarded"] \in Nat /\ k["maliciousDrop"] \in Nat
           /\ k["ipDrop"] \in Nat /\ k["delaySum"] \in Nat /\ k["delaySamples"] \in Nat
BY DEF Counters

LEMMA Counted ==
    ASSUME NEW k \in [Counters -> Nat], NEW x \in Counters, NEW v \in Nat
    PROVE  /\ [k EXCEPT ![x] = v] \in [Counters -> Nat]
           /\ [k EXCEPT ![x] = v][x] = v
           /\ \A y \in Counters : y # x => [k EXCEPT ![x] = v][y] = k[y]
OBVIOUS

(* A packet that is offered, dropped by the attacker, dropped by IP. *)
LEMMA OneMore ==
    ASSUME NEW k \in [Counters -> Nat], NEW x \in Counters
    PROVE  LET m == [k EXCEPT ![x] = @ + 1]
           IN  /\ m \in [Counters -> Nat] /\ m[x] = k[x] + 1
               /\ \A y \in Counters : y # x => m[y] = k[y]
BY Counted

(* A packet that is forwarded. *)
LEMMA OneForwarded ==
    ASSUME NEW k \in [Counters -> Nat], NEW entry \in 0..now, now \in Nat
    PROVE  LET m == UnicastForward(k, entry)
           IN  /\ m \in [Counters -> Nat] /\ m["transitRx"] = k["transitRx"]
               /\ m["forwarded"] = k["forwarded"] + 1
               /\ m["delaySamples"] = k["delaySamples"] + 1
               /\ m["maliciousDrop"] = k["maliciousDrop"] /\ m["ipDrop"] = k["ipDrop"]
<1> DEFINE k1 == [k EXCEPT !["forwarded"] = k["forwarded"] + 1]
           k2 == [k1 EXCEPT !["delaySum"] = k["delaySum"] + now - entry]
           k3 == [k2 EXCEPT !["delaySamples"] = k["delaySamples"] + 1]
<1>1. /\ {"transitRx", "forwarded", "maliciousDrop", "ipDrop", "delaySum", "delaySamples"} = Counters
      /\ k["forwarded"] + 1 \in Nat /\ k["delaySamples"] + 1 \in Nat
  BY CounterType DEF Counters
<1>2. k["delaySum"] + now - entry \in Nat
  <2>1. k["delaySum"] \in Nat
    BY CounterType
  <2> QED
    BY <2>1, SMT
<1>3. /\ k1 \in [Counters -> Nat] /\ k1["forwarded"] = k["forwarded"] + 1
      /\ \A y \in Counters : y # "forwarded" => k1[y] = k[y]
  BY <1>1, Counted
<1>4. UnicastForward(k, entry) = k3
  BY <1>1, <1>3 DEF UnicastForward
<1> HIDE DEF k1
<1>5. /\ k2 \in [Counters -> Nat] /\ \A y \in Counters : y # "delaySum" => k2[y] = k1[y]
  BY <1>1, <1>2, <1>3, Counted
<1> HIDE DEF k2
<1>6. /\ k3 \in [Counters -> Nat] /\ k3["delaySamples"] = k["delaySamples"] + 1
      /\ \A y \in Counters : y # "delaySamples" => k3[y] = k2[y]
  BY <1>1, <1>5, Counted
<1> HIDE DEF k3
<1> QED
  BY <1>1, <1>3, <1>4, <1>5, <1>6

(* A packet comes: its fate's set grows by one. *)
LEMMA ThoseAppend ==
    ASSUME NEW F \in Seq(Fates), NEW f \in Fates, NEW g
    PROVE  /\ IsFiniteSet(Those(F, g)) /\ Cardinality(Those(F, g)) \in Nat
           /\ Cardinality(Those(Append(F, f), g))
                = Cardinality(Those(F, g)) + (IF f = g THEN 1 ELSE 0)
<1>1. IsFiniteSet(Those(F, g)) /\ Cardinality(Those(F, g)) \in Nat
  <2>1. IsFiniteSet(1..Len(F)) /\ Those(F, g) \subseteq 1..Len(F)
    BY FS_Interval DEF Those
  <2> QED
    BY <2>1, FS_Subset, FS_CardinalityType
<1>2. /\ DOMAIN Append(F, f) = DOMAIN F \cup {Len(F) + 1}
      /\ Append(F, f)[Len(F) + 1] = f /\ Len(F) + 1 \notin DOMAIN F
      /\ \A p \in DOMAIN F : Append(F, f)[p] = F[p]
  OBVIOUS
<1>3. CASE f = g
  <2>1. Those(Append(F, f), g) = Those(F, g) \cup {Len(F) + 1} /\ Len(F) + 1 \notin Those(F, g)
    BY <1>2, <1>3 DEF Those
  <2> QED
    BY <1>1, <1>3, <2>1, FS_AddElement
<1>4. CASE f # g
  <2>1. Those(Append(F, f), g) = Those(F, g)
    BY <1>2, <1>4 DEF Those
  <2> QED
    BY <1>1, <1>4, <2>1
<1> QED
  BY <1>1, <1>3, <1>4

(* A queued packet gets another fate: it changes sets. *)
LEMMA ThoseMove ==
    ASSUME NEW F \in Seq(Fates), NEW f \in Fates, NEW p \in Those(F, "queued"), f # "queued", NEW g
    PROVE  LET G == [F EXCEPT ![p] = f]
           IN  /\ IsFiniteSet(Those(F, g)) /\ Cardinality(Those(F, g)) \in Nat
               /\ g = f => Cardinality(Those(G, g)) = Cardinality(Those(F, g)) + 1
               /\ g = "queued" => Cardinality(Those(G, g)) = Cardinality(Those(F, g)) - 1
               /\ g \notin {f, "queued"} => Cardinality(Those(G, g)) = Cardinality(Those(F, g))
<1> DEFINE G == [F EXCEPT ![p] = f]
<1>1. IsFiniteSet(Those(F, g)) /\ Cardinality(Those(F, g)) \in Nat
  BY ThoseAppend
<1>2. /\ p \in DOMAIN F /\ F[p] = "queued" /\ DOMAIN G = DOMAIN F /\ G[p] = f
      /\ \A q \in DOMAIN F : q # p => G[q] = F[q]
  BY DEF Those
<1> HIDE DEF G
<1>3. CASE g = f
  <2>1. Those(G, g) = Those(F, g) \cup {p} /\ p \notin Those(F, g)
    BY <1>2, <1>3 DEF Those
  <2> QED
    BY <1>1, <1>3, <2>1, FS_AddElement DEF G
<1>4. CASE g = "queued"
  <2>1. Those(G, g) = Those(F, g) \ {p} /\ p \in Those(F, g)
    BY <1>2, <1>4 DEF Those
  <2>2. Cardinality(Those(F, g) \ {p}) = Cardinality(Those(F, g)) - 1
    BY <1>1, <2>1, FS_RemoveElement
  <2>3. Cardinality(Those(G, g)) = Cardinality(Those(F, g)) - 1
    BY <2>1, <2>2
  <2> QED
    BY <1>1, <1>4, <2>3 DEF G
<1>5. CASE g # f /\ g # "queued"
  <2>1. Those(G, g) = Those(F, g)
    BY <1>2, <1>5 DEF Those
  <2> QED
    BY <1>1, <1>5, <2>1 DEF G
<1> QED
  BY <1>3, <1>4, <1>5

(* The balance with one more packet, whatever becomes of it at once. *)
LEMMA OneMoreArrived ==
    ASSUME NEW k \in [Counters -> Nat], NEW m \in [Counters -> Nat], NEW F, NEW G, Account(k, F),
           NEW f \in Fates,
           \A g \in Fates : /\ Cardinality(Those(F, g)) \in Nat
                            /\ Cardinality(Those(G, g)) = Cardinality(Those(F, g))
                                                             + (IF f = g THEN 1 ELSE 0),
           m["transitRx"] = k["transitRx"] + 1,
           m["forwarded"] = k["forwarded"] + (IF f = "forwarded" THEN 1 ELSE 0),
           m["delaySamples"] = k["delaySamples"] + (IF f = "forwarded" THEN 1 ELSE 0),
           m["maliciousDrop"] = k["maliciousDrop"] + (IF f = "malicious" THEN 1 ELSE 0),
           m["ipDrop"] = k["ipDrop"] + (IF f = "lost" THEN 1 ELSE 0)
    PROVE  Account(m, G)
<1>1. /\ k["transitRx"] \in Nat /\ k["forwarded"] \in Nat /\ k["delaySamples"] \in Nat
      /\ k["maliciousDrop"] \in Nat /\ k["ipDrop"] \in Nat
  BY CounterType
<1>2. {"queued", "forwarded", "malicious", "lost", "consumed"} = Fates
  BY DEF Fates
<1> DEFINE Size(H, g) == Cardinality(Those(H, g))
<1>3. /\ Size(F, "queued") \in Nat /\ Size(F, "consumed") \in Nat
      /\ Size(F, "forwarded") \in Nat /\ Size(F, "malicious") \in Nat /\ Size(F, "lost") \in Nat
  BY <1>2
<1>4. /\ Size(G, "queued") = Size(F, "queued") + (IF f = "queued" THEN 1 ELSE 0)
      /\ Size(G, "consumed") = Size(F, "consumed") + (IF f = "consumed" THEN 1 ELSE 0)
      /\ Size(G, "forwarded") = Size(F, "forwarded") + (IF f = "forwarded" THEN 1 ELSE 0)
      /\ Size(G, "malicious") = Size(F, "malicious") + (IF f = "malicious" THEN 1 ELSE 0)
      /\ Size(G, "lost") = Size(F, "lost") + (IF f = "lost" THEN 1 ELSE 0)
  BY <1>2
<1>5. /\ k["transitRx"] = k["forwarded"] + k["maliciousDrop"] + k["ipDrop"]
                              + Size(F, "queued") + Size(F, "consumed")
      /\ k["maliciousDrop"] = Size(F, "malicious") /\ k["ipDrop"] = Size(F, "lost")
      /\ k["forwarded"] = Size(F, "forwarded") /\ k["delaySamples"] = k["forwarded"]
  BY DEF Account
<1> SUFFICES /\ m["transitRx"] = m["forwarded"] + m["maliciousDrop"] + m["ipDrop"]
                                    + Size(G, "queued") + Size(G, "consumed")
             /\ m["maliciousDrop"] = Size(G, "malicious") /\ m["ipDrop"] = Size(G, "lost")
             /\ m["forwarded"] = Size(G, "forwarded") /\ m["delaySamples"] = m["forwarded"]
  BY DEF Account
<1> HIDE DEF Size
<1>6. CASE f = "queued"
  BY <1>1, <1>3, <1>4, <1>5, <1>6
<1>7. CASE f = "consumed"
  BY <1>1, <1>3, <1>4, <1>5, <1>7
<1>8. CASE f = "forwarded"
  BY <1>1, <1>3, <1>4, <1>5, <1>8
<1>9. CASE f = "malicious"
  BY <1>1, <1>3, <1>4, <1>5, <1>9
<1>10. CASE f = "lost"
  BY <1>1, <1>3, <1>4, <1>5, <1>10
<1> QED
  BY <1>2, <1>6, <1>7, <1>8, <1>9, <1>10

----------------------------------------------------------------------------
(* A counter is the number of packets of some kind, at most all of them.   *)
LEMMA CountersInRange ==
    ASSUME c \in [Counters -> Nat], fate \in Seq(Fates), Account(c, fate), Behind,
           NEW k \in Counters \ {"delaySum"}
    PROVE  c[k] \in 0..MaxPackets
<1>1. Cardinality(Those(fate, "queued")) \in Nat /\ Cardinality(Those(fate, "consumed")) \in Nat
  BY ThoseAppend DEF Fates
<1>2. /\ c["transitRx"] \in Nat /\ c["forwarded"] \in Nat /\ c["maliciousDrop"] \in Nat
      /\ c["ipDrop"] \in Nat /\ c["delaySamples"] \in Nat
  BY CounterType
<1>3. Len(fate) \in Nat /\ c["transitRx"] <= MaxPackets
  BY DEF Behind
<1>4. /\ c["forwarded"] <= c["transitRx"] /\ c["maliciousDrop"] <= c["transitRx"]
      /\ c["ipDrop"] <= c["transitRx"] /\ c["delaySamples"] <= c["transitRx"]
  BY <1>1, <1>2 DEF Account
<1>5. k \in {"transitRx", "forwarded", "maliciousDrop", "ipDrop", "delaySamples"}
  BY DEF Counters
<1> QED
  BY <1>2, <1>3, <1>4, <1>5

(* The unsigned difference is the difference as long as nothing wraps. *)
LEMMA MinusExact ==
    ASSUME NEW m \in 0..MaxPackets, NEW n \in 0..m
    PROVE  Minus(m, n) = m - n
BY DEF Minus

(* A row holds what each counter has grown by since the last one. *)
LEMMA RowIsGrowth ==
    ASSUME c \in [Counters -> Nat], prev \in [Counters -> Nat], fate \in Seq(Fates),
           Account(c, fate), Behind, NEW k \in Counters
    PROVE  Row[Field[k]] = c[k] - prev[k]
<1>1. Row[Field[k]] = Delta[k]
  BY DEF Row, Field, Counters
<1>2. CASE k = "delaySum"
  BY <1>1, <1>2 DEF Delta
<1>3. CASE k # "delaySum"
  <2>1. c[k] \in 0..MaxPackets /\ prev[k] \in 0..c[k]
    BY <1>3, CountersInRange DEF Behind
  <2>2. Delta[k] = Minus(c[k], prev[k])
    BY <1>3 DEF Delta
  <2> QED
    BY <1>1, <2>1, <2>2, MinusExact
<1> QED
  BY <1>2, <1>3

----------------------------------------------------------------------------
LEMMA InitIsGood == Init => IInv
<1> SUFFICES ASSUME Init PROVE IInv
  OBVIOUS
<1>1. \A g \in Fates : Those(fate, g) = {}
  BY DEF Init, Those
<1>2. Account(c, fate) /\ EntryTimes
  <2>1. \A x \in Counters : c[x] = 0
    BY DEF Init, Zero
  <2>2. \A g \in Fates : Cardinality(Those(fate, g)) = 0
    BY <1>1, FS_EmptySet
  <2>3. Account(c, fate)
    BY <2>1, <2>2 DEF Account, Counters, Fates
  <2>4. EntryTimes
    BY <1>1 DEF Init, EntryTimes, Fates
  <2> QED
    BY <2>3, <2>4
<1>3. Types
  BY SMT DEF Init, Types, Zero, Counters
<1>4. SampleGrid
  BY SMT DEF Init, SampleGrid, DueAt, None
<1>5. Behind
  BY DEF Init, Behind, Zero, Counters
<1>6. Columns
  <2>1. Len(g_behaviour) = 0 /\ 1..0 = {} /\ \A k \in Counters : prev[k] = 0
    BY DEF Init, Zero
  <2> QED
    BY <2>1, SumOfNone DEF Columns, Column
<1> QED
  BY <1>2, <1>3, <1>4, <1>5, <1>6 DEF IInv

(* What arrives changes neither clock nor rows. *)
LEMMA GridStays ==
    ASSUME SampleGrid, UNCHANGED <<now, nextSample, g_behaviour>>
    PROVE  SampleGrid'
BY DEF SampleGrid

LEMMA ColumnsStay ==
    ASSUME Columns, UNCHANGED <<prev, g_behaviour>>
    PROVE  Columns'
BY DEF Columns, Column

(* Counters that grow stay ahead of the last sample. *)
BehindAs(k) == \A x \in Counters \ {"delaySum"} : prev[x] <= k[x]

LEMMA StillBehind ==
    ASSUME Behind, prev \in [Counters -> Nat], c \in [Counters -> Nat], NEW k,
           \A x \in Counters \ {"delaySum"} : c[x] <= k[x] /\ k[x] \in Nat
    PROVE  BehindAs(k)
<1> SUFFICES ASSUME NEW x \in Counters \ {"delaySum"} PROVE prev[x] <= k[x]
  BY DEF BehindAs
<1>1. prev[x] <= c[x] /\ c[x] <= k[x] /\ prev[x] \in Nat /\ c[x] \in Nat /\ k[x] \in Nat
  BY DEF Behind
<1> QED
  BY <1>1

(* No counter but the sum of the delays can go back when a packet comes in. *)
LEMMA ArrivalCounts ==
    ASSUME NEW k \in [Counters -> Nat], NEW k2, NEW f,
           k2["transitRx"] = k["transitRx"] + 1,
           k2["forwarded"] = k["forwarded"] + (IF f = "forwarded" THEN 1 ELSE 0),
           k2["delaySamples"] = k["delaySamples"] + (IF f = "forwarded" THEN 1 ELSE 0),
           k2["maliciousDrop"] = k["maliciousDrop"] + (IF f = "malicious" THEN 1 ELSE 0),
           k2["ipDrop"] = k["ipDrop"] + (IF f = "lost" THEN 1 ELSE 0)
    PROVE  \A x \in Counters \ {"delaySum"} : k[x] <= k2[x] /\ k[x] \in Nat /\ k2[x] \in Nat
<1>1. /\ k["transitRx"] \in Nat /\ k["forwarded"] \in Nat /\ k["maliciousDrop"] \in Nat
      /\ k["ipDrop"] \in Nat /\ k["delaySamples"] \in Nat
  BY CounterType
<1> SUFFICES ASSUME NEW x \in Counters \ {"delaySum"}
             PROVE  k[x] <= k2[x] /\ k[x] \in Nat /\ k2[x] \in Nat
  OBVIOUS
<1>2. CASE x = "transitRx"
  BY <1>1, <1>2
<1>3. CASE x = "forwarded"
  BY <1>1, <1>3
<1>4. CASE x = "delaySamples"
  BY <1>1, <1>4
<1>5. CASE x = "maliciousDrop"
  BY <1>1, <1>5
<1>6. CASE x = "ipDrop"
  BY <1>1, <1>6
<1> QED
  BY <1>2, <1>3, <1>4, <1>5, <1>6 DEF Counters

(* A packet comes in, with the counters and entry times that go with it. *)
LEMMA ArriveKeeps ==
    ASSUME IInv, NEW mine \in BOOLEAN, NEW f \in Fates, Arrive(mine, f),
           c' \in [Counters -> Nat],
           c'["transitRx"] = c["transitRx"] + 1,
           c'["forwarded"] = c["forwarded"] + (IF f = "forwarded" THEN 1 ELSE 0),
           c'["delaySamples"] = c["delaySamples"] + (IF f = "forwarded" THEN 1 ELSE 0),
           c'["maliciousDrop"] = c["maliciousDrop"] + (IF f = "malicious" THEN 1 ELSE 0),
           c'["ipDrop"] = c["ipDrop"] + (IF f = "lost" THEN 1 ELSE 0),
           g_transitEntryTime' = IF f = "forwarded" THEN g_transitEntryTime
                                                    ELSE Entered(Len(fate'))
    PROVE  IInv'
<1>1. /\ fate \in Seq(Fates) /\ packets \in Seq([own : BOOLEAN, at : Nat]) /\ now \in Nat
      /\ fate' = Append(fate, f) /\ packets' = Append(packets, [own |-> mine, at |-> now])
      /\ UNCHANGED <<now, nextSample, prev, g_behaviour>>
  BY DEF IInv, Types, Arrive
<1>2. /\ Len(fate') = Len(fate) + 1 /\ DOMAIN fate' = DOMAIN fate \cup {Len(fate')}
      /\ fate'[Len(fate')] = f /\ Len(fate') \notin DOMAIN fate
      /\ \A p \in DOMAIN fate : fate'[p] = fate[p]
      /\ Len(packets') = Len(packets) + 1 /\ packets' \in Seq([own : BOOLEAN, at : Nat])
      /\ fate' \in Seq(Fates)
      /\ \A i \in 1..Len(packets') : IF i = Len(packets') THEN packets'[i].at = now
                                                          ELSE packets'[i] = packets[i]
  BY <1>1
<1>3. Account(c', fate')
  <2>1. \A g \in Fates : /\ Cardinality(Those(fate, g)) \in Nat
                          /\ Cardinality(Those(fate', g)) = Cardinality(Those(fate, g))
                                                              + (IF f = g THEN 1 ELSE 0)
    BY <1>1, ThoseAppend
  <2>2. c \in [Counters -> Nat] /\ Account(c, fate)
    BY DEF IInv, Types
  <2> QED
    BY <2>1, <2>2, OneMoreArrived
<1>4. EntryTimes'
  BY <1>2 DEF IInv, EntryTimes, Entered, Those
<1>5. /\ g_transitEntryTime' = [p \in DOMAIN g_transitEntryTime' |-> g_transitEntryTime'[p]]
      /\ DOMAIN g_transitEntryTime' \subseteq DOMAIN fate'
      /\ \A p \in DOMAIN g_transitEntryTime' : g_transitEntryTime'[p] \in 0..now
  <2>1. CASE f = "forwarded"
    BY <1>2, <2>1 DEF IInv, Types
  <2>2. CASE f # "forwarded"
    <3>1. g_transitEntryTime' = [q \in DOMAIN g_transitEntryTime \cup {Len(fate')} |->
                                    IF q = Len(fate') THEN now ELSE g_transitEntryTime[q]]
      BY <2>2 DEF Entered
    <3>2. now \in 0..now
      BY <1>1
    <3>3. DOMAIN g_transitEntryTime \subseteq DOMAIN fate /\ \A p \in DOMAIN g_transitEntryTime : g_transitEntryTime[p] \in 0..now
      BY DEF IInv, Types
    <3>4. DOMAIN g_transitEntryTime' = DOMAIN g_transitEntryTime \cup {Len(fate')}
      BY <3>1
    <3>5. \A p \in DOMAIN g_transitEntryTime' : g_transitEntryTime'[p] \in 0..now
      BY <3>1, <3>2, <3>3
    <3> QED
      BY <1>2, <3>1, <3>3, <3>4, <3>5
  <2> QED
    BY <2>1, <2>2
<1>6. \A i \in 1..Len(packets') : packets'[i].at <= now
  <2> SUFFICES ASSUME NEW i \in 1..Len(packets') PROVE packets'[i].at <= now
    OBVIOUS
  <2>1. CASE i = Len(packets')
    BY <1>1, <1>2, <2>1
  <2>2. CASE i # Len(packets')
    <3>1. i \in 1..Len(packets)
      BY <1>1, <1>2, <2>2
    <3> QED
      BY <1>2, <2>2, <3>1 DEF IInv, Types
  <2> QED
    BY <2>1, <2>2
<1>7. Types'
  BY <1>1, <1>2, <1>5, <1>6 DEF IInv, Types
<1>8. Behind'
  <2>1. Len(fate) \in Nat /\ Len(fate) < MaxPackets
    BY <1>1 DEF Arrive
  <2>2. Len(fate') <= MaxPackets
    BY <1>2, <2>1
  <2>3. \A k \in Counters \ {"delaySum"} : c[k] <= c'[k] /\ c[k] \in Nat /\ c'[k] \in Nat
    <3>1. c \in [Counters -> Nat]
      BY DEF IInv, Types
    <3> QED
      BY <3>1, ArrivalCounts
  <2>4. BehindAs(c')
    BY <2>3, StillBehind DEF IInv, Types
  <2> QED
    BY <1>1, <1>2, <2>2, <2>4 DEF IInv, Behind, BehindAs
<1> QED
  BY <1>1, <1>3, <1>4, <1>7, <1>8, GridStays, ColumnsStay DEF IInv

(* A packet that AODV had queued leaves, or is given up. *)
LEMMA ForwardDeferredKeeps ==
    ASSUME IInv, NEW p \in Queued, ForwardDeferred(p)
    PROVE  IInv'
<1>1. /\ fate \in Seq(Fates) /\ p \in Those(fate, "queued") /\ p \in DOMAIN fate
      /\ c \in [Counters -> Nat] /\ now \in Nat
      /\ fate' = [fate EXCEPT ![p] = "forwarded"]
      /\ UNCHANGED <<now, nextSample, prev, g_behaviour, packets>>
  BY DEF IInv, Types, ForwardDeferred, Queued, Those
<1>2. g_transitEntryTime[p] \in 0..now
  BY <1>1 DEF IInv, Types, EntryTimes, Those
<1>3. /\ c' \in [Counters -> Nat] /\ c'["transitRx"] = c["transitRx"]
      /\ c'["forwarded"] = c["forwarded"] + 1 /\ c'["delaySamples"] = c["delaySamples"] + 1
      /\ c'["maliciousDrop"] = c["maliciousDrop"] /\ c'["ipDrop"] = c["ipDrop"]
  BY <1>1, <1>2, OneForwarded DEF ForwardDeferred
<1>4. Account(c', fate')
  <2>1. /\ fate \in Seq(Fates) /\ p \in Those(fate, "queued")
        /\ fate' = [fate EXCEPT ![p] = "forwarded"]
        /\ "forwarded" \in Fates /\ "forwarded" # "queued"
    BY <1>1 DEF Fates
  <2>2. Cardinality(Those(fate, "queued")) \in Nat /\ Cardinality(Those(fate', "queued")) = Cardinality(Those(fate, "queued")) - 1
    BY <2>1, ThoseMove
  <2>3. Cardinality(Those(fate, "forwarded")) \in Nat /\ Cardinality(Those(fate', "forwarded")) = Cardinality(Those(fate, "forwarded")) + 1
    BY <2>1, ThoseMove
  <2>4. Cardinality(Those(fate, "consumed")) \in Nat /\ Cardinality(Those(fate', "consumed")) = Cardinality(Those(fate, "consumed"))
    BY <2>1, ThoseMove
  <2>5. Cardinality(Those(fate, "malicious")) \in Nat /\ Cardinality(Those(fate', "malicious")) = Cardinality(Those(fate, "malicious"))
    BY <2>1, ThoseMove
  <2>6. Cardinality(Those(fate, "lost")) \in Nat /\ Cardinality(Those(fate', "lost")) = Cardinality(Those(fate, "lost"))
    BY <2>1, ThoseMove
  <2>7. /\ Account(c, fate) /\ c["transitRx"] \in Nat /\ c["forwarded"] \in Nat
        /\ c["maliciousDrop"] \in Nat /\ c["ipDrop"] \in Nat
    BY <1>1, CounterType DEF IInv
  <2> QED
    BY <1>3, <2>2, <2>3, <2>4, <2>5, <2>6, <2>7, SMT DEF Account
<1>5. /\ fate' \in Seq(Fates) /\ DOMAIN fate' = DOMAIN fate /\ Len(fate') = Len(fate)
      /\ fate'[p] = "forwarded" /\ \A q \in DOMAIN fate : q # p => fate'[q] = fate[q]
  BY <1>1 DEF Fates
<1>6. EntryTimes'
  BY <1>5 DEF IInv, EntryTimes, ForwardDeferred, Left, Those
<1>7. Types'
  BY <1>1, <1>3, <1>5 DEF IInv, Types, ForwardDeferred, Left
<1>8. Behind'
  <2>1. \A k \in Counters \ {"delaySum"} : c[k] <= c'[k] /\ c'[k] \in Nat
    <3>1. /\ c["transitRx"] \in Nat /\ c["forwarded"] \in Nat /\ c["maliciousDrop"] \in Nat
          /\ c["ipDrop"] \in Nat /\ c["delaySamples"] \in Nat
      BY <1>1, CounterType
    <3> QED
      BY <1>3, <3>1 DEF Counters
  <2>2. BehindAs(c')
    BY <2>1, StillBehind DEF IInv, Types
  <2> QED
    BY <1>1, <1>3, <1>5, <2>2 DEF IInv, Behind, BehindAs
<1> QED
  BY <1>1, <1>4, <1>6, <1>7, <1>8, GridStays, ColumnsStay DEF IInv

LEMMA GiveUpKeeps ==
    ASSUME IInv, NEW p \in Queued, GiveUpDeferred(p)
    PROVE  IInv'
<1>1. /\ fate \in Seq(Fates) /\ p \in Those(fate, "queued") /\ p \in DOMAIN fate
      /\ c \in [Counters -> Nat] /\ fate' = [fate EXCEPT ![p] = "lost"]
      /\ UNCHANGED <<now, nextSample, prev, g_behaviour, packets, g_transitEntryTime>>
  BY DEF IInv, Types, GiveUpDeferred, Queued, Those
<1>2. /\ c' \in [Counters -> Nat] /\ c'["transitRx"] = c["transitRx"]
      /\ c'["forwarded"] = c["forwarded"] /\ c'["delaySamples"] = c["delaySamples"]
      /\ c'["maliciousDrop"] = c["maliciousDrop"] /\ c'["ipDrop"] = c["ipDrop"] + 1
  <2>1. c' = [c EXCEPT !["ipDrop"] = @ + 1]
    BY DEF GiveUpDeferred, IpDrop
  <2> QED
    BY <1>1, <2>1, OneMore DEF Counters
<1>3. Account(c', fate')
  <2>1. /\ fate \in Seq(Fates) /\ p \in Those(fate, "queued")
        /\ fate' = [fate EXCEPT ![p] = "lost"]
        /\ "lost" \in Fates /\ "lost" # "queued"
    BY <1>1 DEF Fates
  <2>2. Cardinality(Those(fate, "queued")) \in Nat /\ Cardinality(Those(fate', "queued")) = Cardinality(Those(fate, "queued")) - 1
    BY <2>1, ThoseMove
  <2>3. Cardinality(Those(fate, "lost")) \in Nat /\ Cardinality(Those(fate', "lost")) = Cardinality(Those(fate, "lost")) + 1
    BY <2>1, ThoseMove
  <2>4. Cardinality(Those(fate, "consumed")) \in Nat /\ Cardinality(Those(fate', "consumed")) = Cardinality(Those(fate, "consumed"))
    BY <2>1, ThoseMove
  <2>5. Cardinality(Those(fate, "malicious")) \in Nat /\ Cardinality(Those(fate', "malicious")) = Cardinality(Those(fate, "malicious"))
    BY <2>1, ThoseMove
  <2>6. Cardinality(Those(fate, "forwarded")) \in Nat /\ Cardinality(Those(fate', "forwarded")) = Cardinality(Those(fate, "forwarded"))
    BY <2>1, ThoseMove
  <2>7. /\ Account(c, fate) /\ c["transitRx"] \in Nat /\ c["forwarded"] \in Nat
        /\ c["maliciousDrop"] \in Nat /\ c["ipDrop"] \in Nat
    BY <1>1, CounterType DEF IInv
  <2> QED
    BY <1>2, <2>2, <2>3, <2>4, <2>5, <2>6, <2>7, SMT DEF Account
<1>4. /\ fate' \in Seq(Fates) /\ DOMAIN fate' = DOMAIN fate /\ Len(fate') = Len(fate)
      /\ fate'[p] = "lost" /\ \A q \in DOMAIN fate : q # p => fate'[q] = fate[q]
  BY <1>1 DEF Fates
<1>5. EntryTimes' /\ Types'
  BY <1>1, <1>2, <1>4 DEF IInv, EntryTimes, Types, Those
<1>6. Behind'
  <2>1. \A k \in Counters \ {"delaySum"} : c[k] <= c'[k] /\ c[k] \in Nat /\ c'[k] \in Nat
    BY <1>1, <1>2, CounterType DEF Counters
  <2>2. BehindAs(c')
    BY <2>1, StillBehind DEF IInv, Types
  <2> QED
    BY <1>1, <1>2, <1>4, <2>2 DEF IInv, Behind, BehindAs
<1> QED
  BY <1>1, <1>3, <1>5, <1>6, GridStays, ColumnsStay DEF IInv

(* One row more, and the next one WindowStep later if the run lasts. *)
LEMMA SampleKeeps ==
    ASSUME IInv, SampleWindow
    PROVE  IInv'
<1> DEFINE n == Len(g_behaviour)
<1>1. /\ now \in 0..SimTime /\ now < SimTime /\ now = nextSample
      /\ UNCHANGED <<now, c, fate, packets, g_transitEntryTime>>
      /\ prev' = c /\ nextSample' = NextSample(now) /\ g_behaviour' = Append(g_behaviour, Row)
  BY DEF IInv, Types, SampleWindow, Running, Snapshot, counter_vars
<1>2. n \in Nat /\ nextSample # None /\ now = DueAt(n)
  <2>1. n \in Nat
    BY DEF IInv, SampleGrid
  <2> QED
    BY <1>1, <2>1 DEF IInv, SampleGrid, None
<1>3. Row.time = now
  BY DEF Row
<1>4. /\ Len(g_behaviour') = n + 1 /\ g_behaviour'[n + 1] = Row
      /\ \A i \in 1..n : g_behaviour'[i] = g_behaviour[i]
      /\ \E S : g_behaviour' \in Seq(S)
  <2> PICK S : g_behaviour \in Seq(S)
    BY DEF IInv, SampleGrid
  <2> DEFINE Q == S \cup {Row}
  <2>1. g_behaviour \in Seq(Q) /\ Row \in Q
    OBVIOUS
  <2> HIDE DEF Q
  <2>2. Append(g_behaviour, Row) \in Seq(Q)
    BY <2>1
  <2>3. /\ Len(Append(g_behaviour, Row)) = n + 1 /\ Append(g_behaviour, Row)[n + 1] = Row
        /\ \A i \in 1..n : Append(g_behaviour, Row)[i] = g_behaviour[i]
    BY <2>1
  <2> QED
    BY <1>1, <2>2, <2>3
<1>5. DueAt(n + 1) = DueAt(n) + WindowStep /\ DueAt(n) \in Nat
  BY <1>2, SMT DEF DueAt
<1>6. SampleGrid'
  <2>1. \A i \in 1..(n + 1) : g_behaviour'[i].time = DueAt(i - 1)
    BY <1>2, <1>3, <1>4 DEF IInv, SampleGrid
  <2>2. CASE now + WindowStep < SimTime
    <3>1. nextSample' = now + WindowStep /\ nextSample' # None
      BY <1>1, <2>2, SMT DEF NextSample, None
    <3>2. nextSample' = DueAt(n + 1) /\ now' <= nextSample'
      BY <1>1, <1>2, <1>5, <3>1, SMT
    <3> QED
      BY <1>2, <1>4, <2>1, <3>1, <3>2 DEF SampleGrid
  <2>3. CASE ~(now + WindowStep < SimTime)
    <3>1. nextSample' = None /\ DueAt(n + 1) >= SimTime
      BY <1>1, <1>2, <1>5, <2>3, SMT DEF NextSample
    <3>2. now' > 0
      BY <1>1, <1>2, SMT DEF None
    <3> QED
      BY <1>2, <1>4, <2>1, <3>1, <3>2 DEF SampleGrid
  <2> QED
    BY <2>2, <2>3
<1>7. nextSample' \in {None, Window} \cup 0..SimTime
  BY <1>1, SMT DEF NextSample, None
<1>8. Types'
  BY <1>1, <1>7 DEF IInv, Types
<1>9. Account(c, fate)' /\ EntryTimes'
  BY <1>1 DEF IInv, EntryTimes, Account, Those
<1>10. Behind'
  <2>1. \A k \in Counters : c[k] <= c[k]
    BY DEF IInv, Types
  <2> QED
    BY <1>1, <2>1 DEF IInv, Behind
<1>11. Columns'
  <2> SUFFICES ASSUME NEW k \in Counters
               PROVE  /\ \A i \in 1..(n + 1) : g_behaviour'[i][Field[k]] \in Int
                      /\ Column(g_behaviour', Field[k]) = c[k]
    BY <1>1, <1>4 DEF Columns
  <2> DEFINE x == Field[k]
             old == [i \in 1..n |-> g_behaviour[i][x]]
             new == [i \in 1..n + 1 |-> g_behaviour'[i][x]]
  <2>1. c[k] \in Nat /\ prev[k] \in Nat /\ Row[x] = c[k] - prev[k]
    BY RowIsGrowth DEF IInv, Types
  <2>2. (\A i \in 1..n : g_behaviour[i][x] \in Int) /\ SumFunctionOnSet(old, 1..n) = prev[k]
    BY DEF IInv, Columns, Column
  <2> HIDE DEF x
  <2>3. \A i \in 1..(n + 1) : g_behaviour'[i][x] = IF i = n + 1 THEN Row[x] ELSE g_behaviour[i][x]
    BY <1>2, <1>4
  <2>4. /\ \A i \in 1..(n + 1) : new[i] \in Int
        /\ \A i \in 1..n : old[i] = new[i]
        /\ new[n + 1] = Row[x]
    BY <1>2, <2>1, <2>2, <2>3
  <2> HIDE DEF old
  <2>5. SumFunctionOnSet(new, 1..n + 1) = SumFunctionOnSet(old, 1..n) + Row[x]
    <3>1. n \in Nat
      BY <1>2
    <3> HIDE DEF new, n
    <3>2. SumFunctionOnSet(new, 1..n + 1) = SumFunctionOnSet(old, 1..n) + new[n + 1]
      BY <2>4, <3>1, SumOfAppended
    <3> QED
      BY <2>4, <3>2
  <2>6. Column(g_behaviour', x) = SumFunctionOnSet(new, 1..n + 1)
    BY <1>4 DEF Column
  <2>7. \A i \in 1..(n + 1) : g_behaviour'[i][x] \in Int
    BY <2>4
  <2> HIDE DEF new
  <2>8. Column(g_behaviour', x) = c[k]
    BY <2>1, <2>2, <2>5, <2>6
  <2> QED
    BY <2>7, <2>8 DEF x
<1> QED
  BY <1>6, <1>8, <1>9, <1>10, <1>11 DEF IInv

LEMMA TickKeeps ==
    ASSUME IInv, Tick
    PROVE  IInv'
<1>1. /\ now \in 0..SimTime /\ now < SimTime /\ now # nextSample /\ now' = now + 1
      /\ UNCHANGED <<nextSample, prev, g_behaviour, c, g_transitEntryTime, packets, fate>>
  BY DEF IInv, Types, Tick, Running, counter_vars
<1>2. SampleGrid'
  <2>1. nextSample # None => nextSample \in Nat /\ now' <= nextSample
    <3>1. CASE nextSample # None
      BY <1>1, <3>1, SMT DEF IInv, Types, SampleGrid
    <3> QED
      BY <3>1
  <2>2. now' > 0
    BY <1>1
  <2> QED
    BY <1>1, <2>1, <2>2 DEF IInv, SampleGrid
<1>3. Types'
  <2>1. \A i \in 1..Len(packets) : packets[i].at <= now'
    <3> SUFFICES ASSUME NEW i \in 1..Len(packets) PROVE packets[i].at <= now'
      OBVIOUS
    <3>1. packets \in Seq([own : BOOLEAN, at : Nat]) /\ packets[i].at <= now /\ now \in Nat
      BY DEF IInv, Types
    <3>2. packets[i] \in [own : BOOLEAN, at : Nat]
      BY <3>1, ElementOfSeq
    <3> QED
      BY <1>1, <3>1, <3>2
  <2>2. \A p \in DOMAIN g_transitEntryTime : g_transitEntryTime[p] \in 0..now'
    BY <1>1 DEF IInv, Types
  <2> QED
    BY <1>1, <2>1, <2>2 DEF IInv, Types
<1>4. Account(c, fate)' /\ EntryTimes' /\ Behind'
  BY <1>1 DEF IInv, EntryTimes, Account, Those, Behind
<1> QED
  BY <1>1, <1>2, <1>3, <1>4, ColumnsStay DEF IInv

LEMMA StepIsGood == IInv /\ [Next]_vars => IInv'
<1> SUFFICES ASSUME IInv, [Next]_vars PROVE IInv'
  OBVIOUS
<1>1. c \in [Counters -> Nat] /\ now \in Nat
  BY DEF IInv, Types
<1> DEFINE o == [c EXCEPT !["transitRx"] = @ + 1]
<1>a. /\ o \in [Counters -> Nat] /\ o["transitRx"] = c["transitRx"] + 1
      /\ \A y \in Counters : y # "transitRx" => o[y] = c[y]
      /\ {"transitRx", "forwarded", "maliciousDrop", "ipDrop", "delaySamples"} \subseteq Counters
      /\ o = Offered
  BY <1>1, OneMore DEF Counters, Offered
<1>b. c["forwarded"] \in Nat /\ c["maliciousDrop"] \in Nat /\ c["ipDrop"] \in Nat /\ c["delaySamples"] \in Nat
  BY <1>1, CounterType
<1> HIDE DEF o
<1>2. ASSUME NEW mine \in BOOLEAN, DropMaliciously(mine) PROVE IInv'
  <2>1. /\ c' = [o EXCEPT !["maliciousDrop"] = @ + 1]
        /\ Arrive(mine, "malicious") /\ g_transitEntryTime' = Entered(Len(fate'))
    BY <1>2, <1>a DEF DropMaliciously, MaliciousDrop
  <2>2. /\ c' \in [Counters -> Nat] /\ c'["maliciousDrop"] = o["maliciousDrop"] + 1
        /\ \A y \in Counters : y # "maliciousDrop" => c'[y] = o[y]
    BY <1>a, <2>1, OneMore
  <2> QED
    BY <1>a, <1>b, <2>1, <2>2, ArriveKeeps DEF Fates
<1>3. CASE RelayInTransit
  <2>1. PICK mine \in BOOLEAN : /\ Arrive(mine, "forwarded") /\ c' = UnicastForward(o, now)
                                /\ UNCHANGED g_transitEntryTime
    BY <1>3, <1>a DEF RelayInTransit
  <2>2. now \in 0..now
    BY <1>1
  <2>3. /\ c' \in [Counters -> Nat] /\ c'["transitRx"] = o["transitRx"]
        /\ c'["forwarded"] = o["forwarded"] + 1 /\ c'["delaySamples"] = o["delaySamples"] + 1
        /\ c'["maliciousDrop"] = o["maliciousDrop"] /\ c'["ipDrop"] = o["ipDrop"]
    BY <1>1, <1>a, <2>1, <2>2, OneForwarded
  <2>4. /\ c'["transitRx"] = c["transitRx"] + 1 /\ c'["forwarded"] = c["forwarded"] + 1
        /\ c'["delaySamples"] = c["delaySamples"] + 1
        /\ c'["maliciousDrop"] = c["maliciousDrop"] + 0 /\ c'["ipDrop"] = c["ipDrop"] + 0
    BY <1>a, <1>b, <2>3
  <2>5. "forwarded" \in Fates
    BY DEF Fates
  <2> QED
    BY <2>1, <2>3, <2>4, <2>5, ArriveKeeps
<1>4. CASE LoseInTransit
  <2>1. PICK mine \in BOOLEAN : /\ Arrive(mine, "lost") /\ c' = [o EXCEPT !["ipDrop"] = @ + 1]
                                /\ g_transitEntryTime' = Entered(Len(fate'))
    BY <1>4, <1>a DEF LoseInTransit, IpDrop
  <2>2. /\ c' \in [Counters -> Nat] /\ c'["ipDrop"] = o["ipDrop"] + 1
        /\ \A y \in Counters : y # "ipDrop" => c'[y] = o[y]
    BY <1>a, <2>1, OneMore
  <2> QED
    BY <1>a, <1>b, <2>1, <2>2, ArriveKeeps DEF Fates
<1>5. CASE DeferOwn
  <2>1. PICK mine \in BOOLEAN : /\ Arrive(mine, "queued") /\ c' = o
                                /\ g_transitEntryTime' = Entered(Len(fate'))
    BY <1>5, <1>a DEF DeferOwn
  <2>2. /\ c' \in [Counters -> Nat]
        /\ c'["transitRx"] = c["transitRx"] + 1 /\ c'["forwarded"] = c["forwarded"] + 0
        /\ c'["delaySamples"] = c["delaySamples"] + 0
        /\ c'["maliciousDrop"] = c["maliciousDrop"] + 0 /\ c'["ipDrop"] = c["ipDrop"] + 0
    BY <1>a, <1>b, <2>1
  <2>3. "queued" \in Fates
    BY DEF Fates
  <2> QED
    BY <2>1, <2>2, <2>3, ArriveKeeps
<1>8. CASE ConsumeOwn
  <2>1. /\ Arrive(TRUE, "consumed") /\ c' = o
        /\ g_transitEntryTime' = Entered(Len(fate'))
    BY <1>8, <1>a DEF ConsumeOwn
  <2>2. /\ c' \in [Counters -> Nat]
        /\ c'["transitRx"] = c["transitRx"] + 1 /\ c'["forwarded"] = c["forwarded"] + 0
        /\ c'["delaySamples"] = c["delaySamples"] + 0
        /\ c'["maliciousDrop"] = c["maliciousDrop"] + 0 /\ c'["ipDrop"] = c["ipDrop"] + 0
    BY <1>a, <1>b, <2>1
  <2>3. "consumed" \in Fates
    BY DEF Fates
  <2> QED
    BY <2>1, <2>2, <2>3, ArriveKeeps
<1>6. ASSUME NEW p \in Queued, ForwardDeferred(p) \/ GiveUpDeferred(p) PROVE IInv'
  BY <1>6, ForwardDeferredKeeps, GiveUpKeeps
<1>7. CASE UNCHANGED vars
  BY <1>7, ColumnsStay
     DEF IInv, vars, counter_vars, Types, Account, EntryTimes, SampleGrid, Those, Behind
<1> QED
  BY <1>2, <1>3, <1>4, <1>5, <1>6, <1>7, <1>8, SampleKeeps, TickKeeps DEF Next

(* IInv is an inductive invariant. *)
THEOREM Inductive == Spec => []IInv
BY InitIsGood, StepIsGood, PTL DEF Spec

(* The invariant includes the types. *)
LEMMA InvariantTypes == IInv => TypeOK
<1> SUFFICES ASSUME IInv PROVE TypeOK
  OBVIOUS
<1>1. packets \in Seq([own : BOOLEAN, at : Nat]) /\ \A i \in 1..Len(packets) : packets[i].at <= now
  BY DEF IInv, Types
<1>2. \A i \in 1..Len(packets) : packets[i] \in [own : BOOLEAN, at : 0..now]
  <2> SUFFICES ASSUME NEW i \in 1..Len(packets)
               PROVE  packets[i] \in [own : BOOLEAN, at : 0..now]
    OBVIOUS
  <2>1. packets[i] \in [own : BOOLEAN, at : Nat] /\ packets[i].at <= now /\ now \in Nat
    <3>1. packets[i] \in [own : BOOLEAN, at : Nat]
      BY <1>1, ElementOfSeq
    <3>2. now \in Nat
      BY DEF IInv, Types
    <3> QED
      BY <1>1, <3>1, <3>2
  <2>2. packets[i].at \in 0..now
    BY <2>1, SMT
  <2> QED
    BY <2>1, <2>2
<1>3. packets \in Seq([own : BOOLEAN, at : 0..now])
  <2>1. Len(packets) \in Nat /\ packets \in [1..Len(packets) -> [own : BOOLEAN, at : Nat]]
    BY <1>1, LenProperties
  <2>2. packets \in [1..Len(packets) -> [own : BOOLEAN, at : 0..now]]
    BY <1>2, <2>1
  <2> DEFINE S == [own : BOOLEAN, at : 0..now]
  <2> HIDE DEF S
  <2>3. packets \in UNION {[1..n -> S] : n \in Nat}
    BY <2>1, <2>2 DEF S
  <2> QED
    BY <2>3, SeqDef DEF S
<1> QED
  BY <1>3 DEF IInv, Types, TypeOK

(* The invariant includes the account ... *)
LEMMA InvariantAccounts == IInv => CountersAccount
BY DEF IInv, Account, EntryTimes, CountersAccount, Those, Queued, Number

(* ... and the grid. *)
LEMMA InvariantOnGrid == IInv => RowsOnGrid
<1> SUFFICES ASSUME IInv PROVE RowsOnGrid
  OBVIOUS
<1>1. now > DueAt(Len(g_behaviour)) => DueAt(Len(g_behaviour)) >= SimTime
  <2>1. DueAt(Len(g_behaviour)) \in Nat /\ now \in Nat
    BY SMT DEF IInv, Types, SampleGrid, DueAt
  <2>2. CASE nextSample # None
    BY <2>1, <2>2, SMT DEF IInv, SampleGrid
  <2>3. CASE nextSample = None
    BY <2>3 DEF IInv, SampleGrid
  <2> QED
    BY <2>2, <2>3
<1> QED
  BY <1>1 DEF IInv, SampleGrid, DueAt, RowsOnGrid

(* ... and the columns. *)
LEMMA InvariantAddsUp == IInv => RowsAddUp
<1> SUFFICES ASSUME IInv PROVE RowsAddUp
  OBVIOUS
<1>1. DOMAIN g_behaviour = 1..Len(g_behaviour) /\ IsFiniteSet(1..Len(g_behaviour))
  <2> PICK S : g_behaviour \in Seq(S)
    BY DEF IInv, SampleGrid
  <2> QED
    BY FS_Interval
<1>2. \A k \in Counters : RowSum(Field[k]) = prev[k]
  <2> SUFFICES ASSUME NEW k \in Counters PROVE RowSum(Field[k]) = prev[k]
    OBVIOUS
  <2> DEFINE x == Field[k]
  <2>1. Column(g_behaviour, x) = prev[k]
    BY DEF IInv, Columns
  <2> HIDE DEF x
  <2>2. ColumnTotal(g_behaviour, x, 1..Len(g_behaviour)) = Column(g_behaviour, x)
    BY <1>1, ColumnSum DEF Column
  <2>3. RowSum(x) = ColumnTotal(g_behaviour, x, DOMAIN g_behaviour)
    BY DEF RowSum, ColumnTotal
  <2> QED
    BY <1>1, <2>1, <2>2, <2>3 DEF x
<1> QED
  BY <1>2 DEF Counters, Field, RowsAddUp

(* TypeOK: no counter of the monitor goes below zero, and an entry time is *)
(* kept for packets that came in only, none of the future.                 *)
THEOREM TypeCorrect == Spec => []TypeOK
BY InvariantTypes, Inductive, PTL

(* CountersAccount: the counters of RouteInput and of the traces of the IP *)
(* layer account for every packet but those AODV keeps waiting and those   *)
(* it consumed because they came back to their sender.                     *)
THEOREM PacketsAreAccountedFor == Spec => []CountersAccount
BY InvariantAccounts, Inductive, PTL

(* RowsOnGrid: SampleWindow writes its rows on the grid of the analysis,   *)
(* and none that is due before the end of the run is missing.              *)
THEOREM NoRowIsMissing == Spec => []RowsOnGrid
BY InvariantOnGrid, Inductive, PTL

(* RowsAddUp: SampleWindow reports every packet and every delay in one row *)
(* and in no other, although it takes differences of unsigned counters.    *)
THEOREM EventsAreReportedOnce == Spec => []RowsAddUp
BY InvariantAddsUp, Inductive, PTL

----------------------------------------------------------------------------
(* The evidence table.                                                     *)

HIDE MonitorAssumption

(* The fields the analysis reads from a row of behaviour. *)
RowsTyped ==
    \A i \in 1..Len(g_behaviour) : /\ g_behaviour[i].transit_rx \in Nat
                                   /\ g_behaviour[i].forwarded \in Nat
                                   /\ g_behaviour[i].is_attacker \in BOOLEAN

BeaconsTyped ==
    /\ beacon_rx \subseteq Reception /\ IsFiniteSet(beacon_rx)
    /\ \A r \in beacon_rx : r.at > 0

EInv == /\ IInv /\ RowsTyped /\ BeaconsTyped
        /\ built \in BOOLEAN
        /\ ~built => evidence = {}
        /\ built => ~Running /\ evidence = Table

----------------------------------------------------------------------------
(* Arithmetic on a grid. *)

(* Products with the step grow with the other factor. *)
LEMMA Multiples ==
    ASSUME NEW a \in Nat, NEW b \in Nat, NEW s \in Nat \ {0}
    PROVE  /\ a * s \in Nat
           /\ a <= b => a * s <= b * s
           /\ a < b => a * s + s <= b * s
           /\ a * s = b * s => a = b
<1>1. ASSUME NEW x \in Nat, NEW y \in Nat, x <= y PROVE x * s <= y * s
  <2>1. PICK d \in Nat : y = x + d
    <3>1. y - x \in Nat /\ y = x + (y - x)
      BY <1>1
    <3> QED
      BY <3>1
  <2>2. y * s = x * s + d * s /\ x * s \in Nat /\ d * s \in Nat
    BY <2>1
  <2> QED
    BY <2>2
<1>2. ASSUME NEW x \in Nat, NEW y \in Nat, x < y PROVE x * s + s <= y * s
  <2>1. (x + 1) * s <= y * s
    BY <1>1, <1>2
  <2>2. (x + 1) * s = x * s + s
    OBVIOUS
  <2> QED
    BY <2>1, <2>2
<1>3. a * s \in Nat /\ b * s \in Nat
  OBVIOUS
<1>4. a * s = b * s => a = b
  <2>1. CASE a < b
    <3>1. a * s + s <= b * s
      BY <1>2, <2>1
    <3> QED
      BY <3>1, <1>3
  <2>2. CASE b < a
    <3>1. b * s + s <= a * s
      BY <1>2, <2>2
    <3> QED
      BY <3>1, <1>3
  <2> QED
    BY <2>1, <2>2
<1> QED
  BY <1>1, <1>2, <1>3, <1>4

(* A multiple is not smaller. *)
LEMMA FactorGrows ==
    ASSUME NEW a \in Nat, NEW s \in Nat \ {0}
    PROVE  a <= a * s
<1>1. PICK d \in Nat : s = d + 1
  <2>1. s - 1 \in Nat /\ s = (s - 1) + 1
    OBVIOUS
  <2> QED
    BY <2>1
<1>2. a * s = a * d + a /\ a * d \in Nat
  BY <1>1
<1> QED
  BY <1>2

(* A bounded set of naturals has a greatest element. *)
LEMMA GreatestExists ==
    ASSUME NEW S, NEW n \in Nat, S \subseteq 0..n, S # {}
    PROVE  Max(S) \in S /\ \A x \in S : x <= Max(S)
<1> DEFINE T == {n - x : x \in S}
<1>1. T \subseteq Nat /\ T # {}
  <2>1. \A x \in S : n - x \in Nat
    <3> SUFFICES ASSUME NEW x \in S PROVE n - x \in Nat
      OBVIOUS
    <3>1. x \in 0..n
      OBVIOUS
    <3> QED
      BY <3>1
  <2>2. PICK x \in S : TRUE
    OBVIOUS
  <2>3. n - x \in T
    OBVIOUS
  <2> QED
    BY <2>1, <2>3
<1>2. PICK m \in T : \A y \in T : ~(<<y, m>> \in OpToRel(<, Nat))
  BY <1>1, NatLessThanWellFounded, WFMin
<1>3. \A y \in T : ~(y < m)
  BY <1>1, <1>2 DEF OpToRel
<1>4. PICK z \in S : m = n - z
  BY <1>2
<1>5. \A x \in S : z >= x
  <2> SUFFICES ASSUME NEW x \in S PROVE z >= x
    OBVIOUS
  <2>1. ~(n - x < m)
    BY <1>3
  <2> QED
    BY <2>1, <1>4
<1>6. \E x \in S : \A y \in S : x >= y
  BY <1>5
<1>7. Max(S) \in S /\ \A y \in S : Max(S) >= y
  BY <1>6, Zenon DEF Max
<1> QED
  BY <1>7

----------------------------------------------------------------------------
(* The invariant.                                                          *)

(* The table depends on the rows and the beacons only. *)
LEMMA TableStays == UNCHANGED <<g_behaviour, beacon_rx>> => Table' = Table
<1> SUFFICES ASSUME g_behaviour' = g_behaviour, beacon_rx' = beacon_rx PROVE Table' = Table
  OBVIOUS
<1>1. \A t : BehaviourAt(t)' = BehaviourAt(t)
  BY DEF BehaviourAt
<1>2. \A t : /\ transit_rx(t)' = transit_rx(t)
             /\ fwd_ratio(t)' = fwd_ratio(t)
             /\ label(t)' = label(t)
  <2>1. \A t : Joined(t)' = Joined(t)
    BY <1>1 DEF Joined
  <2>2. \A t : transit_rx(t)' = transit_rx(t)
    BY <1>1, <2>1 DEF transit_rx
  <2>3. \A t : fwd_ratio(t)' = fwd_ratio(t)
    BY <2>1, <2>2 DEF fwd_ratio
  <2>4. \A t : label(t)' = label(t)
    BY <1>1 DEF label
  <2> QED
    BY <2>2, <2>3, <2>4
<1>3. \A t, o : Samples(o, t)' = Samples(o, t)
  BY DEF Samples
<1>4. Grid' = Grid
  BY DEF Grid, Heard
<1>5. \A t, o : RowOf(t, o)' = RowOf(t, o)
  BY <1>2, <1>3 DEF RowOf
<1> QED
  BY <1>3, <1>4, <1>5 DEF Table

(* A row that SampleWindow writes has the fields the analysis reads. *)
LEMMA RowsStayTyped ==
    ASSUME IInv, RowsTyped, [Next]_vars
    PROVE  RowsTyped'
<1>1. CASE SampleWindow
  <2>1. g_behaviour' = Append(g_behaviour, Row)
    BY <1>1 DEF SampleWindow
  <2>2. /\ Row.transit_rx = Minus(c["transitRx"], prev["transitRx"])
        /\ Row.forwarded = Minus(c["forwarded"], prev["forwarded"])
        /\ Row.is_attacker = is_attacker(now)
    BY DEF Row, Delta, Counters
  <2>3. Row.transit_rx \in Nat /\ Row.forwarded \in Nat /\ Row.is_attacker \in BOOLEAN
    <3>1. \A m \in Nat, n \in Nat : Minus(m, n) \in Nat
      <4>1. CounterRange \in Nat /\ CounterRange > 0
        BY MonitorAssumption
      <4> QED
        BY <4>1 DEF Minus
    <3>2. /\ c["transitRx"] \in Nat /\ prev["transitRx"] \in Nat
          /\ c["forwarded"] \in Nat /\ prev["forwarded"] \in Nat
      BY DEF IInv, Types, Counters
    <3> QED
      BY <2>2, <3>1, <3>2 DEF is_attacker
  <2>4. PICK S : g_behaviour \in Seq(S)
    BY DEF IInv, SampleGrid
  <2> DEFINE n == Len(g_behaviour)
             r == Row
  <2> HIDE DEF r
  <2>5. g_behaviour \in Seq(S \cup {r}) /\ r \in S \cup {r} /\ n \in Nat
    BY <2>4
  <2>6. /\ Len(Append(g_behaviour, r)) = n + 1
        /\ Append(g_behaviour, r)[n + 1] = r
        /\ \A i \in 1..n : Append(g_behaviour, r)[i] = g_behaviour[i]
    BY <2>5, AppendProperties
  <2>7. \A i \in 1..(n + 1) : i \in 1..n \/ i = n + 1
    BY <2>5
  <2>8. \A i \in 1..(n + 1) : g_behaviour'[i] = IF i \in 1..n THEN g_behaviour[i] ELSE r
    BY <2>1, <2>6, <2>7 DEF r
  <2>9. Len(g_behaviour') = n + 1
    BY <2>1, <2>6 DEF r
  <2> QED
    BY <2>3, <2>7, <2>8, <2>9 DEF RowsTyped, r
<1>2. CASE g_behaviour' = g_behaviour
  BY <1>2 DEF RowsTyped
<1> QED
  BY <1>1, <1>2 DEF Next, vars, DropMaliciously, RelayInTransit, LoseInTransit, DeferOwn, ConsumeOwn,
     Arrive, ForwardDeferred, GiveUpDeferred, Tick

(* Nothing has happened. *)
LEMMA InitIsEInv == EvidenceInit => EInv
<1> SUFFICES ASSUME EvidenceInit PROVE EInv
  OBVIOUS
<1>1. IInv
  BY InitIsGood DEF EvidenceInit
<1>2. RowsTyped
  <2>1. Len(g_behaviour) = 0
    BY DEF EvidenceInit, Init
  <2> QED
    BY <2>1 DEF RowsTyped
<1>3. BeaconsTyped
  BY FS_EmptySet DEF EvidenceInit, BeaconsTyped
<1> QED
  BY <1>1, <1>2, <1>3 DEF EvidenceInit, EInv

(* Every step keeps the invariant. *)
LEMMA StepIsEInv == EInv /\ [EvidenceNext]_evars => EInv'
<1> SUFFICES ASSUME EInv, [EvidenceNext]_evars PROVE EInv'
  OBVIOUS
<1>1. CASE MonitorStep
  <2>1. [Next]_vars /\ ~built /\ UNCHANGED <<beacon_rx, built, evidence>>
    BY <1>1 DEF MonitorStep, table_vars
  <2>2. IInv' /\ RowsTyped'
    BY <2>1, StepIsGood, RowsStayTyped DEF EInv
  <2> QED
    BY <2>1, <2>2 DEF EInv, BeaconsTyped
<1>2. ASSUME NEW o \in Observers, HandleRead(o) PROVE EInv'
  <2> DEFINE r == [observer |-> o, at |-> now]
  <2>1. /\ Running /\ now > 0 /\ beacon_rx' = beacon_rx \cup {r}
        /\ UNCHANGED <<vars, built, evidence>>
    BY <1>2 DEF HandleRead, table_vars
  <2>2. r \in Reception /\ r.at > 0
    BY <2>1 DEF EInv, IInv, Types, Reception
  <2> HIDE DEF r
  <2>3. BeaconsTyped'
    BY <2>1, <2>2, FS_AddElement DEF EInv, BeaconsTyped
  <2>4. IInv' /\ RowsTyped'
    <3>1. [Next]_vars
      BY <2>1
    <3> QED
      BY <3>1, StepIsGood, RowsStayTyped DEF EInv
  <2>5. ~built
    BY <2>1 DEF EInv
  <2> QED
    BY <2>1, <2>3, <2>4, <2>5 DEF EInv
<1>3. CASE build_evidence \/ UNCHANGED evars
  <2>1. UNCHANGED <<vars, beacon_rx>>
    BY <1>3 DEF build_evidence, evars
  <2>2. IInv' /\ RowsTyped' /\ BeaconsTyped'
    <3>1. [Next]_vars
      BY <2>1
    <3> QED
      BY <2>1, <3>1, StepIsGood, RowsStayTyped DEF EInv, BeaconsTyped
  <2>3. Table' = Table
    BY <2>1, TableStays DEF vars
  <2>4. Running' <=> Running
    BY <2>1 DEF Running, vars
  <2>5. CASE build_evidence
    <3>1. built' = TRUE /\ evidence' = Table' /\ ~Running'
      BY <2>3, <2>4, <2>5 DEF build_evidence
    <3> QED
      BY <3>1, <2>2 DEF EInv
  <2>6. CASE UNCHANGED evars
    <3>1. built' = built /\ evidence' = evidence
      BY <2>6 DEF evars, table_vars
    <3> QED
      BY <3>1, <2>2, <2>3, <2>4 DEF EInv
  <2> QED
    BY <1>3, <2>5, <2>6
<1> QED
  BY <1>1, <1>2, <1>3 DEF EvidenceNext

(* The invariant holds in every state. *)
LEMMA AlwaysEInv == EvidenceSpec => []EInv
  BY InitIsEInv, StepIsEInv, PTL DEF EvidenceSpec

----------------------------------------------------------------------------
(* Properties.                                                             *)

(* Windows without a beacon apart, a row of the table is RowOf of a point  *)
(* of the grid.                                                            *)
LEMMA RowOfTable ==
    ASSUME EInv, built, NEW e \in evidence
    PROVE  /\ e.time \in Grid /\ e.observer \in Observers
           /\ Samples(e.observer, e.time) # {}
           /\ e = RowOf(e.time, e.observer)
<1>1. e \in Table
  BY DEF EInv
<1>2. PICK x \in Grid \X Observers : Samples(x[2], x[1]) # {} /\ e = RowOf(x[1], x[2])
  BY <1>1 DEF Table
<1>3. e.time = x[1] /\ e.observer = x[2]
  BY <1>2 DEF RowOf
<1> QED
  BY <1>2, <1>3

(* A row of behaviour joined is one the monitor wrote. *)
LEMMA JoinedIsRow ==
    ASSUME NEW t, BehaviourAt(t) # {}
    PROVE  \E i \in DOMAIN g_behaviour : g_behaviour[i].time = t /\ Joined(t) = g_behaviour[i]
<1>1. Joined(t) \in BehaviourAt(t)
  BY DEF Joined
<1> QED
  BY <1>1 DEF BehaviourAt

(* The rows of behaviour are numbered. *)
LEMMA RowNumbers ==
    ASSUME EInv
    PROVE  DOMAIN g_behaviour = 1..Len(g_behaviour) /\ Len(g_behaviour) \in Nat
<1>1. PICK S : g_behaviour \in Seq(S)
  BY DEF EInv, IInv, SampleGrid
<1> QED
  BY <1>1, LenProperties

(* A record with fields of these types is a row. *)
LEMMA RowType ==
    ASSUME NEW t \in Nat, NEW o \in Observers, NEW n \in Nat, NEW x \in Nat,
           NEW f, f \in {nan} \cup (Nat \X Nat), NEW l \in BOOLEAN
    PROVE  [time |-> t, observer |-> o, residual_n |-> n,
            transit_rx |-> x, fwd_ratio |-> f, is_attacker |-> l] \in EvidenceRow
  BY DEF EvidenceRow

(* The table has its type, and a ratio has a denominator. *)
LEMMA InvariantTableTypes == EInv => EvidenceTypeOK
<1> SUFFICES ASSUME EInv PROVE EvidenceTypeOK
  OBVIOUS
<1>1. TypeOK /\ beacon_rx \subseteq Reception
  BY InvariantTypes DEF EInv, BeaconsTyped
<1>2. ASSUME NEW e \in evidence
      PROVE  e \in EvidenceRow /\ (e.fwd_ratio # nan => e.fwd_ratio[2] > 0)
  <2>1. built
    BY DEF EInv
  <2> DEFINE t == e.time
             o == e.observer
  <2>2. t \in Grid /\ o \in Observers /\ e = RowOf(t, o)
    BY <2>1, RowOfTable
  <2>3. t \in Nat
    <3>1. PICK k \in 0..SimTime : t = Window + k * WindowStep
      BY <2>2 DEF Grid
    <3> QED
      BY <3>1, MonitorAssumption
  <2>4. Cardinality(Samples(o, t)) \in Nat
    <3>1. Samples(o, t) \subseteq beacon_rx
      BY DEF Samples
    <3> QED
      BY <3>1, FS_Subset, FS_CardinalityType DEF EInv, BeaconsTyped
  <2>5. BehaviourAt(t) # {} => Joined(t).transit_rx \in Nat /\ Joined(t).forwarded \in Nat
    BY JoinedIsRow, RowNumbers DEF EInv, RowsTyped
  <2>6. transit_rx(t) \in Nat
    BY <2>5 DEF transit_rx
  <2>7. fwd_ratio(t) = nan \/ (fwd_ratio(t) \in Nat \X Nat /\ fwd_ratio(t)[2] > 0)
    <3>1. CASE transit_rx(t) = 0
      BY <3>1 DEF fwd_ratio
    <3>2. CASE transit_rx(t) # 0
      <4>1. BehaviourAt(t) # {} /\ transit_rx(t) = Joined(t).transit_rx
        BY <3>2 DEF transit_rx
      <4> QED
        BY <4>1, <2>5, <2>6, <3>2 DEF fwd_ratio
    <3> QED
      BY <3>1, <3>2
  <2>8. label(t) \in BOOLEAN
    BY DEF label
  <2>9. RowOf(t, o) \in EvidenceRow
    <3>1. fwd_ratio(t) \in {nan} \cup (Nat \X Nat)
      BY <2>7
    <3> HIDE DEF t, o
    <3> QED
      BY <3>1, <2>2, <2>3, <2>4, <2>6, <2>8, RowType DEF RowOf
  <2>10. e.fwd_ratio = fwd_ratio(t)
    BY <2>2 DEF RowOf
  <2> QED
    BY <2>2, <2>7, <2>9, <2>10
<1> QED
  BY <1>1, <1>2 DEF EvidenceTypeOK

(* The grid of the analysis meets that of the simulator. *)
LEMMA InvariantGridsMeet == EInv => GridsMeet
<1> SUFFICES ASSUME EInv, built, NEW e \in evidence, e.time + WindowStep <= SimTime
             PROVE  \E i \in DOMAIN g_behaviour :
                       /\ g_behaviour[i].time = e.time
                       /\ e.transit_rx = g_behaviour[i].transit_rx
                       /\ e.is_attacker = g_behaviour[i].is_attacker
  BY DEF GridsMeet
<1> DEFINE n == Len(g_behaviour)
           t == e.time
<1>1. /\ DOMAIN g_behaviour = 1..n /\ n \in Nat
      /\ Window \in Nat /\ WindowStep \in Nat \ {0} /\ SimTime \in Nat
      /\ now \in Nat
  BY RowNumbers, MonitorAssumption DEF EInv, IInv, Types
<1>2. PICK k \in Nat : t = Window + k * WindowStep
  BY RowOfTable DEF Grid
<1>3. k < n
  <2> SUFFICES ASSUME n <= k PROVE FALSE
    BY <1>1
  <2>1. n * WindowStep <= k * WindowStep /\ n * WindowStep \in Nat /\ k * WindowStep \in Nat
    BY <1>1, Multiples
  <2>2. now > Window + n * WindowStep => Window + n * WindowStep >= SimTime
    BY InvariantOnGrid DEF EInv, RowsOnGrid
  <2>3. now >= SimTime
    BY <1>1 DEF EInv, Running
  <2> QED
    BY <1>1, <1>2, <2>1, <2>2, <2>3
<1> DEFINE i == k + 1
           b == g_behaviour[i]
<1>4. i \in 1..n /\ i - 1 = k
  BY <1>1, <1>3
<1>5. \A j \in 1..n : g_behaviour[j].time = Window + (j - 1) * WindowStep
  BY InvariantOnGrid DEF EInv, RowsOnGrid
<1>6. \A j \in 1..n : g_behaviour[j].time = t => j = i
  <2> SUFFICES ASSUME NEW j \in 1..n, g_behaviour[j].time = t PROVE j = i
    OBVIOUS
  <2>1. j - 1 \in Nat /\ k \in Nat
    BY <1>1
  <2>2. Window + (j - 1) * WindowStep = Window + k * WindowStep
    BY <1>2, <1>5
  <2>3. (j - 1) * WindowStep \in Nat /\ k * WindowStep \in Nat
    BY <2>1, <1>1, Multiples
  <2>4. (j - 1) * WindowStep = k * WindowStep
    BY <2>2, <2>3, <1>1
  <2>5. j - 1 = k
    BY <2>1, <2>4, <1>1, Multiples
  <2> QED
    BY <2>5, <1>1
<1>7. b.time = t
  BY <1>2, <1>4, <1>5
<1>8. BehaviourAt(t) = {b}
  <2> HIDE DEF i, t
  <2> QED
    BY <1>1, <1>4, <1>6, <1>7 DEF BehaviourAt
<1>9. Joined(t) = b
  BY <1>8 DEF Joined
<1>10. transit_rx(t) = b.transit_rx /\ (label(t) <=> b.is_attacker)
  BY <1>8, <1>9 DEF transit_rx, label
<1>11. e.transit_rx = transit_rx(t) /\ e.is_attacker = label(t)
  BY RowOfTable DEF RowOf
<1>12. b.is_attacker \in BOOLEAN /\ label(t) \in BOOLEAN
  BY <1>4 DEF EInv, RowsTyped, label
<1> QED
  BY <1>1, <1>4, <1>7, <1>10, <1>11, <1>12

----------------------------------------------------------------------------
(* In how many windows a beacon counts.                                    *)

(* Rounded down, a quotient is the last multiple not beyond. *)
LEMMA Quotient ==
    ASSUME NEW x \in Nat, NEW s \in Nat \ {0}
    PROVE  /\ x \div s \in Nat
           /\ (x \div s) * s \in Nat
           /\ (x \div s) * s <= x /\ x < (x \div s) * s + s
<1>1. x \div s \in Nat /\ x % s \in 0..(s - 1)
  OBVIOUS
<1>2. x = s * (x \div s) + (x % s)
  OBVIOUS
<1>3. s * (x \div s) = (x \div s) * s /\ (x \div s) * s \in Nat
  BY <1>1
<1> QED
  BY <1>1, <1>2, <1>3

(* The points k of the grid whose window has a beacon heard at a: there is *)
(* a first one, and they are no more than the windows that overlap.        *)
LEMMA Span ==
    ASSUME NEW w \in Nat, NEW s \in Nat \ {0}, s <= w, NEW a \in Nat \ {0},
           NEW N, N = (w + s - 1) \div s
    PROVE  /\ N \in Nat
           /\ \E f \in Nat :
                /\ f * s \in Nat /\ f * s < a /\ a <= w + f * s /\ f <= a
                /\ f * s = 0 \/ w + f * s < a + s
                /\ \A k \in Nat : k * s < a /\ a <= w + k * s => k \in f..(f + N - 1)
<1>1. N \in Nat /\ N * s \in Nat /\ w <= N * s
  <2>1. w + s - 1 \in Nat
    OBVIOUS
  <2>2. N \in Nat /\ N * s \in Nat /\ w + s - 1 < N * s + s
    BY <2>1, Quotient
  <2> QED
    BY <2>2
<1>2. CASE a <= w
  <2>1. 0 * s = 0
    OBVIOUS
  <2>2. ASSUME NEW k \in Nat, k * s < a, a <= w + k * s PROVE k \in 0..(0 + N - 1)
    <3>1. CASE N <= k
      <4>1. N * s <= k * s /\ k * s \in Nat
        BY <3>1, <1>1, Multiples
      <4> QED
        BY <4>1, <2>2, <1>1, <1>2
    <3>2. CASE k < N
      BY <3>2, <1>1
    <3> QED
      BY <3>1, <3>2, <1>1
  <2>3. /\ 0 * s \in Nat /\ 0 * s < a /\ a <= w + 0 * s /\ 0 <= a
        /\ 0 * s = 0 \/ w + 0 * s < a + s
    BY <2>1, <1>2
  <2>4. \E f \in Nat :
           /\ f * s \in Nat /\ f * s < a /\ a <= w + f * s /\ f <= a
           /\ f * s = 0 \/ w + f * s < a + s
           /\ \A k \in Nat : k * s < a /\ a <= w + k * s => k \in f..(f + N - 1)
    <3> WITNESS 0 \in Nat
    <3> QED
      BY <2>2, <2>3
  <2> QED
    BY <2>4, <1>1
<1>3. CASE w < a
  <2> DEFINE x == a - w + s - 1
             f == x \div s
  <2>1. x \in Nat
    BY <1>3
  <2>2. f \in Nat /\ f * s \in Nat /\ f * s <= x /\ x < f * s + s
    BY <2>1, Quotient
  <2> HIDE DEF f
  <2>3. /\ f * s < a /\ a <= w + f * s
        /\ w + f * s < a + s
    BY <2>2
  <2>4. f <= a
    <3>1. f <= f * s
      BY <2>2, FactorGrows
    <3> QED
      BY <3>1, <2>2, <2>3
  <2>5. ASSUME NEW k \in Nat, k * s < a, a <= w + k * s PROVE k \in f..(f + N - 1)
    <3>0. k * s \in Nat
      BY Multiples
    <3>1. CASE k < f
      <4>1. k * s + s <= f * s
        BY <3>1, <2>2, Multiples
      <4> QED
        BY <4>1, <3>0, <2>2, <2>5
    <3>2. CASE f + N <= k
      <4>1. (f + N) * s <= k * s
        BY <3>2, <1>1, <2>2, Multiples
      <4>2. (f + N) * s = f * s + N * s
        BY <1>1, <2>2
      <4> QED
        BY <4>1, <4>2, <3>0, <1>1, <2>2, <2>3, <2>5
    <3>3. CASE f <= k /\ k < f + N
      BY <3>3, <1>1, <2>2
    <3> QED
      BY <3>1, <3>2, <3>3, <1>1, <2>2
  <2> QED
    BY <2>2, <2>3, <2>4, <2>5, <1>1
<1> QED
  BY <1>1, <1>2, <1>3

(* Every beacon is in the table, and in no more windows than overlap. *)
LEMMA InvariantBeaconsCount == EInv => EveryBeaconCounts
<1> DEFINE N == (Window + WindowStep - 1) \div WindowStep
<1> SUFFICES ASSUME EInv, built, Heard # {}, Max(Heard) > Window - WindowStep,
                    NEW r \in beacon_rx
             PROVE  Cardinality({e \in evidence : e.observer = r.observer /\ InWindow(r, e.time)})
                        \in 1..N
  BY DEF EveryBeaconCounts
<1> DEFINE C == {e \in evidence : e.observer = r.observer /\ InWindow(r, e.time)}
           a == r.at
<1>1. /\ Window \in Nat \ {0} /\ WindowStep \in Nat \ {0} /\ WindowStep <= Window
      /\ SimTime \in Nat
  BY MonitorAssumption, EvidenceAssumption
<1>2. a \in 1..SimTime /\ r.observer \in Observers
  BY <1>1 DEF EInv, BeaconsTyped, Reception
<1>3. Max(Heard) \in 0..SimTime /\ a <= Max(Heard)
  <2>1. Heard \subseteq 0..SimTime
    BY DEF EInv, BeaconsTyped, Reception, Heard
  <2>2. a \in Heard
    BY DEF Heard
  <2> QED
    BY <2>1, <2>2, <1>1, GreatestExists
<1> HIDE DEF N
<1>4. /\ N \in Nat
      /\ \E f \in Nat :
           /\ f * WindowStep \in Nat /\ f * WindowStep < a
           /\ a <= Window + f * WindowStep /\ f <= a
           /\ f * WindowStep = 0 \/ Window + f * WindowStep < a + WindowStep
           /\ \A k \in Nat : k * WindowStep < a /\ a <= Window + k * WindowStep
                                => k \in f..(f + N - 1)
  <2>1. a \in Nat \ {0} /\ N = (Window + WindowStep - 1) \div WindowStep
    BY <1>2 DEF N
  <2> HIDE DEF a
  <2> QED
    BY <1>1, <2>1, Span
<1>5. PICK f \in Nat :
           /\ f * WindowStep \in Nat /\ f * WindowStep < a
           /\ a <= Window + f * WindowStep /\ f <= a
           /\ f * WindowStep = 0 \/ Window + f * WindowStep < a + WindowStep
           /\ \A k \in Nat : k * WindowStep < a /\ a <= Window + k * WindowStep
                                => k \in f..(f + N - 1)
  BY <1>4
<1>6. C # {}
  <2> DEFINE t == Window + f * WindowStep
             e == RowOf(t, r.observer)
  <2>1. InWindow(r, t)
    BY <1>1, <1>2, <1>5 DEF InWindow
  <2>2. t \in Grid
    <3>1. t < Max(Heard) + WindowStep
      BY <1>1, <1>2, <1>3, <1>5
    <3>2. f \in 0..SimTime
      BY <1>1, <1>2, <1>5
    <3> QED
      BY <3>1, <3>2 DEF Grid
  <2>3. r \in Samples(r.observer, t)
    BY <2>1 DEF Samples
  <2>4. e \in evidence
    <3>1. e \in Table
      <4> DEFINE x == <<t, r.observer>>
      <4>1. x \in {y \in Grid \X Observers : Samples(y[2], y[1]) # {}}
        BY <2>2, <2>3, <1>2
      <4>2. e = RowOf(x[1], x[2])
        OBVIOUS
      <4> HIDE DEF x, e
      <4> QED
        BY <4>1, <4>2 DEF Table
    <3> QED
      BY <3>1 DEF EInv
  <2>5. e.observer = r.observer /\ e.time = t
    BY DEF RowOf
  <2> QED
    BY <2>1, <2>4, <2>5
<1>7. \A e \in C : \E k \in f..(f + N - 1) : e.time = Window + k * WindowStep
  <2> SUFFICES ASSUME NEW e \in C
               PROVE  \E k \in f..(f + N - 1) : e.time = Window + k * WindowStep
    OBVIOUS
  <2>1. e.time \in Grid /\ InWindow(r, e.time)
    BY RowOfTable
  <2>2. PICK k \in 0..SimTime : e.time = Window + k * WindowStep
    BY <2>1 DEF Grid
  <2>3. k \in Nat /\ k * WindowStep \in Nat
    BY <1>1, Multiples
  <2>4. k * WindowStep < a /\ a <= Window + k * WindowStep
    BY <2>1, <2>2, <2>3, <1>1 DEF InWindow
  <2> QED
    BY <2>2, <2>3, <2>4, <1>5
<1> DEFINE place == [e \in C |-> CHOOSE k \in f..(f + N - 1) : e.time = Window + k * WindowStep]
<1>8. \A e \in C : place[e] \in f..(f + N - 1) /\ e.time = Window + place[e] * WindowStep
  BY <1>7
<1>9. place \in Injection(C, f..(f + N - 1))
  <2>1. place \in [C -> f..(f + N - 1)]
    BY <1>8
  <2>2. ASSUME NEW d \in C, NEW e \in C, place[d] = place[e] PROVE d = e
    <3>1. d.time = e.time
      BY <1>8, <2>2
    <3>2. d.observer = e.observer
      OBVIOUS
    <3>3. d = RowOf(d.time, d.observer) /\ e = RowOf(e.time, e.observer)
      BY RowOfTable
    <3> QED
      BY <3>1, <3>2, <3>3
  <2> HIDE DEF place, C
  <2> QED
    BY <2>1, <2>2 DEF Injection, IsInjective
<1>10. IsFiniteSet(f..(f + N - 1)) /\ Cardinality(f..(f + N - 1)) = N
  <2>1. f \in Int /\ f + N - 1 \in Int
    BY <1>4
  <2>2. /\ IsFiniteSet(f..(f + N - 1))
        /\ Cardinality(f..(f + N - 1)) = IF f > f + N - 1 THEN 0 ELSE (f + N - 1) - f + 1
    BY <2>1, FS_Interval
  <2>3. (IF f > f + N - 1 THEN 0 ELSE (f + N - 1) - f + 1) = N
    BY <1>4
  <2> QED
    BY <2>2, <2>3
<1>11. IsFiniteSet(C) /\ Cardinality(C) <= N
  <2> HIDE DEF place, C
  <2> QED
    BY <1>9, <1>10, FS_Injection
<1>12. Cardinality(C) \in Nat /\ Cardinality(C) # 0
  <2> HIDE DEF C
  <2> QED
    BY <1>6, <1>11, FS_CardinalityType, FS_EmptySet
<1> HIDE DEF C
<1>13. Cardinality(C) \in 1..N
  BY <1>4, <1>11, <1>12
<1> QED
  BY <1>13 DEF C

----------------------------------------------------------------------------
(* Theorems.                                                               *)

(* The monitor's account holds while beacons are heard and after the       *)
(* table is built: the run of the composition shows the same property.     *)
THEOREM TableKeepsAccount == EvidenceSpec => []CountersAccount
<1>1. EInv => CountersAccount
  BY InvariantAccounts DEF EInv
<1> QED
  BY <1>1, AlwaysEInv, PTL

(* So does the grid of its rows. *)
THEOREM TableKeepsGrid == EvidenceSpec => []RowsOnGrid
<1>1. EInv => RowsOnGrid
  BY InvariantOnGrid DEF EInv
<1> QED
  BY <1>1, AlwaysEInv, PTL

(* And its rows add up to the counters, which the analysis relies on.      *)
THEOREM TableKeepsSums == EvidenceSpec => []RowsAddUp
<1>1. EInv => RowsAddUp
  BY InvariantAddsUp DEF EInv
<1> QED
  BY <1>1, AlwaysEInv, PTL

(* The table of build_evidence has its type, and no ratio lacks a          *)
(* denominator.                                                            *)
THEOREM TableTypeCorrect == EvidenceSpec => []EvidenceTypeOK
BY InvariantTableTypes, AlwaysEInv, PTL

(* Every row of the table but one at the end of the run finds the          *)
(* behaviour of its own window: np.arange and SampleWindow cut alike.      *)
THEOREM TheGridsMeet == EvidenceSpec => []GridsMeet
BY InvariantGridsMeet, AlwaysEInv, PTL

(* No beacon is lost between the windows and none counts more often than   *)
(* windows overlap.                                                        *)
THEOREM NoBeaconIsLost == EvidenceSpec => []EveryBeaconCounts
BY InvariantBeaconsCount, AlwaysEInv, PTL

=============================================================================
