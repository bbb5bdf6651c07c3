------------------------- MODULE AodvNetworkProofs -------------------------
(***************************************************************************)
(* Proofs about AodvNetwork, for every topology, any number of nodes and   *)
(* attackers, any ring geometry and any number of outside events.          *)
(*                                                                         *)
(* The invariant says of each table entry and each message copy that it is *)
(* good.  It speaks of sequence numbers through a parameter s, because a   *)
(* step that raises them keeps everything else good.                       *)
(***************************************************************************)
EXTENDS AodvNetwork, FiniteSetTheorems, TLAPS

Numbers == [Nodes -> Nat]

(* Some counter in s that may speak for d has reached k. *)
Sourced(k, d, s) == \E n \in Attackers \cup {d} : k <= s[n]

(* An entry for d: routes that are, or ever were, in use have an interface *)
(* and a next hop, and valid sequence numbers have a source.               *)
GoodEntry(e, d, s) ==
    /\ e \in Entry
    /\ e.flag \in {"VALID", "INVALID"} \/ e.vsn => e.nextHop \in Nodes
    /\ e.vsn => Sourced(e.seq, d, s)

GoodTable(T, s) ==
    /\ T \in [Nodes -> Entry]
    /\ \A d \in Nodes : GoodEntry(T[d], d, s)

Message == Rreq \cup Rrep \cup Rerr \cup RrepAck

GoodMessage(m, s) ==
    /\ m \in Message
    /\ m.to \notin Nodes => m.from \in Attackers
    /\ m.type = "RREQ" => /\ m.oseq <= s[m.origin]
                          /\ m.known => Sourced(m.dseq, m.dst, s)
    /\ m.type = "RREP" => Sourced(m.seq, m.dst, s)

Later(s, t) == \A n \in Nodes : s[n] <= t[n]

Inv ==
    /\ m_seqNo \in Numbers
    /\ m_requestId \in Numbers
    /\ m_rreqIdCache \in [Nodes -> SUBSET (Nodes \X Nat)]
    /\ outside \in 0..MaxOutside
    /\ rt \in [Nodes -> [Nodes -> Entry]]
    /\ \A n \in Nodes : GoodTable(rt[n], m_seqNo)
    /\ \A m \in air : GoodMessage(m, m_seqNo)

----------------------------------------------------------------------------
(* Raising sequence numbers.                                               *)

LEMMA SourceStays ==
    ASSUME NEW s \in Numbers, NEW t \in Numbers, Later(s, t), NEW d \in Nodes, NEW k \in Nat,
           Sourced(k, d, s)
    PROVE  Sourced(k, d, t)
<1>1. PICK n \in Attackers \cup {d} : k <= s[n]
  BY DEF Sourced
<1>2. n \in Nodes
  BY NetworkAssumption
<1>3. k <= t[n]
  BY <1>1, <1>2 DEF Later, Numbers
<1> QED
  BY <1>3 DEF Sourced

LEMMA TableStays ==
    ASSUME NEW s \in Numbers, NEW t \in Numbers, Later(s, t), NEW T, GoodTable(T, s)
    PROVE  GoodTable(T, t)
<1> SUFFICES ASSUME NEW d \in Nodes PROVE GoodEntry(T[d], d, t)
  BY DEF GoodTable
<1>1. GoodEntry(T[d], d, s) /\ T[d].seq \in Nat
  BY DEF GoodTable, GoodEntry, Entry
<1> QED
  BY <1>1, SourceStays DEF GoodEntry

(* What the type of a message says of its fields. *)
LEMMA Fields ==
    ASSUME NEW m \in Message
    PROVE  /\ m.from \in Nodes /\ m.to \in Nodes \cup {NoHop}
           /\ m.type = "RREQ" => /\ m \in Rreq
                                 /\ m.origin \in Nodes /\ m.dst \in Nodes /\ m.id \in Nat
                                 /\ m.oseq \in Nat /\ m.dseq \in Nat /\ m.known \in BOOLEAN
                                 /\ m.hop \in Nat /\ m.ttl \in Nat
           /\ m.type = "RREP" => /\ m \in Rrep
                                 /\ m.origin \in Nodes /\ m.dst \in Nodes /\ m.seq \in Nat
                                 /\ m.hop \in Nat /\ m.ttl \in Nat /\ m.ack \in BOOLEAN
           /\ m.type = "RERR" => m \in Rerr /\ m.dsts \subseteq Nodes
<1>1. CASE m \in Rreq
  BY <1>1 DEF Rreq
<1>2. CASE m \in Rrep
  BY <1>2 DEF Rrep
<1>3. CASE m \in Rerr
  BY <1>3 DEF Rerr
<1>4. CASE m \in RrepAck
  BY <1>4 DEF RrepAck
<1> QED
  BY <1>1, <1>2, <1>3, <1>4 DEF Message

LEMMA MessageStays ==
    ASSUME NEW s \in Numbers, NEW t \in Numbers, Later(s, t), NEW m, GoodMessage(m, s)
    PROVE  GoodMessage(m, t)
<1>1. m \in Message
  BY DEF GoodMessage
<1>2. m.type = "RREQ" => m.oseq <= t[m.origin]
  <2> SUFFICES ASSUME m.type = "RREQ" PROVE m.oseq <= t[m.origin]
    OBVIOUS
  <2>1. m.origin \in Nodes /\ m.oseq \in Nat /\ m.oseq <= s[m.origin]
    BY <1>1, Fields DEF GoodMessage
  <2> QED
    BY <2>1 DEF Later, Numbers
<1>3. m.type = "RREQ" /\ m.known => Sourced(m.dseq, m.dst, t)
  BY <1>1, Fields, SourceStays DEF GoodMessage
<1>4. m.type = "RREP" => Sourced(m.seq, m.dst, t)
  BY <1>1, Fields, SourceStays DEF GoodMessage
<1> QED
  BY <1>1, <1>2, <1>3, <1>4 DEF GoodMessage

----------------------------------------------------------------------------
(* The table operations keep tables good.                                  *)

LEMMA PutEntry ==
    ASSUME NEW s, NEW T, GoodTable(T, s), NEW d \in Nodes, NEW e, GoodEntry(e, d, s)
    PROVE  GoodTable([T EXCEPT ![d] = e], s)
BY DEF GoodTable, GoodEntry

LEMMA FreshRoute ==
    ASSUME NEW s, NEW d \in Nodes, NEW seq \in Nat, NEW vsn \in BOOLEAN, NEW hop \in Nat,
           NEW x \in Nodes, vsn => Sourced(seq, d, s)
    PROVE  GoodEntry(Route(seq, vsn, hop, x), d, s)
BY DEF GoodEntry, Route, Entry, Flags

LEMMA NeighborTable ==
    ASSUME NEW s, NEW T, GoodTable(T, s), NEW x \in Nodes
    PROVE  GoodTable(UpdateRouteToNeighbor(T, x), s)
<1>1. GoodEntry(Route(0, FALSE, 1, x), x, s)
  BY FreshRoute
<1> QED
  BY <1>1, PutEntry DEF UpdateRouteToNeighbor

LEMMA PrecursorTable ==
    ASSUME NEW s, NEW T, GoodTable(T, s), NEW d, NEW p \in Nodes
    PROVE  GoodTable(WithPrecursor(T, d, p), s)
<1> SUFFICES ASSUME Known(T, d)
             PROVE  GoodTable([T EXCEPT ![d].precursors = @ \cup {p}], s)
  BY DEF WithPrecursor
<1>1. d \in Nodes /\ GoodEntry(T[d], d, s)
  BY DEF Known, GoodTable
<1>2. GoodEntry([T[d] EXCEPT !.precursors = @ \cup {p}], d, s)
  BY <1>1 DEF GoodEntry, Entry
<1> QED
  BY <1>1, <1>2, PutEntry

LEMMA InvalidatedTable ==
    ASSUME NEW s, NEW T, GoodTable(T, s), NEW D
    PROVE  GoodTable(InvalidateRoutesWithDst(T, D), s)
<1> DEFINE U == InvalidateRoutesWithDst(T, D)
<1>1. ASSUME NEW d \in Nodes PROVE GoodEntry(U[d], d, s)
  <2>1. GoodEntry(T[d], d, s)
    BY DEF GoodTable
  <2>2. T[d].flag = "VALID" => GoodEntry([T[d] EXCEPT !.flag = "INVALID"], d, s)
    BY <2>1 DEF GoodEntry, Entry, Flags
  <2> QED
    BY <2>1, <2>2 DEF InvalidateRoutesWithDst
<1>2. U = [d \in Nodes |-> U[d]]
  BY DEF InvalidateRoutesWithDst
<1>3. U \in [Nodes -> Entry]
  BY <1>1, <1>2 DEF GoodEntry
<1> QED
  BY <1>1, <1>3 DEF GoodTable

----------------------------------------------------------------------------
(* What the handlers leave in the table of the receiver.                   *)

LEMMA ReverseRouteTable ==
    ASSUME NEW s, NEW T, GoodTable(T, s), NEW m \in Message, GoodMessage(m, s),
           m.type = "RREQ"
    PROVE  GoodTable(ReverseRoute(T, m), s)
<1> DEFINE o == m.origin
           e == T[o]
           newer == IF ~e.vsn \/ m.oseq > e.seq THEN m.oseq ELSE e.seq
<1>1. /\ o \in Nodes /\ m.from \in Nodes /\ m.oseq \in Nat /\ m.hop + 1 \in Nat
      /\ m.oseq <= s[o]
  BY Fields DEF GoodMessage
<1>2. GoodEntry(e, o, s)
  BY <1>1 DEF GoodTable
<1>3. Sourced(m.oseq, o, s)
  BY <1>1 DEF Sourced
<1>4. newer \in Nat /\ Sourced(newer, o, s)
  BY <1>1, <1>2, <1>3 DEF GoodEntry, Entry
<1>5. CASE ~Known(T, o)
  <2>1. GoodEntry(Route(m.oseq, TRUE, m.hop + 1, m.from), o, s)
    BY <1>1, <1>3, FreshRoute
  <2> QED
    BY <1>1, <1>5, <2>1, PutEntry DEF ReverseRoute
<1>6. CASE Known(T, o)
  <2> DEFINE f == [e EXCEPT !.seq = newer, !.vsn = TRUE, !.nextHop = m.from, !.hop = m.hop + 1]
  <2>1. /\ f \in Entry /\ f.nextHop = m.from /\ f.seq = newer
    BY <1>1, <1>2, <1>4 DEF GoodEntry, Entry
  <2>2. GoodEntry(f, o, s)
    BY <1>1, <1>4, <2>1 DEF GoodEntry
  <2>3. ReverseRoute(T, m) = [T EXCEPT ![o] = f]
    BY <1>6 DEF ReverseRoute
  <2>4. o \in Nodes
    BY <1>1
  <2> HIDE DEF f, o
  <2>5. GoodTable([T EXCEPT ![o] = f], s)
    BY <2>2, <2>4, PutEntry
  <2> QED
    BY <2>3, <2>5
<1> QED
  BY <1>5, <1>6

LEMMA PreviousHopTable ==
    ASSUME NEW s, NEW T, GoodTable(T, s), NEW m \in Message, m.type = "RREQ"
    PROVE  GoodTable(PreviousHop(T, m), s)
<1> DEFINE f == [T[m.from] EXCEPT !.flag = "VALID", !.vsn = FALSE, !.seq = m.oseq,
                                  !.hop = 1, !.nextHop = m.from]
<1>1. m.from \in Nodes /\ m.oseq \in Nat
  BY Fields
<1>2. T[m.from] \in Entry
  BY <1>1 DEF GoodTable, GoodEntry
<1>3. f \in Entry /\ f.nextHop = m.from /\ f.vsn = FALSE
  BY <1>1, <1>2 DEF Entry, Flags
<1>4. GoodEntry(f, m.from, s)
  BY <1>1, <1>3 DEF GoodEntry
<1> QED
  BY <1>1, <1>4, PutEntry DEF PreviousHop

(* After a request the way back to its origin is its sender, and the       *)
(* number of the way back has a source even where it is not marked valid.  *)
LEMMA RequestTable ==
    ASSUME NEW m \in Message, m.type = "RREQ", m.to \in Nodes, Inv, m \in air
    PROVE  /\ GoodTable(AfterRequest(m), m_seqNo)
           /\ AfterRequest(m)[m.origin].nextHop = m.from
           /\ Sourced(AfterRequest(m)[m.origin].seq, m.origin, m_seqNo)
<1> DEFINE T == UpdateRouteToNeighbor(rt[m.to], m.from)
           R == ReverseRoute(T, m)
<1>1. GoodMessage(m, m_seqNo) /\ GoodTable(rt[m.to], m_seqNo)
  BY DEF Inv
<1>2. m.from \in Nodes /\ m.origin \in Nodes
  BY Fields
<1>3. GoodTable(T, m_seqNo)
  BY <1>1, <1>2, NeighborTable
<1>4. GoodTable(R, m_seqNo)
  BY <1>1, <1>3, ReverseRouteTable
<1>5. GoodTable(AfterRequest(m), m_seqNo)
  BY <1>4, PreviousHopTable DEF AfterRequest
<1>6. R[m.origin].nextHop = m.from /\ R[m.origin].vsn
  <2>1. T[m.origin] \in Entry /\ T \in [Nodes -> Entry]
    BY <1>2, <1>3 DEF GoodTable
  <2>2. CASE ~Known(T, m.origin)
    BY <1>2, <2>1, <2>2 DEF ReverseRoute, Route
  <2>3. CASE Known(T, m.origin)
    BY <1>2, <2>1, <2>3 DEF ReverseRoute, Entry
  <2> QED
    BY <2>2, <2>3
<1>7. R \in [Nodes -> Entry]
  BY <1>4 DEF GoodTable
<1>8. AfterRequest(m)[m.origin].nextHop = m.from
  BY <1>2, <1>6, <1>7 DEF AfterRequest, PreviousHop, Entry
<1>9. Sourced(m.oseq, m.origin, m_seqNo) /\ Sourced(R[m.origin].seq, m.origin, m_seqNo)
  BY <1>1, <1>2, <1>4, <1>6 DEF GoodMessage, GoodTable, GoodEntry, Sourced
<1>10. AfterRequest(m)[m.origin].seq \in {m.oseq, R[m.origin].seq}
  BY <1>2, <1>7 DEF AfterRequest, PreviousHop, Entry
<1> QED
  BY <1>5, <1>8, <1>9, <1>10

LEMMA ReplyTable ==
    ASSUME NEW m \in Message, m.type = "RREP", m.to \in Nodes, Inv, m \in air
    PROVE  GoodTable(AfterReply(m), m_seqNo)
<1> DEFINE T == UpdateRouteToNeighbor(rt[m.to], m.from)
<1>1. GoodMessage(m, m_seqNo) /\ GoodTable(rt[m.to], m_seqNo)
  BY DEF Inv
<1>2. m.from \in Nodes /\ m.dst \in Nodes /\ m.seq \in Nat /\ m.hop + 1 \in Nat
  BY Fields
<1>3. GoodTable(T, m_seqNo)
  BY <1>1, <1>2, NeighborTable
<1>4. GoodEntry(Route(m.seq, TRUE, m.hop + 1, m.from), m.dst, m_seqNo)
  BY <1>1, <1>2, FreshRoute DEF GoodMessage
<1> QED
  BY <1>2, <1>3, <1>4, PutEntry DEF AfterReply

(* Where the way back carries a reply it leads to a node. *)
LEMMA PrecursorsTable ==
    ASSUME NEW s, NEW T, GoodTable(T, s), NEW m \in Message, m.type = "RREP",
           WayBack(T[m.origin]), T[m.dst].flag = "VALID"
    PROVE  GoodTable(WithPrecursors(T, m), s)
<1> DEFINE p == T[m.origin].nextHop
           q == T[m.dst].nextHop
           U == WithPrecursor(WithPrecursor(T, m.dst, p), q, p)
           f == [T[m.origin] EXCEPT !.precursors = @ \cup {q}]
           V == [U EXCEPT ![m.origin] = f]
<1>1. m.origin \in Nodes /\ m.dst \in Nodes
  BY Fields
<1>2. /\ GoodEntry(T[m.origin], m.origin, s) /\ GoodEntry(T[m.dst], m.dst, s)
      /\ T[m.origin] \in Entry
  BY <1>1 DEF GoodTable, GoodEntry
<1>3. T[m.origin].flag \in {"VALID", "INVALID"}
  BY <1>2 DEF WayBack, Entry, Flags
<1>4. p \in Nodes /\ q \in Nodes
  BY <1>2, <1>3 DEF GoodEntry
<1>5. GoodTable(U, s)
  BY <1>4, PrecursorTable
<1>6. GoodEntry(f, m.origin, s)
  BY <1>2, <1>4 DEF GoodEntry, Entry
<1>7. GoodTable(V, s)
  BY <1>1, <1>5, <1>6, PutEntry
<1>8. GoodTable(WithPrecursor(V, p, q), s)
  BY <1>4, <1>7, PrecursorTable
<1> QED
  BY <1>8 DEF WithPrecursors

----------------------------------------------------------------------------
(* What the handlers send.                                                 *)

LEMMA GoodReply ==
    ASSUME NEW s, NEW n \in Nodes, NEW o \in Nodes, NEW d \in Nodes, NEW e \in Entry,
           NEW seq \in Nat, Sourced(seq, d, s), NEW hop \in Nat, NEW b \in BOOLEAN,
           e.nextHop \notin Nodes => n \in Attackers
    PROVE  /\ GoodMessage(Reply(n, o, e, d, seq, hop), s)
           /\ GoodMessage([Reply(n, o, e, d, seq, hop) EXCEPT !.ack = b], s)
<1> DEFINE rrep(ack) == [type |-> "RREP", from |-> n, to |-> e.nextHop, origin |-> o,
                         dst |-> d, seq |-> seq, hop |-> hop, ttl |-> e.hop, ack |-> ack]
<1>1. e.nextHop \in Nodes \cup {NoHop} /\ e.hop \in Nat
  BY DEF Entry
<1>2. ASSUME NEW ack \in BOOLEAN PROVE GoodMessage(rrep(ack), s)
  BY <1>1 DEF GoodMessage, Message, Rrep
<1>3. Reply(n, o, e, d, seq, hop) = rrep(FALSE)
  BY DEF Reply
<1>4. [rrep(FALSE) EXCEPT !.ack = b] = rrep(b)
  OBVIOUS
<1> HIDE DEF rrep
<1> QED
  BY <1>2, <1>3, <1>4

LEMMA GoodErrors ==
    ASSUME NEW s, NEW T, NEW n \in Nodes, NEW P \in SUBSET Nodes, NEW D \in SUBSET Nodes
    PROVE  \A c \in SendRerrMessage(n, T, P, D) : GoodMessage(c, s)
<1> DEFINE rerr == [type |-> "RERR", from |-> n, to |-> n, dsts |-> D]
<1>1. ASSUME NEW x \in Nodes PROVE GoodMessage([rerr EXCEPT !.to = x], s)
  BY DEF GoodMessage, Message, Rerr
<1>2. \A c \in Broadcast(rerr) : GoodMessage(c, s)
  BY <1>1 DEF Broadcast
<1> HIDE DEF rerr
<1>3. SendRerrMessage(n, T, P, D) \subseteq
        Broadcast(rerr) \cup {[rerr EXCEPT !.to = p] : p \in P}
  BY DEF SendRerrMessage, rerr
<1> QED
  BY <1>1, <1>2, <1>3

----------------------------------------------------------------------------
(* What the two kinds of step do to tables and messages.                   *)

LEMMA HandledStep ==
    ASSUME Inv, NEW m \in air, m.to \in Nodes, NEW T, NEW S, Handled(m, T, S),
           m_seqNo' \in Numbers, Later(m_seqNo, m_seqNo'),
           GoodTable(T, m_seqNo'), \A c \in S : GoodMessage(c, m_seqNo')
    PROVE  /\ rt' \in [Nodes -> [Nodes -> Entry]]
           /\ \A n \in Nodes : GoodTable(rt'[n], m_seqNo')
           /\ \A c \in air' : GoodMessage(c, m_seqNo')
<1>1. rt' = [rt EXCEPT ![m.to] = T] /\ air' = (air \ {m}) \cup S
  BY DEF Handled
<1>2. T \in [Nodes -> Entry] /\ rt \in [Nodes -> [Nodes -> Entry]] /\ m_seqNo \in Numbers
  BY DEF Inv, GoodTable
<1>3. rt' \in [Nodes -> [Nodes -> Entry]]
  BY <1>1, <1>2
<1>4. ASSUME NEW n \in Nodes PROVE GoodTable(rt'[n], m_seqNo')
  <2>1. rt'[n] = IF n = m.to THEN T ELSE rt[n]
    BY <1>1, <1>2
  <2>2. GoodTable(rt[n], m_seqNo)
    BY DEF Inv
  <2>3. GoodTable(rt[n], m_seqNo')
    BY <1>2, <2>2, TableStays
  <2> QED
    BY <2>1, <2>3
<1>5. ASSUME NEW c \in air' PROVE GoodMessage(c, m_seqNo')
  <2>1. c \in air => GoodMessage(c, m_seqNo')
    BY <1>2, MessageStays DEF Inv
  <2> QED
    BY <1>1, <2>1
<1> QED
  BY <1>3, <1>4, <1>5

LEMMA HappensStep ==
    ASSUME Inv, NEW n \in Nodes, NEW T, NEW S, Happens(n, T, S),
           m_seqNo' \in Numbers, Later(m_seqNo, m_seqNo'),
           GoodTable(T, m_seqNo'), \A c \in S : GoodMessage(c, m_seqNo')
    PROVE  /\ rt' \in [Nodes -> [Nodes -> Entry]]
           /\ \A x \in Nodes : GoodTable(rt'[x], m_seqNo')
           /\ \A c \in air' : GoodMessage(c, m_seqNo')
           /\ outside' \in 0..MaxOutside
<1>1. /\ rt' = [rt EXCEPT ![n] = T] /\ air' = air \cup S
      /\ outside < MaxOutside /\ outside' = outside + 1
  BY DEF Happens
<1>2. T \in [Nodes -> Entry] /\ rt \in [Nodes -> [Nodes -> Entry]] /\ m_seqNo \in Numbers
  BY DEF Inv, GoodTable
<1>3. rt' \in [Nodes -> [Nodes -> Entry]]
  BY <1>1, <1>2
<1>4. ASSUME NEW x \in Nodes PROVE GoodTable(rt'[x], m_seqNo')
  <2>1. rt'[x] = IF x = n THEN T ELSE rt[x]
    BY <1>1, <1>2
  <2>2. GoodTable(rt[x], m_seqNo)
    BY DEF Inv
  <2>3. GoodTable(rt[x], m_seqNo')
    BY <1>2, <2>2, TableStays
  <2> QED
    BY <2>1, <2>3
<1>5. ASSUME NEW c \in air' PROVE GoodMessage(c, m_seqNo')
  <2>1. c \in air => GoodMessage(c, m_seqNo')
    BY <1>2, MessageStays DEF Inv
  <2> QED
    BY <1>1, <2>1
<1>6. outside' \in 0..MaxOutside
  BY <1>1, NetworkAssumption DEF Inv
<1> QED
  BY <1>3, <1>4, <1>5, <1>6

(* A handler that touches neither counters nor cache. *)
LEMMA QuietStep ==
    ASSUME Inv, NEW m \in air, m.to \in Nodes, NEW T, NEW S, Handled(m, T, S),
           UNCHANGED <<own_vars, m_rreqIdCache, outside>>,
           GoodTable(T, m_seqNo), \A c \in S : GoodMessage(c, m_seqNo)
    PROVE  Inv'
<1>1. m_seqNo' = m_seqNo /\ m_seqNo \in Numbers /\ Later(m_seqNo, m_seqNo')
  BY DEF own_vars, Inv, Later, Numbers
<1>2. /\ rt' \in [Nodes -> [Nodes -> Entry]]
      /\ \A n \in Nodes : GoodTable(rt'[n], m_seqNo')
      /\ \A c \in air' : GoodMessage(c, m_seqNo')
  BY <1>1, HandledStep
<1> QED
  BY <1>1, <1>2 DEF Inv, own_vars

(* A request taken for the first time. *)
LEMMA AcceptedStep ==
    ASSUME Inv, NEW m \in air, m.to \in Nodes, m.type = "RREQ", NEW T, NEW S,
           Accepted(m, T, S),
           m_seqNo' \in Numbers, Later(m_seqNo, m_seqNo'),
           GoodTable(T, m_seqNo'), \A c \in S : GoodMessage(c, m_seqNo')
    PROVE  Inv'
<1>1. /\ rt' \in [Nodes -> [Nodes -> Entry]]
      /\ \A n \in Nodes : GoodTable(rt'[n], m_seqNo')
      /\ \A c \in air' : GoodMessage(c, m_seqNo')
  BY HandledStep DEF Accepted
<1>2. m.origin \in Nodes /\ m.id \in Nat
  BY Fields DEF Inv, GoodMessage
<1>3. m_rreqIdCache' \in [Nodes -> SUBSET (Nodes \X Nat)]
  BY <1>2 DEF Inv, Accepted
<1>4. m_requestId' = m_requestId /\ outside' = outside
  BY DEF Accepted
<1> QED
  BY <1>1, <1>3, <1>4 DEF Inv

----------------------------------------------------------------------------
(* Requests.                                                               *)

LEMMA RecvDuplicateKeeps ==
    ASSUME Inv, NEW m \in Flying("RREQ"), RecvDuplicate(m)
    PROVE  Inv'
<1>1. m \in air /\ m.to \in Nodes /\ m.from \in Nodes
  BY Fields DEF Flying, Inv, GoodMessage
<1>2. GoodTable(UpdateRouteToNeighbor(rt[m.to], m.from), m_seqNo)
  BY <1>1, NeighborTable DEF Inv
<1> QED
  BY <1>1, <1>2, QuietStep DEF RecvDuplicate

(* A reply with the own number, from the destination or an attacker. *)
LEMMA SendReplyKeeps ==
    ASSUME Inv, NEW m \in Flying("RREQ"), NEW T, NEW dseq, SendReply(m, T, dseq),
           GoodTable(T, m_seqNo), m.to \in Attackers \cup {m.dst},
           T[m.origin].nextHop \notin Nodes => m.to \in Attackers
    PROVE  Inv'
<1> DEFINE k == ReplySeqNo(m, dseq)
           reply == Reply(m.to, m.origin, T[m.origin], m.dst, k, 0)
<1>1. m \in air /\ m.to \in Nodes /\ m.type = "RREQ" /\ m \in Message
  BY DEF Flying, Inv, GoodMessage
<1>2. m.origin \in Nodes /\ m.dst \in Nodes
  BY <1>1, Fields
<1>3. m_seqNo \in Numbers /\ m_seqNo[m.to] \in Nat
  BY <1>1 DEF Inv, Numbers
<1>4. k \in Nat /\ m_seqNo[m.to] <= k
  BY <1>3 DEF ReplySeqNo
<1>5. m_seqNo' = [m_seqNo EXCEPT ![m.to] = k]
  BY DEF SendReply
<1>6. m_seqNo' \in Numbers /\ Later(m_seqNo, m_seqNo') /\ m_seqNo'[m.to] = k
  BY <1>1, <1>3, <1>4, <1>5 DEF Numbers, Later
<1>7. GoodTable(T, m_seqNo')
  BY <1>3, <1>6, TableStays
<1>8. T[m.origin] \in Entry
  BY <1>2 DEF GoodTable
<1>9. Sourced(k, m.dst, m_seqNo')
  BY <1>4, <1>6 DEF Sourced
<1> HIDE DEF k
<1>10. GoodMessage(reply, m_seqNo')
  BY <1>1, <1>2, <1>4, <1>8, <1>9, GoodReply
<1>11. Accepted(m, T, {reply})
  BY DEF SendReply, k
<1> QED
  BY <1>1, <1>6, <1>7, <1>10, <1>11, AcceptedStep

LEMMA ForgeReplyKeeps ==
    ASSUME Inv, NEW m \in Flying("RREQ"), ForgeReply(m)
    PROVE  Inv'
<1> DEFINE U == UpdateRouteToNeighbor(rt[m.to], m.from)
           T == IF Known(U, m.origin) THEN U
                ELSE [U EXCEPT ![m.origin] = Route(m.oseq, TRUE, 1, m.from)]
<1>1. m \in air /\ m.to \in Nodes /\ m.type = "RREQ" /\ m \in Message
      /\ GoodMessage(m, m_seqNo) /\ GoodTable(rt[m.to], m_seqNo)
  BY DEF Flying, Inv, GoodMessage
<1>2. m.origin \in Nodes /\ m.from \in Nodes /\ m.oseq \in Nat /\ m.oseq <= m_seqNo[m.origin]
  BY <1>1, Fields DEF GoodMessage
<1>3. GoodTable(U, m_seqNo)
  BY <1>1, <1>2, NeighborTable
<1>4. Sourced(m.oseq, m.origin, m_seqNo)
  BY <1>2 DEF Sourced
<1>5. GoodEntry(Route(m.oseq, TRUE, 1, m.from), m.origin, m_seqNo)
  BY <1>2, <1>4, FreshRoute
<1> HIDE DEF U
<1>6. GoodTable(T, m_seqNo)
  BY <1>2, <1>3, <1>5, PutEntry
<1>7. m.to \in Attackers /\ SendReply(m, T, m.dseq + ForgedLead)
  BY DEF ForgeReply, U
<1> HIDE DEF T
<1> QED
  BY <1>6, <1>7, SendReplyKeeps

LEMMA ReplyAsDestinationKeeps ==
    ASSUME Inv, NEW m \in Flying("RREQ"), ReplyAsDestination(m)
    PROVE  Inv'
<1>1. m \in air /\ m.to \in Nodes /\ m.type = "RREQ" /\ m \in Message /\ m.from \in Nodes
  BY Fields DEF Flying, Inv, GoodMessage
<1>2. /\ GoodTable(AfterRequest(m), m_seqNo)
      /\ AfterRequest(m)[m.origin].nextHop \in Nodes
  BY <1>1, RequestTable
<1> QED
  BY <1>2, SendReplyKeeps DEF ReplyAsDestination

LEMMA DropLoopKeeps ==
    ASSUME Inv, NEW m \in Flying("RREQ"), DropLoop(m)
    PROVE  Inv'
<1>1. m \in air /\ m.to \in Nodes /\ m.type = "RREQ" /\ m \in Message
  BY DEF Flying, Inv, GoodMessage
<1>2. m_seqNo' = m_seqNo /\ m_seqNo' \in Numbers /\ Later(m_seqNo, m_seqNo')
  BY DEF DropLoop, Inv, Later, Numbers
<1>3. GoodTable(AfterRequest(m), m_seqNo')
  BY <1>1, <1>2, RequestTable
<1> QED
  BY <1>1, <1>2, <1>3, AcceptedStep DEF DropLoop

LEMMA IntermediateReplyKeeps ==
    ASSUME Inv, NEW m \in Flying("RREQ"), SendReplyByIntermediateNode(m)
    PROVE  Inv'
<1> DEFINE T == AfterRequest(m)
           toDst == T[m.dst]
           toOrigin == T[m.origin]
           U == WithPrecursor(WithPrecursor(T, m.dst, toOrigin.nextHop), m.origin, toDst.nextHop)
           reply == [Reply(m.to, m.origin, toOrigin, m.dst, toDst.seq, toDst.hop)
                       EXCEPT !.ack = (toDst.hop = 1)]
           gratuitous == Reply(m.to, m.dst, toDst, m.origin, toOrigin.seq, toOrigin.hop)
<1>1. m \in air /\ m.to \in Nodes /\ m.type = "RREQ" /\ m \in Message
  BY DEF Flying, Inv, GoodMessage
<1>2. m.origin \in Nodes /\ m.dst \in Nodes /\ m.from \in Nodes
  BY <1>1, Fields
<1>3. GoodTable(T, m_seqNo) /\ toOrigin.nextHop = m.from
  BY <1>1, RequestTable
<1>4. /\ toDst \in Entry /\ toOrigin \in Entry
      /\ GoodEntry(toDst, m.dst, m_seqNo) /\ GoodEntry(toOrigin, m.origin, m_seqNo)
  BY <1>2, <1>3 DEF GoodTable
<1>5. toDst.vsn /\ toDst.flag = "VALID"
  BY DEF SendReplyByIntermediateNode, CanAnswer, FreshEnough
<1>6. toDst.nextHop \in Nodes /\ Sourced(toDst.seq, m.dst, m_seqNo)
  BY <1>4, <1>5 DEF GoodEntry
<1>7. /\ toDst.seq \in Nat /\ toDst.hop \in Nat /\ toOrigin.seq \in Nat /\ toOrigin.hop \in Nat
      /\ toOrigin.nextHop \in Nodes
  BY <1>2, <1>3, <1>4 DEF Entry
<1>8. Sourced(toOrigin.seq, m.origin, m_seqNo)
  BY <1>1, RequestTable
<1>9. GoodTable(U, m_seqNo)
  BY <1>3, <1>6, <1>7, PrecursorTable
<1>10. GoodMessage(reply, m_seqNo)
  BY <1>1, <1>2, <1>4, <1>6, <1>7, GoodReply
<1>11. GoodMessage(gratuitous, m_seqNo)
  BY <1>1, <1>2, <1>4, <1>6, <1>7, <1>8, GoodReply
<1>12. m_seqNo' = m_seqNo /\ m_seqNo' \in Numbers /\ Later(m_seqNo, m_seqNo')
  BY DEF SendReplyByIntermediateNode, Inv, Later, Numbers
<1>13. Accepted(m, U, {reply} \cup IF GratuitousReply THEN {gratuitous} ELSE {})
  BY DEF SendReplyByIntermediateNode
<1> HIDE DEF U, reply, gratuitous
<1> QED
  BY <1>1, <1>9, <1>10, <1>11, <1>12, <1>13, AcceptedStep

LEMMA ForwardRequestKeeps ==
    ASSUME Inv, NEW m \in Flying("RREQ"), ForwardRequest(m)
    PROVE  Inv'
<1> DEFINE e == AfterRequest(m)[m.dst]
           fwd == [m EXCEPT !.from = m.to, !.hop = m.hop + 1, !.ttl = m.ttl - 1,
                            !.dseq = IF FreshEnough(e, m) THEN e.seq ELSE m.dseq,
                            !.known = m.known \/ FreshEnough(e, m)]
           S == IF m.ttl < 2 THEN {} ELSE Broadcast(fwd)
<1>1. m \in air /\ m.to \in Nodes /\ m.type = "RREQ" /\ m \in Message /\ GoodMessage(m, m_seqNo)
  BY DEF Flying, Inv, GoodMessage
<1>2. /\ m \in Rreq /\ m.origin \in Nodes /\ m.dst \in Nodes /\ m.hop \in Nat /\ m.ttl \in Nat
      /\ m.dseq \in Nat /\ m.known \in BOOLEAN
  BY <1>1, Fields
<1>3. GoodTable(AfterRequest(m), m_seqNo)
  BY <1>1, RequestTable
<1>4. GoodEntry(e, m.dst, m_seqNo) /\ e.seq \in Nat
  BY <1>2, <1>3 DEF GoodTable, GoodEntry, Entry
<1>5. FreshEnough(e, m) \in BOOLEAN /\ (FreshEnough(e, m) => Sourced(e.seq, m.dst, m_seqNo))
  BY <1>2, <1>4 DEF FreshEnough, GoodEntry, Entry
<1>6. m.known => Sourced(m.dseq, m.dst, m_seqNo)
  BY <1>1 DEF GoodMessage
<1>7. m_seqNo' = m_seqNo /\ m_seqNo' \in Numbers /\ Later(m_seqNo, m_seqNo')
  BY DEF ForwardRequest, Inv, Later, Numbers
<1>8. ASSUME NEW x \in Nodes, ~(m.ttl < 2)
      PROVE  GoodMessage([fwd EXCEPT !.to = x], m_seqNo)
  <2> DEFINE seq == IF FreshEnough(e, m) THEN e.seq ELSE m.dseq
             known == m.known \/ FreshEnough(e, m)
             copy == [m EXCEPT !.from = m.to, !.hop = m.hop + 1, !.ttl = m.ttl - 1,
                               !.dseq = seq, !.known = known, !.to = x]
  <2>1. seq \in Nat
    BY <1>2, <1>4
  <2>2. known \in BOOLEAN
    BY <1>2, <1>5, Zenon
  <2>3. known => Sourced(seq, m.dst, m_seqNo)
    BY <1>5, <1>6
  <2> HIDE DEF seq, known
  <2>4. m.hop + 1 \in Nat /\ m.ttl - 1 \in Nat
    BY <1>2, <1>8
  <2>5. /\ copy \in Rreq /\ copy.dseq = seq /\ copy.known = known /\ copy.to = x
        /\ copy.oseq = m.oseq /\ copy.origin = m.origin /\ copy.dst = m.dst /\ copy.type = "RREQ"
    BY <1>1, <1>2, <2>1, <2>2, <2>4 DEF Rreq
  <2> HIDE DEF copy
  <2>6. GoodMessage(copy, m_seqNo)
    BY <1>1, <1>8, <2>3, <2>5 DEF GoodMessage, Message
  <2> QED
    BY <2>6 DEF copy, seq, known
<1>9. \A c \in S : GoodMessage(c, m_seqNo)
  BY <1>8 DEF Broadcast
<1>10. Accepted(m, AfterRequest(m), S)
  BY DEF ForwardRequest
<1> HIDE DEF S
<1> QED
  BY <1>1, <1>3, <1>7, <1>9, <1>10, AcceptedStep

----------------------------------------------------------------------------
(* Replies.                                                                *)

(* What every reply may be acknowledged with. *)
LEMMA GoodAck ==
    ASSUME Inv, NEW m \in Flying("RREP")
    PROVE  \A c \in ReplyAck(m) : GoodMessage(c, m_seqNo)
<1>1. m.to \in Nodes /\ m.from \in Nodes
  BY Fields DEF Flying, Inv, GoodMessage
<1>2. GoodMessage([type |-> "RREP_ACK", from |-> m.to, to |-> m.from], m_seqNo)
  BY <1>1 DEF GoodMessage, Message, RrepAck
<1> QED
  BY <1>2 DEF ReplyAck

LEMMA ReplyArrivesKeeps ==
    ASSUME Inv, NEW m \in Flying("RREP"), NEW T, NEW S, ReplyArrives(m, T, S),
           GoodTable(T, m_seqNo), \A c \in S : GoodMessage(c, m_seqNo)
    PROVE  Inv'
<1>1. m \in air /\ m.to \in Nodes
  BY DEF Flying
<1>2. \A c \in ReplyAck(m) \cup S : GoodMessage(c, m_seqNo)
  BY GoodAck
<1>3. Handled(m, T, ReplyAck(m) \cup S) /\ UNCHANGED <<own_vars, m_rreqIdCache, outside>>
  BY DEF ReplyArrives
<1> QED
  BY <1>1, <1>2, <1>3, QuietStep

LEMMA RecvReplyKeeps ==
    ASSUME Inv, NEW m \in Flying("RREP"), RecvReply(m)
    PROVE  Inv'
<1> DEFINE route == Route(m.seq, TRUE, m.hop + 1, m.from)
           T == IF UpdateRouteToNeighbor(rt[m.to], m.from)[m.dst].flag = "IN_SEARCH"
                THEN [AfterReply(m) EXCEPT ![m.dst] = route] ELSE AfterReply(m)
<1>1. m \in air /\ m.to \in Nodes /\ m.type = "RREP" /\ m \in Message /\ GoodMessage(m, m_seqNo)
  BY DEF Flying, Inv, GoodMessage
<1>2. m.dst \in Nodes /\ m.from \in Nodes /\ m.seq \in Nat /\ m.hop + 1 \in Nat
  BY <1>1, Fields
<1>3. GoodTable(AfterReply(m), m_seqNo)
  BY <1>1, ReplyTable
<1>4. GoodEntry(route, m.dst, m_seqNo)
  BY <1>1, <1>2, FreshRoute DEF GoodMessage
<1>5. GoodTable([AfterReply(m) EXCEPT ![m.dst] = route], m_seqNo)
  BY <1>2, <1>3, <1>4, PutEntry
<1>6. GoodTable(T, m_seqNo)
  BY <1>3, <1>5
<1>7. ReplyArrives(m, T, {})
  BY DEF RecvReply
<1> HIDE DEF T
<1> QED
  BY <1>6, <1>7, ReplyArrivesKeeps

LEMMA DropReplyKeeps ==
    ASSUME Inv, NEW m \in Flying("RREP"), DropReply(m)
    PROVE  Inv'
<1>1. GoodTable(AfterReply(m), m_seqNo)
  BY ReplyTable DEF Flying, Inv, GoodMessage
<1> QED
  BY <1>1, ReplyArrivesKeeps DEF DropReply

LEMMA ForwardReplyKeeps ==
    ASSUME Inv, NEW m \in Flying("RREP"), ForwardReply(m)
    PROVE  Inv'
<1> DEFINE T == AfterReply(m)
           U == IF T[m.dst].flag = "VALID" THEN WithPrecursors(T, m) ELSE T
           next == T[m.origin].nextHop
           fwd == [m EXCEPT !.from = m.to, !.to = next, !.hop = m.hop + 1,
                            !.ttl = m.ttl - 1, !.ack = FALSE]
           S == IF m.ttl < 2 THEN {} ELSE {fwd}
<1>1. m \in air /\ m.to \in Nodes /\ m.type = "RREP" /\ m \in Message /\ GoodMessage(m, m_seqNo)
  BY DEF Flying, Inv, GoodMessage
<1>2. /\ m \in Rrep /\ m.origin \in Nodes /\ m.dst \in Nodes /\ m.seq \in Nat
      /\ m.hop \in Nat /\ m.ttl \in Nat
  BY <1>1, Fields
<1>3. GoodTable(T, m_seqNo)
  BY <1>1, ReplyTable
<1>4. WayBack(T[m.origin])
  BY DEF ForwardReply
<1>5. next \in Nodes
  BY <1>2, <1>3, <1>4 DEF GoodTable, GoodEntry, WayBack, Entry, Flags
<1>6. GoodTable(U, m_seqNo)
  BY <1>1, <1>3, <1>4, PrecursorsTable
<1> HIDE DEF next
<1>7. ASSUME ~(m.ttl < 2) PROVE GoodMessage(fwd, m_seqNo)
  <2>1. m.hop + 1 \in Nat /\ m.ttl - 1 \in Nat
    BY <1>2, <1>7
  <2>2. /\ fwd \in Rrep /\ fwd.seq = m.seq /\ fwd.dst = m.dst /\ fwd.to = next
        /\ fwd.type = "RREP"
    BY <1>1, <1>2, <1>5, <2>1 DEF Rrep
  <2> HIDE DEF fwd
  <2> QED
    BY <1>1, <1>5, <2>2 DEF GoodMessage, Message
<1>8. \A c \in S : GoodMessage(c, m_seqNo)
  BY <1>7
<1>9. ReplyArrives(m, U, S)
  BY DEF ForwardReply, next
<1> HIDE DEF U, S
<1> QED
  BY <1>6, <1>8, <1>9, ReplyArrivesKeeps

LEMMA ProcessHelloKeeps ==
    ASSUME Inv, NEW m \in Flying("RREP"), ProcessHello(m)
    PROVE  Inv'
<1> DEFINE T == UpdateRouteToNeighbor(rt[m.to], m.from)
           f == [Route(m.seq, TRUE, 1, m.dst) EXCEPT !.precursors = T[m.dst].precursors]
<1>1. /\ m \in air /\ m.to \in Nodes /\ m.type = "RREP" /\ m \in Message
      /\ GoodMessage(m, m_seqNo) /\ GoodTable(rt[m.to], m_seqNo)
  BY DEF Flying, Inv, GoodMessage
<1>2. m.dst \in Nodes /\ m.from \in Nodes /\ m.seq \in Nat
  BY <1>1, Fields
<1>3. GoodTable(T, m_seqNo)
  BY <1>1, <1>2, NeighborTable
<1>4. T[m.dst].precursors \subseteq Nodes
  BY <1>2, <1>3 DEF GoodTable, Entry
<1>5. Sourced(m.seq, m.dst, m_seqNo)
  BY <1>1 DEF GoodMessage
<1>6. GoodEntry(f, m.dst, m_seqNo)
  BY <1>2, <1>4, <1>5 DEF GoodEntry, Route, Entry, Flags
<1> HIDE DEF f
<1>7. GoodTable([T EXCEPT ![m.dst] = f], m_seqNo)
  BY <1>2, <1>3, <1>6, PutEntry
<1>8. Handled(m, [T EXCEPT ![m.dst] = f], {}) /\ UNCHANGED <<own_vars, m_rreqIdCache, outside>>
  BY DEF ProcessHello, f
<1> QED
  BY <1>1, <1>7, <1>8, QuietStep

(* The entry that becomes VALID is a neighbour's, so it has a next hop. *)
LEMMA RecvReplyAckKeeps ==
    ASSUME Inv, NEW m \in Flying("RREP_ACK"), RecvReplyAck(m)
    PROVE  Inv'
<1> DEFINE T == UpdateRouteToNeighbor(rt[m.to], m.from)
           f == [T[m.from] EXCEPT !.flag = "VALID"]
<1>1. m \in air /\ m.to \in Nodes /\ m.from \in Nodes /\ GoodTable(rt[m.to], m_seqNo)
  BY Fields DEF Flying, Inv, GoodMessage
<1>2. GoodTable(T, m_seqNo)
  BY <1>1, NeighborTable
<1>3. T[m.from] \in Entry /\ GoodEntry(T[m.from], m.from, m_seqNo)
  BY <1>1, <1>2 DEF GoodTable
<1>4. T[m.from].nextHop \in Nodes
  <2>1. CASE Known(rt[m.to], m.from) /\ rt[m.to][m.from].vsn /\ rt[m.to][m.from].hop = 1
    BY <1>3, <2>1 DEF UpdateRouteToNeighbor, GoodEntry
  <2>2. CASE ~(Known(rt[m.to], m.from) /\ rt[m.to][m.from].vsn /\ rt[m.to][m.from].hop = 1)
    BY <1>1, <2>2 DEF UpdateRouteToNeighbor, GoodTable, Route
  <2> QED
    BY <2>1, <2>2
<1>5. GoodEntry(f, m.from, m_seqNo)
  BY <1>3, <1>4 DEF GoodEntry, Entry, Flags
<1>6. Handled(m, [T EXCEPT ![m.from] = f], {}) /\ UNCHANGED <<own_vars, m_rreqIdCache, outside>>
  BY DEF RecvReplyAck
<1> HIDE DEF f
<1>7. GoodTable([T EXCEPT ![m.from] = f], m_seqNo)
  BY <1>1, <1>2, <1>5, PutEntry
<1> QED
  BY <1>1, <1>6, <1>7, QuietStep

----------------------------------------------------------------------------
(* Errors, hellos, requests of the node's own, lifetimes.                  *)

LEMMA PrecursorsAreNodes ==
    ASSUME NEW s, NEW T, GoodTable(T, s), NEW D \in SUBSET Nodes
    PROVE  PrecursorsOf(T, D) \in SUBSET Nodes
BY DEF PrecursorsOf, GoodTable, Entry

LEMMA RecvErrorKeeps ==
    ASSUME Inv, NEW m \in Flying("RERR"), RecvError(m)
    PROVE  Inv'
<1> DEFINE T == UpdateRouteToNeighbor(rt[m.to], m.from)
           D == m.dsts \cap Via(T, m.from)
           S == IF D = {} THEN {} ELSE SendRerrMessage(m.to, T, PrecursorsOf(T, D), D)
<1>1. m \in air /\ m.to \in Nodes /\ m.from \in Nodes /\ GoodTable(rt[m.to], m_seqNo)
  BY Fields DEF Flying, Inv, GoodMessage
<1>2. GoodTable(T, m_seqNo)
  BY <1>1, NeighborTable
<1>3. D \in SUBSET Nodes
  BY DEF Via
<1>4. PrecursorsOf(T, D) \in SUBSET Nodes
  BY <1>2, <1>3, PrecursorsAreNodes
<1>5. \A c \in S : GoodMessage(c, m_seqNo)
  BY <1>1, <1>3, <1>4, GoodErrors
<1>6. GoodTable(InvalidateRoutesWithDst(T, D), m_seqNo)
  BY <1>2, InvalidatedTable
<1>7. /\ Handled(m, InvalidateRoutesWithDst(T, D), S)
      /\ UNCHANGED <<own_vars, m_rreqIdCache, outside>>
  BY DEF RecvError
<1> HIDE DEF T, D, S
<1> QED
  BY <1>1, <1>5, <1>6, <1>7, QuietStep

(* An event that touches neither counters nor cache. *)
LEMMA EventStep ==
    ASSUME Inv, NEW n \in Nodes, NEW T, NEW S, Happens(n, T, S),
           UNCHANGED <<own_vars, m_rreqIdCache>>,
           GoodTable(T, m_seqNo), \A c \in S : GoodMessage(c, m_seqNo)
    PROVE  Inv'
<1>1. m_seqNo' = m_seqNo /\ m_seqNo \in Numbers /\ Later(m_seqNo, m_seqNo')
  BY DEF own_vars, Inv, Later, Numbers
<1>2. /\ rt' \in [Nodes -> [Nodes -> Entry]]
      /\ \A x \in Nodes : GoodTable(rt'[x], m_seqNo')
      /\ \A c \in air' : GoodMessage(c, m_seqNo')
      /\ outside' \in 0..MaxOutside
  BY <1>1, HappensStep
<1> QED
  BY <1>1, <1>2 DEF Inv, own_vars

LEMMA SendHelloKeeps ==
    ASSUME Inv, NEW n \in Nodes, SendHello(n)
    PROVE  Inv'
<1> DEFINE hello == [type |-> "RREP", from |-> n, to |-> n, origin |-> n, dst |-> n,
                     seq |-> m_seqNo[n], hop |-> 0, ttl |-> 1, ack |-> FALSE]
<1>1. m_seqNo[n] \in Nat /\ Sourced(m_seqNo[n], n, m_seqNo)
  BY DEF Inv, Numbers, Sourced
<1>2. ASSUME NEW x \in Nodes PROVE GoodMessage([hello EXCEPT !.to = x], m_seqNo)
  BY <1>1 DEF GoodMessage, Message, Rrep
<1>3. \A c \in Broadcast(hello) : GoodMessage(c, m_seqNo)
  BY <1>2 DEF Broadcast
<1>4. GoodTable(rt[n], m_seqNo)
  BY DEF Inv
<1>5. Happens(n, rt[n], Broadcast(hello)) /\ UNCHANGED <<own_vars, m_rreqIdCache>>
  BY DEF SendHello
<1> HIDE DEF hello
<1> QED
  BY <1>3, <1>4, <1>5, EventStep

LEMMA RingIsNat ==
    ASSUME NEW e \in Entry
    PROVE  RingTtl(e) \in Nat
BY NetworkAssumption DEF RingTtl, Entry

LEMMA SendRequestKeeps ==
    ASSUME Inv, NEW n \in Nodes, NEW d \in Nodes, SendRequest(n, d)
    PROVE  Inv'
<1> DEFINE e == rt[n][d]
           f == [e EXCEPT !.flag = "IN_SEARCH", !.hop = RingTtl(e)]
           seq == IF e.vsn THEN e.seq ELSE 0
           rreq == [type |-> "RREQ", from |-> n, to |-> n, origin |-> n, dst |-> d,
                    id |-> m_requestId[n] + 1, oseq |-> m_seqNo[n] + 1,
                    dseq |-> seq, known |-> e.vsn, hop |-> 0, ttl |-> RingTtl(e)]
<1>1. /\ m_seqNo \in Numbers /\ m_requestId \in Numbers
      /\ m_seqNo' = [m_seqNo EXCEPT ![n] = @ + 1]
      /\ m_requestId' = [m_requestId EXCEPT ![n] = @ + 1]
  BY DEF SendRequest, Inv
<1>2. m_seqNo' \in Numbers /\ Later(m_seqNo, m_seqNo') /\ m_seqNo'[n] = m_seqNo[n] + 1
  BY <1>1 DEF Numbers, Later
<1>3. m_requestId' \in Numbers /\ m_requestId[n] + 1 \in Nat /\ m_seqNo[n] + 1 \in Nat
  BY <1>1 DEF Numbers
<1>4. GoodTable(rt[n], m_seqNo')
  BY <1>1, <1>2, TableStays DEF Inv
<1>5. e \in Entry /\ GoodEntry(e, d, m_seqNo')
  BY <1>4 DEF GoodTable
<1>6. RingTtl(e) \in Nat
  BY <1>5, RingIsNat
<1>7. GoodEntry(f, d, m_seqNo')
  BY <1>5, <1>6 DEF GoodEntry, Entry, Flags
<1>8. GoodTable([rt[n] EXCEPT ![d] = f], m_seqNo')
  BY <1>4, <1>7, PutEntry
<1>9. seq \in Nat /\ e.vsn \in BOOLEAN /\ (e.vsn => Sourced(seq, d, m_seqNo'))
  BY <1>5 DEF GoodEntry, Entry
<1>10. [rt[n] EXCEPT ![d].flag = "IN_SEARCH", ![d].hop = RingTtl(e)] = [rt[n] EXCEPT ![d] = f]
  BY <1>4 DEF GoodTable
<1>11. Happens(n, [rt[n] EXCEPT ![d] = f], Broadcast(rreq))
  BY <1>10 DEF SendRequest
<1> HIDE DEF e, f, seq
<1>12. ASSUME NEW x \in Nodes PROVE GoodMessage([rreq EXCEPT !.to = x], m_seqNo')
  <2> DEFINE copy == [rreq EXCEPT !.to = x]
  <2>1. /\ copy \in Rreq /\ copy.dseq = seq /\ copy.known = e.vsn /\ copy.to = x
        /\ copy.oseq = m_seqNo[n] + 1 /\ copy.origin = n /\ copy.dst = d /\ copy.type = "RREQ"
    BY <1>3, <1>6, <1>9 DEF Rreq
  <2> HIDE DEF copy
  <2>2. copy.oseq <= m_seqNo'[copy.origin]
    BY <1>2, <1>3, <2>1
  <2> QED
    BY <1>9, <2>1, <2>2 DEF GoodMessage, Message, copy
<1>13. \A c \in Broadcast(rreq) : GoodMessage(c, m_seqNo')
  BY <1>12 DEF Broadcast
<1>14. m_rreqIdCache' \in [Nodes -> SUBSET (Nodes \X Nat)]
  BY <1>3 DEF SendRequest, Inv
<1> HIDE DEF rreq
<1>15. /\ rt' \in [Nodes -> [Nodes -> Entry]]
       /\ \A x \in Nodes : GoodTable(rt'[x], m_seqNo')
       /\ \A c \in air' : GoodMessage(c, m_seqNo')
       /\ outside' \in 0..MaxOutside
  BY <1>2, <1>8, <1>11, <1>13, HappensStep
<1> QED
  BY <1>2, <1>3, <1>14, <1>15 DEF Inv

LEMMA BrokenLinkKeeps ==
    ASSUME Inv, NEW n \in Nodes, NEW x \in Nodes, SendRerrWhenBreaksLinkToNextHop(n, x)
    PROVE  Inv'
<1> DEFINE D == Via(rt[n], x) \cup {x}
           S == SendRerrMessage(n, rt[n], PrecursorsOf(rt[n], D), D)
<1>1. GoodTable(rt[n], m_seqNo)
  BY DEF Inv
<1>2. D \in SUBSET Nodes
  BY DEF Via
<1>3. PrecursorsOf(rt[n], D) \in SUBSET Nodes
  BY <1>1, <1>2, PrecursorsAreNodes
<1>4. \A c \in S : GoodMessage(c, m_seqNo)
  BY <1>2, <1>3, GoodErrors
<1>5. GoodTable(InvalidateRoutesWithDst(rt[n], D), m_seqNo)
  BY <1>1, InvalidatedTable
<1>6. /\ Happens(n, InvalidateRoutesWithDst(rt[n], D), S)
      /\ UNCHANGED <<own_vars, m_rreqIdCache>>
  BY DEF SendRerrWhenBreaksLinkToNextHop
<1> HIDE DEF D, S
<1> QED
  BY <1>4, <1>5, <1>6, EventStep

LEMMA NoRouteKeeps ==
    ASSUME Inv, NEW n \in Nodes, NEW d \in Nodes, NEW o \in Nodes,
           SendRerrWhenNoRouteToForward(n, d, o)
    PROVE  Inv'
<1> DEFINE rerr == [type |-> "RERR", from |-> n, to |-> n, dsts |-> {d}]
           back == rt[n][o]
           S == IF back.flag = "VALID" THEN {[rerr EXCEPT !.to = back.nextHop]}
                ELSE Broadcast(rerr)
<1>1. GoodTable(rt[n], m_seqNo)
  BY DEF Inv
<1>2. back.flag = "VALID" => back.nextHop \in Nodes
  BY <1>1 DEF GoodTable, GoodEntry
<1>3. ASSUME NEW x \in Nodes PROVE GoodMessage([rerr EXCEPT !.to = x], m_seqNo)
  BY DEF GoodMessage, Message, Rerr
<1>4. \A c \in Broadcast(rerr) : GoodMessage(c, m_seqNo)
  BY <1>3 DEF Broadcast
<1> HIDE DEF rerr, back
<1>5. \A c \in S : GoodMessage(c, m_seqNo)
  BY <1>2, <1>3, <1>4
<1>6. Happens(n, rt[n], S) /\ UNCHANGED <<own_vars, m_rreqIdCache>>
  BY DEF SendRerrWhenNoRouteToForward, rerr, back
<1> HIDE DEF S
<1> QED
  BY <1>1, <1>5, <1>6, EventStep

LEMMA ExpireKeeps ==
    ASSUME Inv, NEW n \in Nodes, NEW d \in Nodes, Expire(n, d)
    PROVE  Inv'
<1> DEFINE e == rt[n][d]
           f == IF e.flag = "VALID" THEN [e EXCEPT !.flag = "INVALID"] ELSE NoRoute
           T == [rt[n] EXCEPT ![d] = f]
<1>1. GoodTable(rt[n], m_seqNo) /\ rt \in [Nodes -> [Nodes -> Entry]]
  BY DEF Inv
<1>2. e \in Entry /\ GoodEntry(e, d, m_seqNo)
  BY <1>1 DEF GoodTable
<1>3. GoodEntry(NoRoute, d, m_seqNo)
  BY DEF GoodEntry, NoRoute, Route, Entry, Flags
<1>4. e.flag = "VALID" => GoodEntry([e EXCEPT !.flag = "INVALID"], d, m_seqNo)
  BY <1>2 DEF GoodEntry, Entry, Flags
<1>5. GoodEntry(f, d, m_seqNo)
  BY <1>3, <1>4
<1>6. rt' = [rt EXCEPT ![n][d] = f] /\ UNCHANGED <<own_vars, m_rreqIdCache, air, outside>>
  BY <1>1 DEF Expire
<1> HIDE DEF f
<1>7. GoodTable(T, m_seqNo)
  BY <1>1, <1>5, PutEntry
<1>8. rt' = [rt EXCEPT ![n] = T]
  BY <1>1, <1>6
<1> HIDE DEF T
<1>9. rt' \in [Nodes -> [Nodes -> Entry]]
  BY <1>1, <1>7, <1>8 DEF GoodTable
<1>10. \A x \in Nodes : GoodTable(rt'[x], m_seqNo)
  BY <1>1, <1>7, <1>8 DEF Inv
<1> QED
  BY <1>6, <1>9, <1>10 DEF Inv, own_vars

----------------------------------------------------------------------------
(* The invariant.                                                          *)

LEMMA InitGood == Init => Inv
<1> SUFFICES ASSUME Init PROVE Inv
  OBVIOUS
<1>1. NoRoute \in Entry /\ NoRoute.flag = "NONE" /\ NoRoute.vsn = FALSE
  BY DEF NoRoute, Route, Entry, Flags
<1>2. rt \in [Nodes -> [Nodes -> Entry]] /\ \A n, d \in Nodes : rt[n][d] = NoRoute
  BY <1>1 DEF Init
<1>3. \A n \in Nodes : GoodTable(rt[n], m_seqNo)
  BY <1>1, <1>2 DEF GoodTable, GoodEntry
<1> QED
  BY <1>2, <1>3, NetworkAssumption DEF Init, Inv, Numbers

LEMMA DeliverGood ==
    ASSUME Inv, Deliver
    PROVE  Inv'
<1>1. CASE \E m \in Flying("RREQ") : \/ RecvDuplicate(m) \/ ForgeReply(m)
                                     \/ ReplyAsDestination(m) \/ DropLoop(m)
                                     \/ SendReplyByIntermediateNode(m) \/ ForwardRequest(m)
  BY <1>1, RecvDuplicateKeeps, ForgeReplyKeeps, ReplyAsDestinationKeeps, DropLoopKeeps,
     IntermediateReplyKeeps, ForwardRequestKeeps
<1>2. CASE \E m \in Flying("RREP") : RecvReply(m) \/ DropReply(m) \/ ForwardReply(m)
                                     \/ ProcessHello(m)
  BY <1>2, RecvReplyKeeps, DropReplyKeeps, ForwardReplyKeeps, ProcessHelloKeeps
<1>3. CASE \E m \in Flying("RREP_ACK") : RecvReplyAck(m)
  BY <1>3, RecvReplyAckKeeps
<1>4. CASE \E m \in Flying("RERR") : RecvError(m)
  BY <1>4, RecvErrorKeeps
<1> QED
  BY <1>1, <1>2, <1>3, <1>4 DEF Deliver

LEMMA NextGood == Inv /\ [Next]_vars => Inv'
<1> SUFFICES ASSUME Inv, [Next]_vars PROVE Inv'
  OBVIOUS
<1>1. CASE Deliver
  BY <1>1, DeliverGood
<1>2. CASE \E n \in Nodes : SendHello(n)
  BY <1>2, SendHelloKeeps
<1>3. CASE \E n, d \in Nodes : SendRequest(n, d) \/ Expire(n, d)
  BY <1>3, SendRequestKeeps, ExpireKeeps
<1>4. CASE \E n, x \in Nodes : SendRerrWhenBreaksLinkToNextHop(n, x)
  BY <1>4, BrokenLinkKeeps
<1>5. CASE \E n, d, o \in Nodes : SendRerrWhenNoRouteToForward(n, d, o)
  BY <1>5, NoRouteKeeps
<1>6. CASE UNCHANGED vars
  BY <1>6 DEF Inv, vars, own_vars
<1> QED
  BY <1>1, <1>2, <1>3, <1>4, <1>5, <1>6 DEF Next

LEMMA InvHolds == Spec => []Inv
<1>1. Init => Inv
  BY InitGood
<1>2. Inv /\ [Next]_vars => Inv'
  BY NextGood
<1> QED
  BY <1>1, <1>2, PTL DEF Spec

(* Tables, counters, caches and messages keep their types. *)
THEOREM TypeCorrect == Spec => []TypeOK
<1>1. Inv => TypeOK
  BY DEF Inv, TypeOK, GoodMessage, Message, Numbers
<1> QED
  BY <1>1, InvHolds, PTL

(* RecvRequest, RecvReply and ProcessHello never let a sequence number     *)
(* into a table or a message that its destination, or an attacker, has not *)
(* reached: what ForgeReply adds to a number stays out of the network.     *)
THEOREM SequenceNumbersHaveSource == Spec => []SeqNoHasSource
<1>1. ASSUME Inv PROVE SeqNoHasSource
  <2>1. \A k \in Nat, d \in Nodes : Reached(k, d) <=> Sourced(k, d, m_seqNo)
    BY DEF Reached, Sourced
  <2>2. ASSUME NEW n \in Nodes, NEW d \in Nodes, rt[n][d].vsn
        PROVE  Reached(rt[n][d].seq, d)
    <3>1. GoodEntry(rt[n][d], d, m_seqNo)
      BY <1>1 DEF Inv, GoodTable
    <3> QED
      BY <2>1, <2>2, <3>1 DEF GoodEntry, Entry
  <2>3. ASSUME NEW m \in air
        PROVE  /\ m.type = "RREQ" => /\ m.oseq <= m_seqNo[m.origin]
                                     /\ m.known => Reached(m.dseq, m.dst)
               /\ m.type = "RREP" => Reached(m.seq, m.dst)
    <3>1. GoodMessage(m, m_seqNo) /\ m \in Message
      BY <1>1 DEF Inv, GoodMessage
    <3> QED
      BY <2>1, <3>1, Fields DEF GoodMessage
  <2> QED
    BY <2>2, <2>3 DEF SeqNoHasSource
<1> QED
  BY <1>1, InvHolds, PTL

(* NS_ASSERT(socket) never fails at a node that does not forge replies.    *)
THEOREM HonestNodesFindSockets == Spec => []HonestSocketFound
<1>1. Inv => HonestSocketFound
  BY NetworkAssumption DEF Inv, GoodMessage, HonestSocketFound
<1> QED
  BY <1>1, InvHolds, PTL

----------------------------------------------------------------------------
(* Floods.  A copy of a request carries more hops than nodes that have     *)
(* seen it only if some node passed it on twice; the caches, a parameter,  *)
(* only grow.                                                              *)

Holders(m, C) == {n \in Nodes : <<m.origin, m.id>> \in C[n]}

BoundedCopy(m, C) ==
    m.type = "RREQ" =>
        /\ m.hop < Cardinality(Holders(m, C))
        /\ m.hop + m.ttl <= NetDiameter
        /\ <<m.origin, m.id>> \in C[m.from]

LEMMA CopyStaysBounded ==
    ASSUME NEW C, NEW D, \A n \in Nodes : C[n] \subseteq D[n],
           NEW m \in Message, BoundedCopy(m, C)
    PROVE  BoundedCopy(m, D)
<1> SUFFICES ASSUME m.type = "RREQ" PROVE BoundedCopy(m, D)
  BY DEF BoundedCopy
<1>1. m.hop \in Nat /\ m.from \in Nodes
  BY Fields
<1>2. Holders(m, C) \subseteq Holders(m, D) /\ Holders(m, D) \subseteq Nodes
  BY DEF Holders
<1>3. IsFiniteSet(Holders(m, D))
  BY <1>2, NetworkAssumption, FS_Subset
<1>4. /\ Cardinality(Holders(m, C)) <= Cardinality(Holders(m, D))
      /\ Cardinality(Holders(m, C)) \in Nat /\ Cardinality(Holders(m, D)) \in Nat
  BY <1>2, <1>3, FS_Subset, FS_CardinalityType
<1> QED
  BY <1>1, <1>4 DEF BoundedCopy

LEMMA CacheGrows ==
    ASSUME Inv, [Next]_vars, NEW n \in Nodes
    PROVE  m_rreqIdCache[n] \subseteq m_rreqIdCache'[n]
<1>1. m_rreqIdCache \in [Nodes -> SUBSET (Nodes \X Nat)]
  BY DEF Inv
<1>2. CASE \E m \in air : \E T, S : Accepted(m, T, S)
  BY <1>1, <1>2 DEF Accepted
<1>3. CASE \E x, d \in Nodes : SendRequest(x, d)
  BY <1>1, <1>3 DEF SendRequest
<1>4. CASE UNCHANGED m_rreqIdCache
  BY <1>4
<1>5. ASSUME NEW m \in Flying("RREQ")
      PROVE  /\ RecvDuplicate(m) => UNCHANGED m_rreqIdCache
             /\ \/ ForgeReply(m) \/ ReplyAsDestination(m) \/ DropLoop(m)
                \/ SendReplyByIntermediateNode(m) \/ ForwardRequest(m)
                => \E T, S : Accepted(m, T, S)
  BY DEF RecvDuplicate, ForgeReply, ReplyAsDestination, SendReply, DropLoop,
     SendReplyByIntermediateNode, ForwardRequest
<1>6. ASSUME NEW m \in Flying("RREP")
      PROVE  RecvReply(m) \/ DropReply(m) \/ ForwardReply(m) \/ ProcessHello(m)
                => UNCHANGED m_rreqIdCache
  BY DEF RecvReply, DropReply, ForwardReply, ReplyArrives, ProcessHello
<1>7. Deliver => (\E m \in air : \E T, S : Accepted(m, T, S)) \/ UNCHANGED m_rreqIdCache
  BY <1>5, <1>6 DEF Deliver, Flying, RecvReplyAck, RecvError
<1>8. \/ \E x \in Nodes : SendHello(x)
      \/ \E x, d \in Nodes : Expire(x, d)
      \/ \E x, y \in Nodes : SendRerrWhenBreaksLinkToNextHop(x, y)
      \/ \E x, d, o \in Nodes : SendRerrWhenNoRouteToForward(x, d, o)
      \/ UNCHANGED vars
      => UNCHANGED m_rreqIdCache
  BY DEF SendHello, Expire, SendRerrWhenBreaksLinkToNextHop, SendRerrWhenNoRouteToForward, vars
<1> QED
  BY <1>2, <1>3, <1>4, <1>7, <1>8 DEF Next

LEMMA ErrorsOnly ==
    ASSUME NEW n, NEW T, NEW P, NEW D, NEW c \in SendRerrMessage(n, T, P, D)
    PROVE  c.type = "RERR"
<1> DEFINE rerr == [type |-> "RERR", from |-> n, to |-> n, dsts |-> D]
<1>1. \A c2 \in Broadcast(rerr) : c2.type = "RERR"
  BY DEF Broadcast
<1>2. \A x : [rerr EXCEPT !.to = x].type = "RERR"
  OBVIOUS
<1> HIDE DEF rerr
<1>3. SendRerrMessage(n, T, P, D) \subseteq
        Broadcast(rerr) \cup {[rerr EXCEPT !.to = p] : p \in P}
  BY DEF SendRerrMessage, rerr
<1> QED
  BY <1>1, <1>2, <1>3

(* Where a new copy of a request comes from. *)
Started(c, n, d) ==
    /\ c.from = n /\ c.origin = n /\ c.id = m_requestId[n] + 1
    /\ c.hop = 0 /\ c.ttl = RingTtl(rt[n][d])

PassedOn(c, m) ==
    /\ c.from = m.to /\ c.origin = m.origin /\ c.id = m.id
    /\ c.hop = m.hop + 1 /\ c.ttl = m.ttl - 1 /\ ~(m.ttl < 2)

LEMMA StartedCopy ==
    ASSUME NEW n \in Nodes, NEW d \in Nodes, SendRequest(n, d), NEW c \in air', c \notin air
    PROVE  Started(c, n, d)
<1> DEFINE e == rt[n][d]
           rreq == [type |-> "RREQ", from |-> n, to |-> n, origin |-> n, dst |-> d,
                    id |-> m_requestId[n] + 1, oseq |-> m_seqNo[n] + 1,
                    dseq |-> IF e.vsn THEN e.seq ELSE 0, known |-> e.vsn,
                    hop |-> 0, ttl |-> RingTtl(e)]
<1>1. c \in Broadcast(rreq)
  BY DEF SendRequest, Happens
<1>2. PICK x \in Nodes : c = [rreq EXCEPT !.to = x]
  BY <1>1 DEF Broadcast
<1> QED
  BY <1>2 DEF Started

LEMMA PassedOnCopy ==
    ASSUME Inv, NEW m \in Flying("RREQ"), ForwardRequest(m), NEW c \in air', c \notin air
    PROVE  PassedOn(c, m)
<1> DEFINE e == AfterRequest(m)[m.dst]
           seq == IF FreshEnough(e, m) THEN e.seq ELSE m.dseq
           known == m.known \/ FreshEnough(e, m)
           fwd == [m EXCEPT !.from = m.to, !.hop = m.hop + 1, !.ttl = m.ttl - 1,
                            !.dseq = seq, !.known = known]
<1>1. m \in Rreq
  BY Fields DEF Flying, Inv, GoodMessage
<1>2. c \in Broadcast(fwd) /\ ~(m.ttl < 2)
  BY DEF ForwardRequest, Accepted, Handled
<1> HIDE DEF seq, known
<1>3. PICK x \in Nodes : c = [fwd EXCEPT !.to = x]
  BY <1>2 DEF Broadcast
<1> QED
  BY <1>1, <1>2, <1>3 DEF PassedOn, Rreq

LEMMA NewRequests ==
    ASSUME Inv, [Next]_vars, NEW c \in air', c \notin air, c.type = "RREQ"
    PROVE  \/ \E n, d \in Nodes : SendRequest(n, d) /\ Started(c, n, d)
           \/ \E m \in Flying("RREQ") : ForwardRequest(m) /\ PassedOn(c, m)
<1>1. ASSUME NEW m \in Flying("RREQ")
      PROVE  /\ ~RecvDuplicate(m) /\ ~ForgeReply(m) /\ ~ReplyAsDestination(m) /\ ~DropLoop(m)
             /\ ~SendReplyByIntermediateNode(m)
  <2>1. \A n, o, e, d, seq, hop : Reply(n, o, e, d, seq, hop).type = "RREP"
    BY DEF Reply
  <2>2. \A n, o, e, d, seq, hop, b : [Reply(n, o, e, d, seq, hop) EXCEPT !.ack = b].type = "RREP"
    BY DEF Reply
  <2>3. ~RecvDuplicate(m) /\ ~DropLoop(m)
    BY DEF RecvDuplicate, DropLoop, Accepted, Handled
  <2>4. \A T, k : ~SendReply(m, T, k)
    BY <2>1 DEF SendReply, Accepted, Handled
  <2>5. ~SendReplyByIntermediateNode(m)
    <3> SUFFICES ASSUME SendReplyByIntermediateNode(m) PROVE FALSE
      OBVIOUS
    <3> DEFINE toDst == AfterRequest(m)[m.dst]
               toOrigin == AfterRequest(m)[m.origin]
               reply == [Reply(m.to, m.origin, toOrigin, m.dst, toDst.seq, toDst.hop)
                           EXCEPT !.ack = (toDst.hop = 1)]
               gratuitous == Reply(m.to, m.dst, toDst, m.origin, toOrigin.seq, toOrigin.hop)
    <3>1. reply.type = "RREP" /\ gratuitous.type = "RREP"
      BY <2>1, <2>2
    <3>2. c \in {reply} \cup IF GratuitousReply THEN {gratuitous} ELSE {}
      BY DEF SendReplyByIntermediateNode, Accepted, Handled
    <3> HIDE DEF reply, gratuitous
    <3> QED
      BY <3>1, <3>2
  <2> QED
    BY <2>3, <2>4, <2>5 DEF ForgeReply, ReplyAsDestination
<1>2. ASSUME NEW m \in Flying("RREP")
      PROVE  ~RecvReply(m) /\ ~DropReply(m) /\ ~ForwardReply(m) /\ ~ProcessHello(m)
  <2>1. m \in Rrep /\ m.type = "RREP"
    BY Fields DEF Flying, Inv, GoodMessage
  <2>2. \A c2 \in ReplyAck(m) : c2.type = "RREP_ACK"
    BY DEF ReplyAck
  <2>3. ~RecvReply(m) /\ ~DropReply(m) /\ ~ProcessHello(m)
    BY <2>2 DEF RecvReply, DropReply, ProcessHello, ReplyArrives, Handled
  <2>4. \A x : [m EXCEPT !.from = m.to, !.to = x, !.hop = m.hop + 1, !.ttl = m.ttl - 1,
                         !.ack = FALSE].type = "RREP"
    BY <2>1 DEF Rrep
  <2>5. ~ForwardReply(m)
    BY <2>2, <2>4 DEF ForwardReply, ReplyArrives, Handled
  <2> QED
    BY <2>3, <2>5
<1>3. \A m : ~RecvReplyAck(m)
  BY DEF RecvReplyAck, Handled
<1>4. \A m : ~RecvError(m)
  BY ErrorsOnly DEF RecvError, Handled
<1>5. ASSUME NEW n \in Nodes PROVE ~SendHello(n)
  <2> DEFINE hello == [type |-> "RREP", from |-> n, to |-> n, origin |-> n, dst |-> n,
                       seq |-> m_seqNo[n], hop |-> 0, ttl |-> 1, ack |-> FALSE]
  <2>1. \A c2 \in Broadcast(hello) : c2.type = "RREP"
    BY DEF Broadcast
  <2>2. SendHello(n) => c \in Broadcast(hello)
    BY DEF SendHello, Happens
  <2> QED
    BY <2>1, <2>2
<1>6. \A n, d : ~Expire(n, d)
  BY DEF Expire
<1>7. \A n, x : ~SendRerrWhenBreaksLinkToNextHop(n, x)
  BY ErrorsOnly DEF SendRerrWhenBreaksLinkToNextHop, Happens
<1>8. ASSUME NEW n \in Nodes, NEW d \in Nodes, NEW o \in Nodes
      PROVE  ~SendRerrWhenNoRouteToForward(n, d, o)
  <2> DEFINE rerr == [type |-> "RERR", from |-> n, to |-> n, dsts |-> {d}]
             copies == IF rt[n][o].flag = "VALID" THEN {[rerr EXCEPT !.to = rt[n][o].nextHop]}
                       ELSE Broadcast(rerr)
  <2>1. \A c2 \in copies : c2.type = "RERR"
    BY DEF Broadcast
  <2>2. SendRerrWhenNoRouteToForward(n, d, o) => c \in copies
    BY DEF SendRerrWhenNoRouteToForward, Happens
  <2> QED
    BY <2>1, <2>2
<1>9. ~UNCHANGED vars
  BY DEF vars
<1>10. Next
  BY <1>9
<1>11. CASE Deliver
  <2>1. PICK m \in Flying("RREQ") : ForwardRequest(m)
    BY <1>1, <1>2, <1>3, <1>4, <1>11 DEF Deliver
  <2> QED
    BY <2>1, PassedOnCopy
<1>12. CASE \E n, d \in Nodes : SendRequest(n, d)
  BY <1>12, StartedCopy
<1> QED
  BY <1>5, <1>6, <1>7, <1>8, <1>10, <1>11, <1>12 DEF Next

LEMMA RingIsBounded ==
    ASSUME TtlStart <= NetDiameter, TtlThreshold <= NetDiameter, NEW e \in Entry
    PROVE  RingTtl(e) <= NetDiameter
BY NetworkAssumption DEF RingTtl, Entry

LEMMA FloodStaysBounded ==
    ASSUME TtlStart <= NetDiameter, TtlThreshold <= NetDiameter,
           Inv, FloodIsBounded, [Next]_vars
    PROVE  FloodIsBounded'
<1>1. Inv'
  BY NextGood
<1>2. \A m \in air : BoundedCopy(m, m_rreqIdCache) /\ m \in Message
  BY DEF FloodIsBounded, BoundedCopy, Holders, Inv, GoodMessage
<1>3. m_rreqIdCache \in [Nodes -> SUBSET (Nodes \X Nat)]
  BY DEF Inv
<1>4. \A n \in Nodes : m_rreqIdCache[n] \subseteq m_rreqIdCache'[n]
  BY CacheGrows
<1> SUFFICES ASSUME NEW c \in air' PROVE BoundedCopy(c, m_rreqIdCache')
  BY DEF FloodIsBounded, BoundedCopy, Holders
<1>5. CASE c \in air
  BY <1>2, <1>4, <1>5, CopyStaysBounded
<1>6. CASE c \notin air /\ c.type # "RREQ"
  BY <1>6 DEF BoundedCopy
<1>7. ASSUME NEW n \in Nodes, NEW d \in Nodes, SendRequest(n, d), Started(c, n, d)
      PROVE  BoundedCopy(c, m_rreqIdCache')
  <2>1. <<n, c.id>> \in m_rreqIdCache'[n]
    BY <1>3, <1>7 DEF SendRequest, Started
  <2>2. n \in Holders(c, m_rreqIdCache') /\ Holders(c, m_rreqIdCache') \subseteq Nodes
    BY <1>7, <2>1 DEF Holders, Started
  <2>3. IsFiniteSet(Holders(c, m_rreqIdCache'))
    BY <2>2, NetworkAssumption, FS_Subset
  <2>4. Cardinality(Holders(c, m_rreqIdCache')) \in Nat \ {0}
    BY <2>2, <2>3, FS_CardinalityType, FS_EmptySet
  <2>5. rt[n][d] \in Entry
    BY DEF Inv
  <2>6. RingTtl(rt[n][d]) \in Nat /\ RingTtl(rt[n][d]) <= NetDiameter
    BY <2>5, RingIsNat, RingIsBounded
  <2> QED
    BY <1>7, <2>1, <2>4, <2>6 DEF BoundedCopy, Started
<1>8. ASSUME NEW m \in Flying("RREQ"), ForwardRequest(m), PassedOn(c, m)
      PROVE  BoundedCopy(c, m_rreqIdCache')
  <2> DEFINE H == Holders(m, m_rreqIdCache)
             G == Holders(c, m_rreqIdCache')
  <2>1. /\ m \in air /\ m.type = "RREQ" /\ m.to \in Nodes /\ m.hop \in Nat /\ m.ttl \in Nat
        /\ BoundedCopy(m, m_rreqIdCache)
    BY <1>2, Fields DEF Flying
  <2>2. /\ m_rreqIdCache' = [m_rreqIdCache EXCEPT ![m.to] = @ \cup {<<m.origin, m.id>>}]
        /\ <<m.origin, m.id>> \notin m_rreqIdCache[m.to]
    BY <1>8 DEF ForwardRequest, Accepted, IsDuplicate
  <2>3. m.to \notin H /\ H \cup {m.to} \subseteq G
    BY <1>3, <1>8, <2>1, <2>2 DEF Holders, PassedOn
  <2>4. IsFiniteSet(G) /\ IsFiniteSet(H) /\ IsFiniteSet(H \cup {m.to})
    BY <2>1, NetworkAssumption, FS_Subset DEF Holders
  <2>5. Cardinality(H \cup {m.to}) = Cardinality(H) + 1
    BY <2>3, <2>4, FS_AddElement
  <2>6. Cardinality(H) + 1 <= Cardinality(G)
    BY <2>3, <2>4, <2>5, FS_Subset
  <2>7. Cardinality(H) \in Nat /\ Cardinality(G) \in Nat
    BY <2>4, FS_CardinalityType
  <2>8. <<c.origin, c.id>> \in m_rreqIdCache'[c.from]
    BY <1>3, <1>8, <2>1, <2>2 DEF PassedOn
  <2>9. m.hop < Cardinality(H) /\ m.hop + m.ttl <= NetDiameter
    BY <2>1 DEF BoundedCopy
  <2>10. c.hop < Cardinality(G) /\ c.hop + c.ttl <= NetDiameter
    BY <1>8, <2>1, <2>6, <2>7, <2>9, NetworkAssumption DEF PassedOn
  <2> QED
    BY <2>8, <2>10 DEF BoundedCopy
<1> QED
  BY <1>5, <1>6, <1>7, <1>8, NewRequests

(* RecvRequest: with rings within the diameter of the network, floods die  *)
(* out in every topology.                                                  *)
THEOREM FloodsDieOut ==
    ASSUME TtlStart <= NetDiameter, TtlThreshold <= NetDiameter
    PROVE  Spec => []FloodIsBounded
<1>1. Init => FloodIsBounded
  BY DEF Init, FloodIsBounded
<1>2. Inv /\ FloodIsBounded /\ [Next]_vars => FloodIsBounded'
  BY FloodStaysBounded
<1> QED
  BY <1>1, <1>2, InvHolds, PTL DEF Spec

----------------------------------------------------------------------------
(* Neighbours.  An entry that is known has a hop count, and one of one     *)
(* only towards the destination itself or an attacker.  The exception is a *)
(* first search, whose ring stands in the hop count: it has no valid       *)
(* sequence number, without which nobody takes it for a neighbour's.  A    *)
(* message that has made no hop comes from whom it is about, or from an    *)
(* attacker.                                                               *)

Direct(e, d) ==
    /\ IF e.flag = "NONE" THEN ~e.vsn ELSE e.hop # 0
    /\ e.hop = 1 /\ (e.flag # "IN_SEARCH" \/ e.vsn) => e.nextHop \in Attackers \cup {d}

DirectTable(T) ==
    /\ T \in [Nodes -> Entry]
    /\ \A d \in Nodes : Direct(T[d], d)

DirectCopy(m) ==
    /\ m.type = "RREQ" /\ m.hop = 0 => m.from = m.origin
    /\ m.type = "RREP" /\ m.hop = 0 => m.from \in Attackers \cup {m.dst}

HopInv ==
    /\ \A n \in Nodes \ Attackers : DirectTable(rt[n])
    /\ \A m \in air : DirectCopy(m)

LEMMA PutDirect ==
    ASSUME NEW T, DirectTable(T), NEW d \in Nodes, NEW e \in Entry, Direct(e, d)
    PROVE  DirectTable([T EXCEPT ![d] = e])
BY DEF DirectTable

LEMMA FreshDirect ==
    ASSUME NEW d \in Nodes, NEW seq \in Nat, NEW vsn \in BOOLEAN, NEW hop \in Nat,
           NEW x \in Nodes, hop # 0, hop = 1 => x \in Attackers \cup {d}
    PROVE  Route(seq, vsn, hop, x) \in Entry /\ Direct(Route(seq, vsn, hop, x), d)
BY DEF Route, Direct, Entry, Flags

LEMMA NoRouteDirect == NoRoute \in Entry /\ \A d : Direct(NoRoute, d)
<1>1. NoRoute \in Entry /\ NoRoute.flag = "NONE" /\ NoRoute.hop = 0 /\ NoRoute.vsn = FALSE
  BY DEF NoRoute, Route, Entry, Flags
<1> QED
  BY <1>1 DEF Direct

LEMMA NeighborDirect ==
    ASSUME NEW T, DirectTable(T), NEW x \in Nodes
    PROVE  DirectTable(UpdateRouteToNeighbor(T, x))
<1>1. Route(0, FALSE, 1, x) \in Entry /\ Direct(Route(0, FALSE, 1, x), x)
  BY DEF Route, Direct, Entry, Flags
<1> QED
  BY <1>1, PutDirect DEF UpdateRouteToNeighbor

LEMMA PrecursorDirect ==
    ASSUME NEW T, DirectTable(T), NEW d, NEW p \in Nodes
    PROVE  DirectTable(WithPrecursor(T, d, p))
<1> SUFFICES ASSUME Known(T, d)
             PROVE  DirectTable([T EXCEPT ![d].precursors = @ \cup {p}])
  BY DEF WithPrecursor
<1>1. d \in Nodes /\ T[d] \in Entry /\ Direct(T[d], d)
  BY DEF Known, DirectTable
<1> DEFINE f == [T[d] EXCEPT !.precursors = @ \cup {p}]
<1>2. /\ f \in Entry /\ f.flag = T[d].flag /\ f.hop = T[d].hop /\ f.nextHop = T[d].nextHop
      /\ f.vsn = T[d].vsn
  BY <1>1 DEF Entry
<1>3. Direct(f, d)
  BY <1>1, <1>2 DEF Direct
<1> QED
  BY <1>1, <1>2, <1>3, PutDirect

LEMMA InvalidatedDirect ==
    ASSUME NEW T, DirectTable(T), NEW D
    PROVE  DirectTable(InvalidateRoutesWithDst(T, D))
<1> DEFINE U == InvalidateRoutesWithDst(T, D)
<1>1. ASSUME NEW d \in Nodes PROVE U[d] \in Entry /\ Direct(U[d], d)
  <2>1. T[d] \in Entry /\ Direct(T[d], d)
    BY DEF DirectTable
  <2> DEFINE f == [T[d] EXCEPT !.flag = "INVALID"]
  <2>2. f \in Entry /\ f.flag = "INVALID" /\ f.hop = T[d].hop /\ f.nextHop = T[d].nextHop
    BY <2>1 DEF Entry, Flags
  <2>3. T[d].flag = "VALID" => Direct(f, d)
    BY <2>1, <2>2 DEF Direct
  <2>4. U[d] = IF d \in D /\ T[d].flag = "VALID" THEN f ELSE T[d]
    BY DEF InvalidateRoutesWithDst
  <2> HIDE DEF f
  <2> QED
    BY <2>1, <2>2, <2>3, <2>4
<1>2. U = [d \in Nodes |-> U[d]]
  BY DEF InvalidateRoutesWithDst
<1>3. U \in [Nodes -> Entry]
  BY <1>1, <1>2
<1> QED
  BY <1>1, <1>3 DEF DirectTable

LEMMA ReverseRouteDirect ==
    ASSUME NEW T, DirectTable(T), NEW m \in Message, m.type = "RREQ", DirectCopy(m)
    PROVE  DirectTable(ReverseRoute(T, m)) /\ ReverseRoute(T, m)[m.origin].hop # 0
<1> DEFINE o == m.origin
           e == T[o]
           newer == IF ~e.vsn \/ m.oseq > e.seq THEN m.oseq ELSE e.seq
           f == [e EXCEPT !.seq = newer, !.vsn = TRUE, !.nextHop = m.from, !.hop = m.hop + 1]
           route == Route(m.oseq, TRUE, m.hop + 1, m.from)
<1>1. /\ o \in Nodes /\ m.from \in Nodes /\ m.oseq \in Nat /\ m.hop \in Nat
  BY Fields
<1>2. e \in Entry /\ T \in [Nodes -> Entry] /\ newer \in Nat
  BY <1>1 DEF DirectTable, Entry
<1>3. m.hop + 1 = 1 => m.from = o
  BY <1>1 DEF DirectCopy
<1>4. m.hop + 1 \in Nat \ {0}
  BY <1>1
<1>5. f \in Entry /\ f.flag = e.flag /\ f.hop = m.hop + 1 /\ f.nextHop = m.from
  BY <1>1, <1>2, <1>4 DEF Entry
<1>6. Known(T, o) => Direct(f, o)
  BY <1>3, <1>4, <1>5 DEF Direct, Known
<1>7. route \in Entry /\ Direct(route, o) /\ route.hop = m.hop + 1
  BY <1>1, <1>3, <1>4, FreshDirect DEF Route
<1>8. ReverseRoute(T, m) = [T EXCEPT ![o] = IF ~Known(T, o) THEN route ELSE f]
  BY DEF ReverseRoute
<1>9. o \in Nodes
  BY <1>1
<1> HIDE DEF f, route, o
<1>10. DirectTable(ReverseRoute(T, m))
  <2>1. /\ Known(T, o) => DirectTable([T EXCEPT ![o] = f])
        /\ DirectTable([T EXCEPT ![o] = route])
    BY <1>5, <1>6, <1>7, <1>9, PutDirect
  <2> QED
    BY <1>8, <2>1
<1>11. ReverseRoute(T, m)[o].hop = m.hop + 1
  BY <1>2, <1>5, <1>7, <1>8, <1>9
<1> QED
  BY <1>4, <1>10, <1>11 DEF o

LEMMA PreviousHopDirect ==
    ASSUME NEW T, DirectTable(T), NEW m \in Message, m.type = "RREQ"
    PROVE  /\ DirectTable(PreviousHop(T, m))
           /\ \A d \in Nodes : T[d].hop # 0 => PreviousHop(T, m)[d].hop # 0
<1> DEFINE f == [T[m.from] EXCEPT !.flag = "VALID", !.vsn = FALSE, !.seq = m.oseq,
                                  !.hop = 1, !.nextHop = m.from]
<1>1. m.from \in Nodes /\ m.oseq \in Nat
  BY Fields
<1>2. T[m.from] \in Entry /\ T \in [Nodes -> Entry]
  BY <1>1 DEF DirectTable
<1>3. f \in Entry /\ f.flag = "VALID" /\ f.hop = 1 /\ f.nextHop = m.from
  BY <1>1, <1>2 DEF Entry, Flags
<1>4. Direct(f, m.from)
  BY <1>3 DEF Direct
<1>5. PreviousHop(T, m) = [T EXCEPT ![m.from] = f]
  BY DEF PreviousHop
<1> HIDE DEF f
<1>6. DirectTable([T EXCEPT ![m.from] = f])
  BY <1>1, <1>3, <1>4, PutDirect
<1>7. \A d \in Nodes : [T EXCEPT ![m.from] = f][d] = IF d = m.from THEN f ELSE T[d]
  BY <1>1, <1>2
<1> QED
  BY <1>3, <1>5, <1>6, <1>7

LEMMA RequestDirect ==
    ASSUME NEW m \in Message, m.type = "RREQ", DirectTable(rt[m.to]), DirectCopy(m)
    PROVE  DirectTable(AfterRequest(m)) /\ AfterRequest(m)[m.origin].hop # 0
<1> DEFINE T == UpdateRouteToNeighbor(rt[m.to], m.from)
<1>1. DirectTable(T) /\ m.origin \in Nodes
  BY Fields, NeighborDirect
<1>2. DirectTable(ReverseRoute(T, m)) /\ ReverseRoute(T, m)[m.origin].hop # 0
  BY <1>1, ReverseRouteDirect
<1> QED
  BY <1>1, <1>2, PreviousHopDirect DEF AfterRequest

LEMMA LearnedRoute ==
    ASSUME NEW m \in Message, m.type = "RREP", DirectCopy(m)
    PROVE  /\ Route(m.seq, TRUE, m.hop + 1, m.from) \in Entry
           /\ Direct(Route(m.seq, TRUE, m.hop + 1, m.from), m.dst)
<1>1. m.from \in Nodes /\ m.dst \in Nodes /\ m.seq \in Nat /\ m.hop \in Nat
  BY Fields
<1>2. m.hop + 1 \in Nat /\ m.hop + 1 # 0 /\ (m.hop + 1 = 1 => m.hop = 0)
  BY <1>1
<1> QED
  BY <1>1, <1>2, FreshDirect DEF DirectCopy

LEMMA ReplyDirect ==
    ASSUME NEW m \in Message, m.type = "RREP", DirectTable(rt[m.to]), DirectCopy(m)
    PROVE  DirectTable(AfterReply(m))
<1>1. DirectTable(UpdateRouteToNeighbor(rt[m.to], m.from)) /\ m.dst \in Nodes
  BY Fields, NeighborDirect
<1> QED
  BY <1>1, LearnedRoute, PutDirect DEF AfterReply

LEMMA PrecursorsDirect ==
    ASSUME NEW T, DirectTable(T), NEW m \in Message, m.type = "RREP",
           T[m.origin].nextHop \in Nodes, T[m.dst].nextHop \in Nodes
    PROVE  DirectTable(WithPrecursors(T, m))
<1> DEFINE p == T[m.origin].nextHop
           q == T[m.dst].nextHop
           U == WithPrecursor(WithPrecursor(T, m.dst, p), q, p)
           e == T[m.origin]
           f == [e EXCEPT !.precursors = @ \cup {q}]
           V == [U EXCEPT ![m.origin] = f]
<1>1. m.origin \in Nodes
  BY Fields
<1>2. DirectTable(U)
  BY PrecursorDirect
<1>3. e \in Entry /\ Direct(e, m.origin)
  BY <1>1 DEF DirectTable
<1>4. /\ f \in Entry /\ f.flag = e.flag /\ f.hop = e.hop /\ f.nextHop = e.nextHop
      /\ f.vsn = e.vsn
  BY <1>3 DEF Entry
<1>5. Direct(f, m.origin)
  BY <1>3, <1>4 DEF Direct
<1>6. WithPrecursors(T, m) = WithPrecursor(V, p, q)
  BY DEF WithPrecursors
<1> HIDE DEF f, U
<1>7. DirectTable(V)
  BY <1>1, <1>2, <1>4, <1>5, PutDirect
<1> QED
  BY <1>6, <1>7, PrecursorDirect

----------------------------------------------------------------------------
(* What the two kinds of step do. *)

LEMMA HandledDirect ==
    ASSUME Inv, HopInv, NEW m \in air, m.to \in Nodes, NEW T, NEW S, Handled(m, T, S),
           m.to \notin Attackers => DirectTable(T), \A c \in S : DirectCopy(c)
    PROVE  HopInv'
<1>1. rt' = [rt EXCEPT ![m.to] = T] /\ air' = (air \ {m}) \cup S
  BY DEF Handled
<1>2. \A n \in Nodes : rt'[n] = IF n = m.to THEN T ELSE rt[n]
  BY <1>1 DEF Inv
<1> QED
  BY <1>1, <1>2 DEF HopInv

LEMMA HappensDirect ==
    ASSUME Inv, HopInv, NEW n \in Nodes, NEW T, NEW S, Happens(n, T, S),
           n \notin Attackers => DirectTable(T), \A c \in S : DirectCopy(c)
    PROVE  HopInv'
<1>1. rt' = [rt EXCEPT ![n] = T] /\ air' = air \cup S
  BY DEF Happens
<1>2. \A x \in Nodes : rt'[x] = IF x = n THEN T ELSE rt[x]
  BY <1>1 DEF Inv
<1> QED
  BY <1>1, <1>2 DEF HopInv

(* What a delivery finds. *)
LEMMA Found ==
    ASSUME Inv, HopInv, NEW type, NEW m \in Flying(type)
    PROVE  /\ m \in air /\ m.type = type /\ m.to \in Nodes /\ m \in Message
           /\ DirectCopy(m) /\ GoodTable(rt[m.to], m_seqNo)
           /\ m.to \notin Attackers => DirectTable(rt[m.to])
BY DEF Flying, Inv, HopInv, GoodMessage

LEMMA RequestKeepsDirect ==
    ASSUME Inv, HopInv, NEW m \in Flying("RREQ"),
           \/ RecvDuplicate(m) \/ ForgeReply(m) \/ ReplyAsDestination(m)
           \/ DropLoop(m) \/ SendReplyByIntermediateNode(m) \/ ForwardRequest(m)
    PROVE  HopInv'
<1>1. /\ m \in air /\ m.type = "RREQ" /\ m.to \in Nodes /\ m \in Message
      /\ DirectCopy(m) /\ (m.to \notin Attackers => DirectTable(rt[m.to]))
  BY Found
<1>2. m.origin \in Nodes /\ m.dst \in Nodes /\ m.from \in Nodes /\ m.hop \in Nat /\ m \in Rreq
  BY <1>1, Fields
<1>3. m.to \notin Attackers =>
        DirectTable(AfterRequest(m)) /\ AfterRequest(m)[m.origin].hop # 0
  BY <1>1, RequestDirect
<1>4. ASSUME NEW n, NEW o, NEW e, NEW d, NEW seq, NEW hop,
             hop = 0 => n \in Attackers \cup {d}
      PROVE  DirectCopy(Reply(n, o, e, d, seq, hop))
  BY <1>4 DEF DirectCopy, Reply
<1>5. CASE RecvDuplicate(m)
  BY <1>1, <1>2, <1>5, NeighborDirect, HandledDirect DEF RecvDuplicate
<1>6. ASSUME NEW T, NEW k, SendReply(m, T, k), m.to \notin Attackers => DirectTable(T),
             m.to \in Attackers \cup {m.dst}
      PROVE  HopInv'
  <2>1. DirectCopy(Reply(m.to, m.origin, T[m.origin], m.dst, ReplySeqNo(m, k), 0))
    BY <1>4, <1>6
  <2>2. Handled(m, T, {Reply(m.to, m.origin, T[m.origin], m.dst, ReplySeqNo(m, k), 0)})
    BY <1>6 DEF SendReply, Accepted
  <2> QED
    BY <1>1, <1>6, <2>1, <2>2, HandledDirect
<1>7. CASE ForgeReply(m)
  BY <1>6, <1>7 DEF ForgeReply
<1>8. CASE ReplyAsDestination(m)
  BY <1>3, <1>6, <1>8 DEF ReplyAsDestination
<1>9. CASE DropLoop(m)
  BY <1>1, <1>3, <1>9, HandledDirect DEF DropLoop, Accepted
<1>10. CASE SendReplyByIntermediateNode(m)
  <2> DEFINE T == AfterRequest(m)
             toDst == T[m.dst]
             toOrigin == T[m.origin]
             U == WithPrecursor(WithPrecursor(T, m.dst, toOrigin.nextHop), m.origin,
                                toDst.nextHop)
             plain == Reply(m.to, m.origin, toOrigin, m.dst, toDst.seq, toDst.hop)
             reply == [plain EXCEPT !.ack = (toDst.hop = 1)]
             gratuitous == Reply(m.to, m.dst, toDst, m.origin, toOrigin.seq, toOrigin.hop)
             S == {reply} \cup IF GratuitousReply THEN {gratuitous} ELSE {}
  <2>1. m.to \notin Attackers /\ toDst.flag = "VALID" /\ toDst.vsn
    BY <1>10 DEF SendReplyByIntermediateNode, Relays, CanAnswer, FreshEnough
  <2>2. DirectTable(T) /\ toOrigin.hop # 0
    BY <1>3, <2>1
  <2>3. toDst.hop # 0
    BY <1>2, <2>1, <2>2 DEF DirectTable, Direct
  <2>4. GoodTable(T, m_seqNo) /\ toOrigin.nextHop = m.from
    BY <1>1, RequestTable
  <2>5. toOrigin.nextHop \in Nodes /\ toDst.nextHop \in Nodes
    BY <1>2, <2>1, <2>4 DEF GoodTable, GoodEntry
  <2>6. DirectTable(U)
    BY <2>2, <2>5, PrecursorDirect
  <2>7. DirectCopy(gratuitous)
    BY <1>4, <2>2
  <2>8. reply.type = "RREP" /\ reply.hop # 0
    BY <2>3 DEF Reply
  <2>9. DirectCopy(reply)
    BY <2>8 DEF DirectCopy
  <2>10. Handled(m, U, S)
    BY <1>10 DEF SendReplyByIntermediateNode, Accepted
  <2> HIDE DEF U, reply, gratuitous
  <2>11. \A c \in S : DirectCopy(c)
    BY <2>7, <2>9
  <2> HIDE DEF S
  <2> QED
    BY <1>1, <2>6, <2>10, <2>11, HandledDirect
<1>11. CASE ForwardRequest(m)
  <2> DEFINE e == AfterRequest(m)[m.dst]
             seq == IF FreshEnough(e, m) THEN e.seq ELSE m.dseq
             known == m.known \/ FreshEnough(e, m)
             fwd == [m EXCEPT !.from = m.to, !.hop = m.hop + 1, !.ttl = m.ttl - 1,
                              !.dseq = seq, !.known = known]
             S == IF m.ttl < 2 THEN {} ELSE Broadcast(fwd)
  <2>1. Handled(m, AfterRequest(m), S) /\ m.to \notin Attackers
    BY <1>11 DEF ForwardRequest, Accepted, Relays
  <2> HIDE DEF seq, known
  <2>2. ASSUME NEW x PROVE DirectCopy([fwd EXCEPT !.to = x])
    <3>1. [fwd EXCEPT !.to = x].type = "RREQ" /\ [fwd EXCEPT !.to = x].hop = m.hop + 1
      BY <1>1, <1>2 DEF Rreq
    <3>2. m.hop + 1 # 0
      BY <1>2
    <3> HIDE DEF fwd
    <3> QED
      BY <3>1, <3>2 DEF DirectCopy
  <2> HIDE DEF fwd
  <2>3. \A c \in S : DirectCopy(c)
    BY <2>2 DEF Broadcast
  <2> HIDE DEF S
  <2> QED
    BY <1>1, <1>3, <2>1, <2>3, HandledDirect
<1> QED
  BY <1>5, <1>7, <1>8, <1>9, <1>10, <1>11

LEMMA ReplyKeepsDirect ==
    ASSUME Inv, HopInv, NEW m \in Flying("RREP"),
           RecvReply(m) \/ DropReply(m) \/ ForwardReply(m) \/ ProcessHello(m)
    PROVE  HopInv'
<1>1. /\ m \in air /\ m.type = "RREP" /\ m.to \in Nodes /\ m \in Message
      /\ DirectCopy(m) /\ (m.to \notin Attackers => DirectTable(rt[m.to]))
  BY Found
<1>2. /\ m.origin \in Nodes /\ m.dst \in Nodes /\ m.from \in Nodes /\ m.hop \in Nat
      /\ m.seq \in Nat /\ m \in Rrep
  BY <1>1, Fields
<1>3. m.to \notin Attackers => DirectTable(AfterReply(m))
  BY <1>1, ReplyDirect
<1>4. GoodTable(AfterReply(m), m_seqNo)
  BY <1>1, ReplyTable
<1>5. ASSUME NEW T, NEW S, ReplyArrives(m, T, S), m.to \notin Attackers => DirectTable(T),
             \A c \in S : DirectCopy(c)
      PROVE  HopInv'
  <2>1. \A c \in ReplyAck(m) : DirectCopy(c)
    BY DEF ReplyAck, DirectCopy
  <2>2. Handled(m, T, ReplyAck(m) \cup S)
    BY <1>5 DEF ReplyArrives
  <2>3. \A c \in ReplyAck(m) \cup S : DirectCopy(c)
    BY <1>5, <2>1
  <2> QED
    BY <1>1, <1>5, <2>2, <2>3, HandledDirect
<1>6. CASE RecvReply(m)
  <2> DEFINE route == Route(m.seq, TRUE, m.hop + 1, m.from)
             T == IF UpdateRouteToNeighbor(rt[m.to], m.from)[m.dst].flag = "IN_SEARCH"
                  THEN [AfterReply(m) EXCEPT ![m.dst] = route] ELSE AfterReply(m)
  <2>1. route \in Entry /\ Direct(route, m.dst)
    BY <1>1, LearnedRoute
  <2>2. ReplyArrives(m, T, {})
    BY <1>6 DEF RecvReply
  <2> HIDE DEF route
  <2>3. m.to \notin Attackers => DirectTable(T)
    BY <1>2, <1>3, <2>1, PutDirect
  <2> HIDE DEF T
  <2> QED
    BY <1>5, <2>2, <2>3
<1>7. CASE DropReply(m)
  BY <1>3, <1>5, <1>7 DEF DropReply
<1>8. CASE ForwardReply(m)
  <2> DEFINE T == AfterReply(m)
             U == IF T[m.dst].flag = "VALID" THEN WithPrecursors(T, m) ELSE T
             fwd == [m EXCEPT !.from = m.to, !.to = T[m.origin].nextHop, !.hop = m.hop + 1,
                              !.ttl = m.ttl - 1, !.ack = FALSE]
             S == IF m.ttl < 2 THEN {} ELSE {fwd}
  <2>1. ReplyArrives(m, U, S) /\ WayBack(T[m.origin])
    BY <1>8 DEF ForwardReply
  <2>2. T[m.origin].nextHop \in Nodes
    BY <1>2, <1>4, <2>1 DEF GoodTable, GoodEntry, WayBack, Entry, Flags
  <2>3. T[m.dst].flag = "VALID" => T[m.dst].nextHop \in Nodes
    BY <1>2, <1>4 DEF GoodTable, GoodEntry
  <2>4. m.to \notin Attackers => DirectTable(U)
    BY <1>1, <1>3, <2>2, <2>3, PrecursorsDirect
  <2>5. fwd.type = "RREP" /\ fwd.hop = m.hop + 1 /\ m.hop + 1 # 0
    BY <1>1, <1>2 DEF Rrep
  <2> HIDE DEF fwd
  <2>6. \A c \in S : DirectCopy(c)
    BY <2>5 DEF DirectCopy
  <2> HIDE DEF U, S
  <2> QED
    BY <1>5, <2>1, <2>4, <2>6
<1>9. CASE ProcessHello(m)
  <2> DEFINE T == UpdateRouteToNeighbor(rt[m.to], m.from)
             f == [Route(m.seq, TRUE, 1, m.dst) EXCEPT !.precursors = T[m.dst].precursors]
  <2>1. m.to \notin Attackers => DirectTable(T)
    BY <1>1, <1>2, NeighborDirect
  <2>2. ASSUME DirectTable(T) PROVE f \in Entry /\ Direct(f, m.dst)
    <3>1. T[m.dst].precursors \in SUBSET Nodes
      BY <1>2, <2>2 DEF DirectTable, Entry
    <3> HIDE DEF T
    <3>2. f \in Entry /\ f.flag = "VALID" /\ f.hop = 1 /\ f.nextHop = m.dst
      BY <1>2, <3>1 DEF Route, Entry, Flags
    <3> HIDE DEF f
    <3> QED
      BY <3>2 DEF Direct
  <2>3. Handled(m, [T EXCEPT ![m.dst] = f], {})
    BY <1>9 DEF ProcessHello
  <2> HIDE DEF f, T
  <2>4. m.to \notin Attackers => DirectTable([T EXCEPT ![m.dst] = f])
    BY <1>2, <2>1, <2>2, PutDirect
  <2> QED
    BY <1>1, <2>3, <2>4, HandledDirect
<1> QED
  BY <1>6, <1>7, <1>8, <1>9

(* An acknowledgement makes valid what its sender's entry already is. *)
LEMMA OtherKeepsDirect ==
    ASSUME Inv, HopInv
    PROVE  /\ \A m \in Flying("RREP_ACK") : RecvReplyAck(m) => HopInv'
           /\ \A m \in Flying("RERR") : RecvError(m) => HopInv'
<1>1. ASSUME NEW m \in Flying("RREP_ACK"), RecvReplyAck(m) PROVE HopInv'
  <2> DEFINE T == UpdateRouteToNeighbor(rt[m.to], m.from)
             f == [T[m.from] EXCEPT !.flag = "VALID"]
  <2>1. /\ m \in air /\ m.to \in Nodes /\ m.from \in Nodes
        /\ (m.to \notin Attackers => DirectTable(rt[m.to]))
    BY Found, Fields
  <2>2. ASSUME m.to \notin Attackers
        PROVE  /\ DirectTable(T)
               /\ T[m.from].hop = 1 /\ T[m.from].nextHop \in Attackers \cup {m.from}
    <3> DEFINE e == rt[m.to][m.from]
               neighbour == Known(rt[m.to], m.from) /\ e.vsn /\ e.hop = 1
    <3>1. Direct(e, m.from) /\ rt[m.to] \in [Nodes -> Entry]
      BY <2>1, <2>2 DEF DirectTable
    <3>2. CASE neighbour
      BY <2>1, <2>2, <3>1, <3>2, NeighborDirect DEF UpdateRouteToNeighbor, Direct
    <3>3. CASE ~neighbour
      BY <2>1, <2>2, <3>1, <3>3, NeighborDirect DEF UpdateRouteToNeighbor, Route
    <3> QED
      BY <3>2, <3>3
  <2>3. ASSUME DirectTable(T), T[m.from].hop = 1, T[m.from].nextHop \in Attackers \cup {m.from}
        PROVE  f \in Entry /\ Direct(f, m.from)
    <3>1. T[m.from] \in Entry
      BY <2>1, <2>3 DEF DirectTable
    <3>2. /\ f \in Entry /\ f.flag = "VALID" /\ f.hop = 1
          /\ f.nextHop \in Attackers \cup {m.from}
      BY <2>3, <3>1 DEF Entry, Flags
    <3> HIDE DEF f
    <3> QED
      BY <3>2 DEF Direct
  <2>4. Handled(m, [T EXCEPT ![m.from] = f], {})
    BY <1>1 DEF RecvReplyAck
  <2> HIDE DEF T, f
  <2>5. m.to \notin Attackers => DirectTable([T EXCEPT ![m.from] = f])
    BY <2>1, <2>2, <2>3, PutDirect
  <2> QED
    BY <2>1, <2>4, <2>5, HandledDirect
<1>2. ASSUME NEW m \in Flying("RERR"), RecvError(m) PROVE HopInv'
  <2> DEFINE T == UpdateRouteToNeighbor(rt[m.to], m.from)
             D == m.dsts \cap Via(T, m.from)
             S == IF D = {} THEN {} ELSE SendRerrMessage(m.to, T, PrecursorsOf(T, D), D)
  <2>1. /\ m \in air /\ m.to \in Nodes /\ m.from \in Nodes
        /\ (m.to \notin Attackers => DirectTable(rt[m.to]))
    BY Found, Fields
  <2>2. m.to \notin Attackers => DirectTable(InvalidateRoutesWithDst(T, D))
    BY <2>1, NeighborDirect, InvalidatedDirect
  <2>3. \A c \in S : DirectCopy(c)
    BY ErrorsOnly DEF DirectCopy
  <2>4. Handled(m, InvalidateRoutesWithDst(T, D), S)
    BY <1>2 DEF RecvError
  <2> HIDE DEF T, D, S
  <2> QED
    BY <2>1, <2>2, <2>3, <2>4, HandledDirect
<1> QED
  BY <1>1, <1>2

(* Only the ring of a first search may be one. *)
LEMMA RingIsNoNeighbour ==
    ASSUME NetDiameter > 1, NEW e \in Entry, e.flag # "NONE" => e.hop # 0
    PROVE  RingTtl(e) \in Nat \ {0} /\ (e.flag # "NONE" => RingTtl(e) > 1)
BY NetworkAssumption DEF RingTtl, Entry, Flags

LEMMA EventKeepsDirect ==
    ASSUME NetDiameter > 1, Inv, HopInv
    PROVE  /\ \A n \in Nodes : SendHello(n) => HopInv'
           /\ \A n, d \in Nodes : SendRequest(n, d) => HopInv'
           /\ \A n, d \in Nodes : Expire(n, d) => HopInv'
           /\ \A n, x \in Nodes : SendRerrWhenBreaksLinkToNextHop(n, x) => HopInv'
           /\ \A n, d, o \in Nodes : SendRerrWhenNoRouteToForward(n, d, o) => HopInv'
<1>1. ASSUME NEW n \in Nodes PROVE n \notin Attackers => DirectTable(rt[n])
  BY DEF HopInv
<1>2. ASSUME NEW n \in Nodes, SendHello(n) PROVE HopInv'
  <2> DEFINE hello == [type |-> "RREP", from |-> n, to |-> n, origin |-> n, dst |-> n,
                       seq |-> m_seqNo[n], hop |-> 0, ttl |-> 1, ack |-> FALSE]
  <2>1. \A c \in Broadcast(hello) : c.type = "RREP" /\ c.from = n /\ c.dst = n
    BY DEF Broadcast
  <2>2. Happens(n, rt[n], Broadcast(hello))
    BY <1>2 DEF SendHello
  <2> HIDE DEF hello
  <2>3. \A c \in Broadcast(hello) : DirectCopy(c)
    BY <2>1 DEF DirectCopy
  <2> QED
    BY <1>1, <2>2, <2>3, HappensDirect
<1>3. ASSUME NEW n \in Nodes, NEW d \in Nodes, SendRequest(n, d) PROVE HopInv'
  <2> DEFINE e == rt[n][d]
             f == [e EXCEPT !.flag = "IN_SEARCH", !.hop = RingTtl(e)]
             rreq == [type |-> "RREQ", from |-> n, to |-> n, origin |-> n, dst |-> d,
                      id |-> m_requestId[n] + 1, oseq |-> m_seqNo[n] + 1,
                      dseq |-> IF e.vsn THEN e.seq ELSE 0, known |-> e.vsn,
                      hop |-> 0, ttl |-> RingTtl(e)]
  <2>1. \A c \in Broadcast(rreq) : c.type = "RREQ" /\ c.from = n /\ c.origin = n
    BY DEF Broadcast
  <2>2. e \in Entry /\ rt[n] \in [Nodes -> Entry]
    BY DEF Inv
  <2>3. [rt[n] EXCEPT ![d].flag = "IN_SEARCH", ![d].hop = RingTtl(e)] = [rt[n] EXCEPT ![d] = f]
    BY <2>2
  <2>4. Happens(n, [rt[n] EXCEPT ![d] = f], Broadcast(rreq))
    BY <1>3, <2>3 DEF SendRequest
  <2> HIDE DEF rreq
  <2>5. \A c \in Broadcast(rreq) : DirectCopy(c)
    BY <2>1 DEF DirectCopy
  <2>6. ASSUME n \notin Attackers PROVE DirectTable([rt[n] EXCEPT ![d] = f])
    <3>1. DirectTable(rt[n]) /\ Direct(e, d)
      BY <1>1, <2>6 DEF DirectTable
    <3>2. RingTtl(e) \in Nat \ {0} /\ (e.vsn => RingTtl(e) > 1)
      BY <2>2, <3>1, RingIsNoNeighbour DEF Direct
    <3>3. f \in Entry /\ f.flag = "IN_SEARCH" /\ f.vsn = e.vsn /\ f.hop = RingTtl(e)
      BY <2>2, <3>2 DEF Entry, Flags
    <3>4. Direct(f, d)
      BY <3>2, <3>3 DEF Direct
    <3> HIDE DEF f
    <3> QED
      BY <3>1, <3>3, <3>4, PutDirect
  <2> HIDE DEF e, f
  <2> QED
    BY <2>4, <2>5, <2>6, HappensDirect
<1>4. ASSUME NEW n \in Nodes, NEW d \in Nodes, Expire(n, d) PROVE HopInv'
  <2> DEFINE e == rt[n][d]
             f == IF e.flag = "VALID" THEN [e EXCEPT !.flag = "INVALID"] ELSE NoRoute
  <2>1. e \in Entry /\ rt \in [Nodes -> [Nodes -> Entry]]
    BY DEF Inv
  <2>2. NoRoute \in Entry /\ Direct(NoRoute, d)
    BY NoRouteDirect
  <2>3. [e EXCEPT !.flag = "INVALID"] \in Entry
    BY <2>1 DEF Entry, Flags
  <2>4. e.flag = "VALID" /\ Direct(e, d) => Direct([e EXCEPT !.flag = "INVALID"], d)
    BY <2>1 DEF Direct, Entry
  <2>5. rt' = [rt EXCEPT ![n] = [rt[n] EXCEPT ![d] = f]] /\ air' = air
    BY <2>1, <1>4 DEF Expire
  <2>6. f \in Entry /\ (Direct(e, d) => Direct(f, d))
    BY <2>2, <2>3, <2>4
  <2> HIDE DEF f
  <2>7. n \notin Attackers => DirectTable([rt[n] EXCEPT ![d] = f])
    BY <1>1, <2>6, PutDirect DEF DirectTable
  <2>8. \A x \in Nodes : rt'[x] = IF x = n THEN [rt[n] EXCEPT ![d] = f] ELSE rt[x]
    BY <2>1, <2>5
  <2> QED
    BY <2>5, <2>7, <2>8 DEF HopInv
<1>5. ASSUME NEW n \in Nodes, NEW x \in Nodes, SendRerrWhenBreaksLinkToNextHop(n, x)
      PROVE  HopInv'
  <2> DEFINE D == Via(rt[n], x) \cup {x}
             S == SendRerrMessage(n, rt[n], PrecursorsOf(rt[n], D), D)
  <2>1. \A c \in S : DirectCopy(c)
    BY ErrorsOnly DEF DirectCopy
  <2>2. Happens(n, InvalidateRoutesWithDst(rt[n], D), S)
    BY <1>5 DEF SendRerrWhenBreaksLinkToNextHop
  <2> HIDE DEF D, S
  <2>3. n \notin Attackers => DirectTable(InvalidateRoutesWithDst(rt[n], D))
    BY <1>1, InvalidatedDirect
  <2> QED
    BY <2>1, <2>2, <2>3, HappensDirect
<1>6. ASSUME NEW n \in Nodes, NEW d \in Nodes, NEW o \in Nodes,
             SendRerrWhenNoRouteToForward(n, d, o)
      PROVE  HopInv'
  <2> DEFINE rerr == [type |-> "RERR", from |-> n, to |-> n, dsts |-> {d}]
             S == IF rt[n][o].flag = "VALID" THEN {[rerr EXCEPT !.to = rt[n][o].nextHop]}
                  ELSE Broadcast(rerr)
  <2>1. \A c \in S : c.type = "RERR"
    BY DEF Broadcast
  <2>2. Happens(n, rt[n], S)
    BY <1>6 DEF SendRerrWhenNoRouteToForward
  <2> HIDE DEF S
  <2>3. \A c \in S : DirectCopy(c)
    BY <2>1 DEF DirectCopy
  <2> QED
    BY <1>1, <2>2, <2>3, HappensDirect
<1> QED
  BY <1>2, <1>3, <1>4, <1>5, <1>6

LEMMA NextDirect ==
    ASSUME NetDiameter > 1, Inv, HopInv, [Next]_vars
    PROVE  HopInv'
<1>1. CASE Deliver
  BY <1>1, RequestKeepsDirect, ReplyKeepsDirect, OtherKeepsDirect DEF Deliver
<1>2. CASE UNCHANGED vars
  BY <1>2 DEF HopInv, DirectTable, vars
<1> QED
  BY <1>1, <1>2, EventKeepsDirect DEF Next

(* UpdateRouteToNeighbor and SendReplyByIntermediateNode of an honest node *)
(* recognise a neighbour by its hop count, in every topology: the rings    *)
(* that SendRequest stores in the hop count of an entry are never taken    *)
(* for one, even though the first is one hop wide by default.              *)
THEOREM OneHopMeansNeighbour ==
    ASSUME NetDiameter > 1
    PROVE  Spec => []OneHopIsDirect
<1>1. Init => HopInv
  <2> SUFFICES ASSUME Init PROVE HopInv
    OBVIOUS
  <2>1. NoRoute \in Entry /\ \A d : Direct(NoRoute, d)
    BY NoRouteDirect
  <2>2. \A n \in Nodes : rt[n] = [d \in Nodes |-> NoRoute]
    BY DEF Init
  <2> QED
    BY <2>1, <2>2 DEF Init, HopInv, DirectTable
<1>2. Inv /\ HopInv /\ [Next]_vars => HopInv'
  BY NextDirect
<1>3. HopInv => OneHopIsDirect
  BY DEF HopInv, OneHopIsDirect, DirectTable, Direct
<1> QED
  BY <1>1, <1>2, <1>3, InvHolds, PTL DEF Spec

=============================================================================
