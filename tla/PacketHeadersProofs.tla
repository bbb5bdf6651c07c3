------------------------ MODULE PacketHeadersProofs ------------------------
(***************************************************************************)
(* Proofs about PacketHeaders, for every set of hosts, numbers, hop counts *)
(* and lifetimes, every size of byte and word, and any number of relays.   *)
(*                                                                         *)
(* What a receiver takes for a message is what its sender meant as long as *)
(* the cells on their way are some header, serialised, that agrees with    *)
(* the message as far as relays must not change it (Travels).  Each header *)
(* is read back as it was written; of an error, whose destinations come in *)
(* no particular order, as many of them as the byte that counts them says. *)
(***************************************************************************)
EXTENDS PacketHeaders, FiniteSetTheorems, SequenceTheorems, TLAPS

Bits == 0..7

RreqHeaders ==
    [flags : SUBSET Bits, reserved : {0}, hopCount : Nat, requestID : Ids, dst : Hosts,
     dstSeqNo : Nat, origin : Hosts, originSeqNo : SeqNos]

RrepHeaders ==
    [flags : SUBSET Bits, prefixSize : {0}, hopCount : Nat, dst : Hosts, dstSeqNo : SeqNos,
     origin : Hosts, lifeTime : Nat]

Requests ==
    [kind : {"request"}, id : Ids, dst : Hosts, known : BOOLEAN, dseq : Nat, origin : Hosts,
     oseq : SeqNos, gratuitous : BOOLEAN, only : BOOLEAN, hops : Nat]

Replies ==
    [kind : {"reply", "hello"}, dst : Hosts, seq : SeqNos, origin : Hosts, life : LifeTimes,
     ack : BOOLEAN, hops : Nat]

(* The header agrees with the request after n relays. *)
SameRequest(h, m, n) ==
    /\ h.requestID = m.id /\ h.dst = m.dst /\ h.origin = m.origin /\ h.originSeqNo = m.oseq
    /\ m.gratuitous <=> GratuitousRrep \in h.flags
    /\ m.only <=> DestinationOnly \in h.flags
    /\ h.hopCount = n
    /\ m.known => UnknownSeqno \notin h.flags /\ h.dstSeqNo >= m.dseq
    /\ UnknownSeqno \in h.flags => h.dstSeqNo = 0

RequestTravels(p, m, n) ==
    /\ m \in Requests
    /\ \E h \in RreqHeaders : /\ p = WithType(AODVTYPE_RREQ, SerializeRreq(h))
                              /\ SameRequest(h, m, n)

SameReply(h, m, n) ==
    /\ h.dst = m.dst /\ h.origin = m.origin /\ h.dstSeqNo = m.seq
    /\ h.hopCount = m.hops + n /\ m.hops + MaxRelays < ByteMod
    /\ AckRequired \in h.flags <=> m.ack /\ n = 0
    /\ h.lifeTime = m.life \div Ms
    /\ m.kind = "hello" <=> h.dst = h.origin

ReplyTravels(p, m, n) ==
    /\ m \in Replies
    /\ \E h \in RrepHeaders : /\ p = WithType(AODVTYPE_RREP, SerializeRrep(h))
                              /\ SameReply(h, m, n)

(* Destinations of an error. *)
Lists == UNION {[D -> SeqNos] : D \in SUBSET Hosts}

SameError(dests, m, n) ==
    /\ DOMAIN dests \subseteq DOMAIN m.dests
    /\ \A d \in DOMAIN dests : dests[d] = m.dests[d]
    /\ n = 0 => dests = m.dests

ErrorTravels(p, m, n) ==
    /\ m.kind = "error" /\ m.dests \in Lists
    /\ \E dests \in Lists : /\ p = WithType(AODVTYPE_RERR, SerializeRerr(dests))
                            /\ SameError(dests, m, n)

AckTravels(p) == p = WithType(AODVTYPE_RREP_ACK, RrepAck)

Travels ==
    packet # << >> => \/ RequestTravels(packet, meant, relays)
                      \/ ReplyTravels(packet, meant, relays)
                      \/ ErrorTravels(packet, meant, relays)
                      \/ AckTravels(packet)

AllArrive == RequestsArrive /\ RepliesArrive /\ ErrorsArrive

HInv == relays \in 0..MaxRelays /\ Travels /\ AllArrive

----------------------------------------------------------------------------
(* Reading back.                                                           *)

LEMMA TypeOff ==
    ASSUME NEW type, NEW S, NEW c \in Seq(S)
    PROVE  /\ WithType(type, c)[1] = type
           /\ WithType(type, c) # << >>
           /\ Tail(WithType(type, c)) = c
<1> DEFINE T == S \cup {type}
<1>1. c \in Seq(T) /\ <<type>> \in Seq(T)
  OBVIOUS
<1> HIDE DEF T
<1> QED
  BY <1>1 DEF WithType

LEMMA RequestReadBack ==
    ASSUME NEW h \in RreqHeaders
    PROVE  LET p == WithType(AODVTYPE_RREQ, SerializeRreq(h))
           IN  p # << >> /\ p[1] = AODVTYPE_RREQ /\ DeserializeRreq(Tail(p)) = h
<1> DEFINE c == SerializeRreq(h)
<1>1. c \in Seq({c[1], c[2], c[3], c[4], c[5], c[6], c[7], c[8]})
  BY DEF SerializeRreq
<1>2. DeserializeRreq(c) = h
  BY DEF SerializeRreq, DeserializeRreq, RreqHeaders
<1> HIDE DEF c
<1> QED
  BY <1>1, <1>2, TypeOff DEF c

LEMMA ReplyReadBack ==
    ASSUME NEW h \in RrepHeaders
    PROVE  LET p == WithType(AODVTYPE_RREP, SerializeRrep(h))
           IN  p # << >> /\ p[1] = AODVTYPE_RREP /\ DeserializeRrep(Tail(p)) = h
<1> DEFINE c == SerializeRrep(h)
<1>1. c \in Seq({c[1], c[2], c[3], c[4], c[5], c[6], c[7]})
  BY DEF SerializeRrep
<1>2. DeserializeRrep(c) = h
  BY DEF SerializeRrep, DeserializeRrep, RrepHeaders
<1> HIDE DEF c
<1> QED
  BY <1>1, <1>2, TypeOff DEF c

LEMMA AckReadBack ==
    LET p == WithType(AODVTYPE_RREP_ACK, RrepAck)
    IN  p # << >> /\ p[1] = AODVTYPE_RREP_ACK
<1>1. RrepAck \in Seq({0})
  BY DEF RrepAck
<1> QED
  BY <1>1, TypeOff

(* The keys of a finite function can be listed, each once. *)
LEMMA KeysExist ==
    ASSUME NEW D, IsFiniteSet(D)
    PROVE  \E k \in [1..Cardinality(D) -> D] : Range(k) = D
<1>1. ExistsBijection(1..Cardinality(D), D)
  BY FS_CardinalityType
<1>2. PICK k \in Bijection(1..Cardinality(D), D) : TRUE
  BY <1>1 DEF ExistsBijection
<1>3. k \in [1..Cardinality(D) -> D] /\ \A d \in D : \E i \in 1..Cardinality(D) : k[i] = d
  BY <1>2 DEF Bijection, Surjection
<1>4. Range(k) = D
  BY <1>3 DEF Range
<1> QED
  BY <1>3, <1>4

(* As many destinations of an error are read back as the byte counts, in   *)
(* whatever order they are written.                                        *)
LEMMA ErrorReadBack ==
    ASSUME NEW dests \in Lists
    PROVE  LET p == WithType(AODVTYPE_RERR, SerializeRerr(dests))
               r == DeserializeRerr(Tail(p))
           IN  /\ p # << >> /\ p[1] = AODVTYPE_RERR
               /\ DOMAIN r \subseteq DOMAIN dests /\ r = [d \in DOMAIN r |-> dests[d]]
               /\ Cardinality(DOMAIN r) = GetDestCount(dests)
               /\ Cardinality(DOMAIN dests) < ByteMod => r = dests
<1> DEFINE D == DOMAIN dests
           N == Cardinality(D)
           n == GetDestCount(dests)
           keys == CHOOSE k \in [1..N -> D] : Range(k) = D
           cell(i) == IF i % 2 = 1 THEN keys[(i + 1) \div 2] ELSE dests[keys[i \div 2]]
           body == [i \in 1..2 * n |-> cell(i)]
           front == <<{}, 0, n>>
           c == front \o body
           first == {keys[k] : k \in 1..n}
<1>1. D \subseteq Hosts /\ IsFiniteSet(D) /\ dests = [d \in D |-> dests[d]]
  BY HeadersAssumption, FS_Subset DEF Lists
<1>2. N \in Nat /\ n \in Nat /\ n <= N /\ (N < ByteMod => n = N)
  <2>1. N \in Nat
    BY <1>1, FS_CardinalityType
  <2>2. n = N % ByteMod
    BY DEF GetDestCount
  <2> HIDE DEF N, n
  <2> QED
    BY <2>1, <2>2, HeadersAssumption
<1>3. keys \in [1..N -> D] /\ Range(keys) = D
  BY <1>1, KeysExist
<1> HIDE DEF n, N, keys, D
<1>4. first \subseteq D /\ (N < ByteMod => first = D)
  <2>1. \A k \in 1..n : k \in 1..N
    BY <1>2
  <2>2. first \subseteq D
    BY <1>3, <2>1
  <2>3. n = N => first = D
    BY <1>3 DEF Range
  <2> QED
    BY <1>2, <2>2, <2>3
<1>5. Cardinality(first) = n
  <2>1. IsFiniteSet(1..N) /\ Cardinality(1..N) = N
    BY <1>2, FS_Interval
  <2>2. keys \in Surjection(1..N, D)
    BY <1>3 DEF Surjection, Range
  <2>3. keys \in Injection(1..N, D)
    BY <2>1, <2>2, FS_SurjSameCardinalityImpliesInj DEF N
  <2> DEFINE g == [k \in 1..n |-> keys[k]]
  <2>4. \A k \in 1..n : k \in 1..N
    BY <1>2
  <2>5. g \in [1..n -> first] /\ (\A d \in first : \E k \in 1..n : g[k] = d)
    OBVIOUS
  <2>6. \A k, j \in 1..n : g[k] = g[j] => k = j
    BY <2>3, <2>4 DEF Injection, IsInjective
  <2>7. g \in Bijection(1..n, first)
    <3> HIDE DEF g, first
    <3> QED
      BY <2>5, <2>6 DEF Bijection, Injection, Surjection, IsInjective
  <2>8. ExistsBijection(1..n, first)
    BY <2>7 DEF ExistsBijection
  <2>9. IsFiniteSet(1..n) /\ Cardinality(1..n) = n
    BY <1>2, FS_Interval
  <2> QED
    BY <2>8, <2>9, FS_Bijection
<1>6. \A k \in 1..n : /\ 2 * k - 1 \in 1..2 * n /\ body[2 * k - 1] = keys[k]
                      /\ 2 * k \in 1..2 * n /\ body[2 * k] = dests[keys[k]]
  <2> SUFFICES ASSUME NEW k \in 1..n
               PROVE  /\ 2 * k - 1 \in 1..2 * n /\ body[2 * k - 1] = keys[k]
                      /\ 2 * k \in 1..2 * n /\ body[2 * k] = dests[keys[k]]
    OBVIOUS
  <2>1. 2 * k - 1 \in 1..2 * n /\ 2 * k \in 1..2 * n
    BY <1>2
  <2>2. (2 * k - 1) % 2 = 1 /\ (2 * k - 1 + 1) \div 2 = k /\ (2 * k) % 2 # 1 /\ (2 * k) \div 2 = k
    BY <1>2
  <2>3. cell(2 * k - 1) = keys[k] /\ cell(2 * k) = dests[keys[k]]
    BY <2>2
  <2> HIDE DEF cell
  <2> QED
    BY <2>1, <2>3
<1> DEFINE S == Range(body) \cup {{}, 0, n}
<1>7. body \in Seq(S) /\ Len(body) = 2 * n /\ front = <<{}, 0, n>> /\ front \in Seq(S)
  <2>1. 2 * n \in Nat
    BY <1>2
  <2>2. DOMAIN body = 1..2 * n /\ \A i \in 1..2 * n : body[i] \in S
    BY DEF Range
  <2>3. body \in [1..2 * n -> S]
    BY <2>2
  <2>4. front = <<{}, 0, n>> /\ {{}, 0, n} \subseteq S
    OBVIOUS
  <2> HIDE DEF body, S
  <2>5. body \in Seq(S) /\ Len(body) = 2 * n
    BY <2>1, <2>3, IsASeq, LenProperties
  <2> HIDE DEF front
  <2>6. <<{}, 0, n>> \in Seq(S)
    BY <2>4
  <2> QED
    BY <2>4, <2>5, <2>6
<1> HIDE DEF body, S
<1>8. c \in Seq(S) /\ c[3] = n /\ \A i \in 1..2 * n : c[3 + i] = body[i]
  <2> DEFINE head == <<{}, 0, n>>
  <2>1. head \in Seq(S) /\ Len(head) = 3 /\ head[3] = n /\ c = head \o body
    BY <1>7
  <2> HIDE DEF head, c
  <2>2. c \in Seq(S) /\ c[3] = n
    <3>1. c \in Seq(S)
      BY <1>7, <2>1, ConcatProperties
    <3>2. 3 \in 1..(Len(head) + Len(body)) /\ 3 <= Len(head)
      BY <1>2, <1>7, <2>1
    <3>3. c[3] = head[3]
      BY <1>7, <2>1, <3>2, ConcatProperties
    <3> QED
      BY <2>1, <3>1, <3>3
  <2>3. ASSUME NEW i \in 1..2 * n PROVE c[3 + i] = body[i]
    <3>1. 3 + i \in 1..(Len(head) + Len(body)) /\ ~(3 + i <= Len(head))
      BY <1>2, <1>7, <2>1
    <3>2. c[3 + i] = body[(3 + i) - Len(head)]
      BY <1>7, <2>1, <3>1, ConcatProperties
    <3> QED
      BY <1>2, <2>1, <3>2
  <2> QED
    BY <2>2, <2>3
<1>9. SerializeRerr(dests) = c
  BY DEF SerializeRerr, c, front, body, n, N, keys, D
<1> HIDE DEF c
<1>10. \A k \in 1..n : c[2 + 2 * k] = keys[k] /\ c[3 + 2 * k] = dests[keys[k]]
  <2> SUFFICES ASSUME NEW k \in 1..n
               PROVE  c[2 + 2 * k] = keys[k] /\ c[3 + 2 * k] = dests[keys[k]]
    OBVIOUS
  <2>1. 3 + (2 * k - 1) = 2 + 2 * k
    BY <1>2
  <2> QED
    BY <1>6, <1>8, <2>1
<1>11. {c[2 + 2 * k] : k \in 1..n} = first
  BY <1>10
<1>12. ASSUME NEW d \in first
       PROVE  c[3 + 2 * (CHOOSE k \in 1..n : c[2 + 2 * k] = d)] = dests[d]
  <2>1. \E k \in 1..n : c[2 + 2 * k] = d
    BY <1>11
  <2> DEFINE q == CHOOSE k \in 1..n : c[2 + 2 * k] = d
  <2>2. q \in 1..n /\ c[2 + 2 * q] = d
    BY <2>1
  <2> HIDE DEF q
  <2>3. c[3 + 2 * q] = dests[d]
    BY <1>10, <2>2
  <2> QED
    BY <2>3 DEF q
<1> HIDE DEF first
<1>13. DeserializeRerr(c) = [d \in first |-> dests[d]]
  <2>1. DeserializeRerr(c)
          = [d \in first |-> c[3 + 2 * (CHOOSE k \in 1..n : c[2 + 2 * k] = d)]]
    BY <1>8, <1>11 DEF DeserializeRerr
  <2> QED
    BY <1>12, <2>1
<1>14. N < ByteMod => [d \in first |-> dests[d]] = dests
  BY <1>1, <1>4
<1>15. /\ WithType(AODVTYPE_RERR, c) # << >> /\ WithType(AODVTYPE_RERR, c)[1] = AODVTYPE_RERR
       /\ Tail(WithType(AODVTYPE_RERR, c)) = c
  BY <1>8, TypeOff
<1> QED
  BY <1>9, <1>13, <1>4, <1>5, <1>14, <1>15 DEF n, N, D

----------------------------------------------------------------------------
(* Sending.                                                                *)

LEMMA NothingArrives ==
    ASSUME got = Nothing
    PROVE  AllArrive
BY DEF AllArrive, RequestsArrive, RepliesArrive, ErrorsArrive, Nothing

LEMMA SendKeeps ==
    ASSUME NEW m, NEW p, Send(m, p),
           \/ RequestTravels(p, m, 0) \/ ReplyTravels(p, m, 0) \/ ErrorTravels(p, m, 0)
           \/ AckTravels(p)
    PROVE  HInv'
<1>1. packet' = p /\ meant' = m /\ relays' = 0 /\ got' = Nothing
  BY DEF Send
<1>2. Travels'
  BY <1>1 DEF Travels
<1>3. AllArrive'
  BY <1>1 DEF AllArrive, RequestsArrive, RepliesArrive, ErrorsArrive, Nothing
<1> QED
  BY <1>1, <1>2, <1>3, HeadersAssumption DEF HInv

LEMMA SendRequestKeeps ==
    ASSUME NEW o \in Hosts, NEW d \in Hosts, NEW seq \in SeqNos,
           \E s \in {{}, {seq}}, id \in Ids, oseq \in SeqNos, gratuitous, only \in BOOLEAN :
              SendRequest(o, d, s, id, oseq, gratuitous, only)
    PROVE  HInv'
<1>0. PICK s \in {{}, {seq}}, id \in Ids, oseq \in SeqNos, gratuitous \in BOOLEAN,
           only \in BOOLEAN :
         SendRequest(o, d, s, id, oseq, gratuitous, only)
  OBVIOUS
<1> DEFINE known == s # {}
           dseq == IF known THEN CHOOSE n \in s : TRUE ELSE 0
           flags == SetFlag(SetFlag(SetFlag({}, UnknownSeqno, ~known),
                                    GratuitousRrep, gratuitous), DestinationOnly, only)
           m == [kind |-> "request", id |-> id, dst |-> d, known |-> known, dseq |-> dseq,
                 origin |-> o, oseq |-> oseq, gratuitous |-> gratuitous, only |-> only,
                 hops |-> 0]
           h == [flags |-> flags, reserved |-> 0, hopCount |-> 0, requestID |-> id,
                 dst |-> d, dstSeqNo |-> dseq, origin |-> o, originSeqNo |-> oseq]
           p == WithType(AODVTYPE_RREQ, SerializeRreq(h))
<1>1. known \in BOOLEAN /\ dseq \in Nat /\ (~known => dseq = 0)
  BY HeadersAssumption
<1>2. /\ flags \subseteq Bits
      /\ gratuitous <=> GratuitousRrep \in flags
      /\ only <=> DestinationOnly \in flags
      /\ known <=> UnknownSeqno \notin flags
  BY DEF SetFlag, UnknownSeqno, GratuitousRrep, DestinationOnly, Bits
<1>3. Send(m, p)
  BY <1>0 DEF SendRequest
<1> HIDE DEF known, dseq, flags
<1>4. m \in Requests /\ h \in RreqHeaders
  BY <1>1, <1>2 DEF Requests, RreqHeaders
<1>5. SameRequest(h, m, 0)
  BY <1>1, <1>2 DEF SameRequest
<1> HIDE DEF h, m
<1>6. RequestTravels(p, m, 0)
  BY <1>4, <1>5 DEF RequestTravels
<1> HIDE DEF p
<1> QED
  BY <1>3, <1>6, SendKeeps

(* No lifetime overflows the word, and cutting it loses less than one unit.*)
LEMMA LifeTimeCut ==
    ASSUME NEW t \in LifeTimes
    PROVE  /\ MilliSeconds(t) = t \div Ms /\ t \div Ms \in Nat
           /\ (t \div Ms) * Ms \in (t - Ms + 1)..t
<1> DEFINE q == t \div Ms
           r == t % Ms
<1>1. t \in Nat /\ t < WordMod * Ms /\ Ms \in Nat \ {0} /\ WordMod \in Nat \ {0}
  BY HeadersAssumption
<1>2. q \in Nat /\ r \in 0..(Ms - 1) /\ t = Ms * q + r
  BY <1>1
<1> HIDE DEF q, r
<1>3. q * Ms = Ms * q /\ Ms * q \in Nat
  BY <1>1, <1>2
<1>4. q < WordMod
  <2> SUFFICES ASSUME q >= WordMod PROVE FALSE
    BY <1>1, <1>2
  <2>1. PICK x \in Nat : q = WordMod + x
    <3>1. q - WordMod \in Nat /\ q = WordMod + (q - WordMod)
      BY <1>1, <1>2
    <3> QED
      BY <3>1
  <2>2. Ms * q = WordMod * Ms + Ms * x /\ Ms * x \in Nat /\ WordMod * Ms \in Nat
    BY <1>1, <2>1
  <2> QED
    BY <1>1, <1>2, <2>2
<1>5. q % WordMod = q
  BY <1>1, <1>2, <1>4
<1>6. q * Ms \in (t - Ms + 1)..t
  BY <1>1, <1>2, <1>3
<1> QED
  BY <1>2, <1>5, <1>6 DEF q, MilliSeconds

LEMMA ReplyKeeps ==
    ASSUME NEW kind \in {"reply", "hello"}, NEW o \in Hosts, NEW d \in Hosts,
           NEW seq \in SeqNos, NEW hop \in Nat, hop + MaxRelays < ByteMod,
           NEW life \in LifeTimes, NEW ack \in BOOLEAN, kind = "hello" <=> d = o,
           Reply(kind, o, d, seq, hop, life, ack)
    PROVE  HInv'
<1> DEFINE m == [kind |-> kind, dst |-> d, seq |-> seq, origin |-> o, life |-> life,
                 ack |-> ack, hops |-> hop]
           flags == SetFlag({}, AckRequired, ack)
           h == [flags |-> flags, prefixSize |-> 0, hopCount |-> hop, dst |-> d,
                 dstSeqNo |-> seq, origin |-> o, lifeTime |-> MilliSeconds(life)]
           p == WithType(AODVTYPE_RREP, SerializeRrep(h))
<1>1. Send(m, p)
  BY DEF Reply
<1>2. flags \subseteq Bits /\ (AckRequired \in flags <=> ack)
  BY DEF SetFlag, AckRequired, Bits
<1>3. MilliSeconds(life) = life \div Ms /\ life \div Ms \in Nat
  BY LifeTimeCut
<1> HIDE DEF flags
<1>4. m \in Replies /\ h \in RrepHeaders
  BY <1>2, <1>3 DEF Replies, RrepHeaders
<1>5. SameReply(h, m, 0)
  BY <1>2, <1>3 DEF SameReply
<1> HIDE DEF h, m
<1>6. ReplyTravels(p, m, 0)
  BY <1>4, <1>5 DEF ReplyTravels
<1> HIDE DEF p
<1> QED
  BY <1>1, <1>6, SendKeeps

LEMMA SendErrorKeeps ==
    ASSUME HInv, NEW D \in SUBSET Hosts, NEW dests \in [D -> SeqNos], SendRerr(dests)
    PROVE  HInv'
<1> DEFINE m == [kind |-> "error", dests |-> dests]
           p == WithType(AODVTYPE_RERR, SerializeRerr(dests))
<1>1. CASE Send(m, p)
  <2>1. dests \in Lists
    BY DEF Lists
  <2>2. m.kind = "error" /\ m.dests \in Lists /\ SameError(dests, m, 0)
    BY <2>1 DEF SameError
  <2> HIDE DEF m
  <2>3. ErrorTravels(p, m, 0)
    BY <2>1, <2>2 DEF ErrorTravels
  <2> HIDE DEF p
  <2> QED
    BY <1>1, <2>3, SendKeeps
<1>2. CASE UNCHANGED <<meant, packet, relays, got>>
  BY <1>2 DEF HInv, Travels, AllArrive, RequestsArrive, RepliesArrive, ErrorsArrive
<1> QED
  BY <1>1, <1>2 DEF SendRerr

----------------------------------------------------------------------------
(* Receiving.                                                              *)

(* The first cell tells the messages apart. *)
LEMMA TypesDiffer ==
    /\ \A m, n : RequestTravels(packet, m, n) => packet[1] = AODVTYPE_RREQ
    /\ \A m, n : ReplyTravels(packet, m, n) => packet[1] = AODVTYPE_RREP
    /\ \A m, n : ErrorTravels(packet, m, n) => packet[1] = AODVTYPE_RERR
    /\ AckTravels(packet) => packet[1] = AODVTYPE_RREP_ACK
BY RequestReadBack, ReplyReadBack, ErrorReadBack, AckReadBack
   DEF RequestTravels, ReplyTravels, ErrorTravels, AckTravels

LEMMA RequestComes ==
    ASSUME HInv, Arrived(AODVTYPE_RREQ)
    PROVE  LET h == DeserializeRreq(Cells)
           IN  meant \in Requests /\ h \in RreqHeaders /\ SameRequest(h, meant, relays)
<1>1. RequestTravels(packet, meant, relays)
  BY TypesDiffer DEF HInv, Travels, Arrived, AODVTYPE_RREQ, AODVTYPE_RREP, AODVTYPE_RERR,
                     AODVTYPE_RREP_ACK
<1> QED
  BY <1>1, RequestReadBack DEF RequestTravels, Cells

LEMMA ReplyComes ==
    ASSUME HInv, Arrived(AODVTYPE_RREP)
    PROVE  LET h == DeserializeRrep(Cells)
           IN  meant \in Replies /\ h \in RrepHeaders /\ SameReply(h, meant, relays)
<1>1. ReplyTravels(packet, meant, relays)
  BY TypesDiffer DEF HInv, Travels, Arrived, AODVTYPE_RREQ, AODVTYPE_RREP, AODVTYPE_RERR,
                     AODVTYPE_RREP_ACK
<1> QED
  BY <1>1, ReplyReadBack DEF ReplyTravels, Cells

LEMMA ErrorComes ==
    ASSUME HInv, Arrived(AODVTYPE_RERR)
    PROVE  LET r == DeserializeRerr(Cells)
           IN  /\ meant.kind = "error" /\ r \in Lists
               /\ DOMAIN r \subseteq DOMAIN meant.dests
               /\ \A d \in DOMAIN r : r[d] = meant.dests[d]
               /\ relays = 0 =>
                     /\ Cardinality(DOMAIN r) = GetDestCount(meant.dests)
                     /\ Cardinality(DOMAIN meant.dests) < ByteMod => r = meant.dests
<1>1. ErrorTravels(packet, meant, relays)
  BY TypesDiffer DEF HInv, Travels, Arrived, AODVTYPE_RREQ, AODVTYPE_RREP, AODVTYPE_RERR,
                     AODVTYPE_RREP_ACK
<1>2. PICK dests \in Lists : /\ packet = WithType(AODVTYPE_RERR, SerializeRerr(dests))
                             /\ SameError(dests, meant, relays)
  BY <1>1 DEF ErrorTravels
<1> DEFINE r == DeserializeRerr(Cells)
<1>3. /\ DOMAIN r \subseteq DOMAIN dests /\ r = [d \in DOMAIN r |-> dests[d]]
      /\ Cardinality(DOMAIN r) = GetDestCount(dests)
      /\ Cardinality(DOMAIN dests) < ByteMod => r = dests
  BY <1>2, ErrorReadBack DEF Cells
<1> HIDE DEF r
<1>4. r \in Lists
  <2>1. PICK D \in SUBSET Hosts : dests \in [D -> SeqNos]
    BY DEF Lists
  <2>2. DOMAIN r \in SUBSET Hosts /\ \A d \in DOMAIN r : dests[d] \in SeqNos
    BY <1>3, <2>1
  <2>3. r \in [DOMAIN r -> SeqNos]
    BY <1>3, <2>2
  <2> QED
    BY <2>2, <2>3 DEF Lists
<1>5. /\ DOMAIN r \subseteq DOMAIN meant.dests
      /\ \A d \in DOMAIN r : r[d] = meant.dests[d]
  BY <1>2, <1>3 DEF SameError
<1>6. relays = 0 => dests = meant.dests
  BY <1>2 DEF SameError
<1>7. meant.kind = "error"
  BY <1>1 DEF ErrorTravels
<1>8. relays = 0 => /\ Cardinality(DOMAIN r) = GetDestCount(meant.dests)
                    /\ Cardinality(DOMAIN meant.dests) < ByteMod => r = meant.dests
  BY <1>3, <1>6
<1> QED
  BY <1>4, <1>5, <1>7, <1>8 DEF r

(* What was understood is right, and so is what goes on, if anything.      *)
LEMMA ReceiveKeeps ==
    ASSUME HInv, NEW g, AllArrive', meant' = meant,
           \/ Ends(g)
           \/ /\ relays < MaxRelays /\ relays' = relays + 1
              /\ \/ RequestTravels(packet', meant, relays + 1)
                 \/ ReplyTravels(packet', meant, relays + 1)
                 \/ ErrorTravels(packet', meant, relays + 1)
    PROVE  HInv'
<1>1. relays \in 0..MaxRelays /\ MaxRelays \in Nat
  BY HeadersAssumption DEF HInv
<1>2. CASE Ends(g)
  BY <1>1, <1>2 DEF Ends, HInv, Travels
<1>3. CASE /\ relays < MaxRelays /\ relays' = relays + 1
           /\ \/ RequestTravels(packet', meant, relays + 1)
              \/ ReplyTravels(packet', meant, relays + 1)
              \/ ErrorTravels(packet', meant, relays + 1)
  <2>1. relays' \in 0..MaxRelays
    BY <1>1, <1>3
  <2>2. Travels'
    BY <1>3 DEF Travels
  <2> QED
    BY <2>1, <2>2 DEF HInv
<1> QED
  BY <1>2, <1>3

(* The hop count does not overflow. *)
LEMMA OneHopMore ==
    ASSUME NEW n \in Nat, NEW k \in Nat, n + MaxRelays < ByteMod, k < MaxRelays
    PROVE  (n + k + 1) % ByteMod = n + k + 1
BY HeadersAssumption

LEMMA RecvRequestKeeps ==
    ASSUME HInv, RecvRequest
    PROVE  HInv'
<1> DEFINE h == DeserializeRreq(Cells)
           g == UnderstoodRequest(h)
<1>1. Arrived(AODVTYPE_RREQ)
  BY DEF RecvRequest
<1>2. meant \in Requests /\ h \in RreqHeaders /\ SameRequest(h, meant, relays)
  BY <1>1, RequestComes
<1>3. \/ Ends(g)
      \/ \E s \in {{}} \cup {{n} : n \in SeqNos} :
            GoesOn(g, WithType(AODVTYPE_RREQ, SerializeRreq(ForwardedRequest(h, s))))
  BY DEF RecvRequest
<1> HIDE DEF h
<1>4. got' = g /\ meant' = meant
  BY <1>3 DEF Ends, GoesOn
<1>5. AllArrive'
  <2>1. RequestsArrive'
    <3>1. /\ g.id = h.requestID /\ g.dst = h.dst /\ g.origin = h.origin
          /\ g.oseq = h.originSeqNo /\ g.gratuitous = (GratuitousRrep \in h.flags)
          /\ g.only = (DestinationOnly \in h.flags)
          /\ g.known = (UnknownSeqno \notin h.flags) /\ g.dseq = h.dstSeqNo
          /\ g.hops = h.hopCount /\ g.relays = relays
      BY DEF UnderstoodRequest
    <3> HIDE DEF g
    <3>2. meant.kind = "request" /\ meant.gratuitous \in BOOLEAN /\ meant.only \in BOOLEAN
          /\ meant.known \in BOOLEAN
      BY <1>2 DEF Requests
    <3>3. g.gratuitous = meant.gratuitous /\ g.only = meant.only
      BY <1>2, <3>1, <3>2 DEF SameRequest
    <3>4. \A f \in {"id", "dst", "origin", "oseq", "gratuitous", "only"} : g[f] = meant[f]
      BY <1>2, <3>1, <3>3 DEF SameRequest
    <3>5. /\ g.hops = g.relays
          /\ meant.known => g.known /\ g.dseq >= meant.dseq
          /\ ~g.known => g.dseq = 0
      BY <1>2, <3>1 DEF SameRequest
    <3> QED
      BY <1>4, <3>2, <3>4, <3>5 DEF RequestsArrive
  <2>2. RepliesArrive' /\ ErrorsArrive'
    BY <1>4 DEF RepliesArrive, ErrorsArrive, UnderstoodRequest
  <2> QED
    BY <2>1, <2>2 DEF AllArrive
<1>6. ASSUME NEW s \in {{}} \cup {{n} : n \in SeqNos},
             GoesOn(g, WithType(AODVTYPE_RREQ, SerializeRreq(ForwardedRequest(h, s))))
      PROVE  /\ relays < MaxRelays /\ relays' = relays + 1
             /\ RequestTravels(packet', meant, relays + 1)
  <2> DEFINE fresh == {n \in s : UnknownSeqno \in h.flags \/ n >= h.dstSeqNo}
             f == ForwardedRequest(h, s)
             hop == [h EXCEPT !.hopCount = relays + 1]
             new == CHOOSE n \in fresh : TRUE
  <2>1. relays < MaxRelays /\ relays' = relays + 1
        /\ packet' = WithType(AODVTYPE_RREQ, SerializeRreq(f))
    BY <1>6 DEF GoesOn
  <2>2. relays \in Nat /\ (relays + 1) % ByteMod = relays + 1 /\ h.hopCount = relays
    <3>1. relays \in Nat /\ h.hopCount = relays /\ MaxRelays < ByteMod /\ MaxRelays \in Nat
          /\ ByteMod \in Nat
      BY <1>2, HeadersAssumption DEF HInv, SameRequest
    <3> QED
      BY <2>1, <3>1
  <2>3. hop = [h EXCEPT !.hopCount = (@ + 1) % ByteMod]
    BY <1>2, <2>2 DEF RreqHeaders
  <2>4. /\ hop \in RreqHeaders /\ hop.hopCount = relays + 1
        /\ hop.flags = h.flags /\ hop.requestID = h.requestID /\ hop.dst = h.dst
        /\ hop.dstSeqNo = h.dstSeqNo /\ hop.origin = h.origin
        /\ hop.originSeqNo = h.originSeqNo
    BY <1>2, <2>2 DEF RreqHeaders
  <2>5. CASE fresh = {}
    <3>1. f = hop
      BY <2>3, <2>5 DEF ForwardedRequest
    <3>2. SameRequest(hop, meant, relays + 1)
      BY <1>2, <2>4 DEF SameRequest
    <3> QED
      BY <1>2, <2>1, <2>4, <3>1, <3>2 DEF RequestTravels
  <2>6. CASE fresh # {}
    <3>1. new \in fresh
      BY <2>6
    <3>2. /\ new \in SeqNos /\ new \in Nat
          /\ UnknownSeqno \in h.flags \/ new >= h.dstSeqNo
      BY <3>1, HeadersAssumption
    <3> DEFINE cleared == h.flags \ {UnknownSeqno}
    <3>3. f = [hop EXCEPT !.dstSeqNo = new, !.flags = SetFlag(@, UnknownSeqno, FALSE)]
      BY <2>3, <2>6 DEF ForwardedRequest
    <3> HIDE DEF new, hop
    <3>4. f = [hop EXCEPT !.dstSeqNo = new, !.flags = cleared]
      BY <2>4, <3>3 DEF SetFlag, RreqHeaders
    <3>a. cleared \in SUBSET Bits /\ UnknownSeqno \notin cleared
          /\ (GratuitousRrep \in cleared <=> GratuitousRrep \in h.flags)
          /\ (DestinationOnly \in cleared <=> DestinationOnly \in h.flags)
      BY <1>2 DEF RreqHeaders, UnknownSeqno, GratuitousRrep, DestinationOnly
    <3> HIDE DEF f, cleared
    <3>5. /\ f \in RreqHeaders /\ f.hopCount = relays + 1 /\ f.flags = cleared
          /\ f.requestID = h.requestID /\ f.dst = h.dst /\ f.dstSeqNo = new
          /\ f.origin = h.origin /\ f.originSeqNo = h.originSeqNo
      BY <2>4, <3>2, <3>4, <3>a DEF RreqHeaders
    <3>6. meant.known => new >= meant.dseq
      BY <1>2, <3>2 DEF SameRequest, Requests, RreqHeaders
    <3>7. SameRequest(f, meant, relays + 1)
      BY <1>2, <3>5, <3>6, <3>a DEF SameRequest
    <3> QED
      BY <1>2, <2>1, <3>5, <3>7 DEF RequestTravels, f
  <2> QED
    BY <2>1, <2>5, <2>6
<1> HIDE DEF g
<1> QED
  BY <1>3, <1>4, <1>5, <1>6, ReceiveKeeps

(* Both handlers of replies read the header alike. *)
LEMMA ReplyUnderstood ==
    ASSUME HInv, Arrived(AODVTYPE_RREP), NEW kind \in {"reply", "hello"},
           kind = "hello" <=> DeserializeRrep(Cells).dst = DeserializeRrep(Cells).origin,
           got' = UnderstoodReply(kind, DeserializeRrep(Cells)), meant' = meant
    PROVE  AllArrive'
<1> DEFINE h == DeserializeRrep(Cells)
           g == UnderstoodReply(kind, h)
<1>1. meant \in Replies /\ h \in RrepHeaders /\ SameReply(h, meant, relays)
  BY ReplyComes
<1>2. /\ g.kind = kind /\ g.dst = h.dst /\ g.origin = h.origin /\ g.seq = h.dstSeqNo
      /\ g.life = h.lifeTime * Ms /\ g.ack = (AckRequired \in h.flags)
      /\ g.hops = h.hopCount /\ g.relays = relays
  BY DEF UnderstoodReply, GetLifeTime
<1>a. got' = g /\ (kind = "hello" <=> h.dst = h.origin)
  OBVIOUS
<1> HIDE DEF g, h
<1>3. meant.kind \in {"reply", "hello"} /\ (meant.kind = "hello" <=> h.dst = h.origin)
  BY <1>1 DEF Replies, SameReply
<1>4. meant.kind = kind
  BY <1>a, <1>3
<1>5. g.life \in (meant.life - Ms + 1)..meant.life
  BY <1>1, <1>2, LifeTimeCut DEF SameReply, Replies
<1>6. g.ack = (meant.ack /\ g.relays = 0)
  <2>1. meant.ack \in BOOLEAN
    BY <1>1 DEF Replies
  <2> QED
    BY <1>1, <1>2, <2>1 DEF SameReply
<1>7. \A f \in {"dst", "origin", "seq"} : g[f] = meant[f]
  BY <1>1, <1>2 DEF SameReply
<1>8. g.hops = meant.hops + g.relays
  BY <1>1, <1>2 DEF SameReply
<1>9. RepliesArrive'
  BY <1>2, <1>4, <1>5, <1>6, <1>7, <1>8, <1>a DEF RepliesArrive
<1>10. RequestsArrive' /\ ErrorsArrive'
  BY <1>2, <1>a DEF RequestsArrive, ErrorsArrive
<1> QED
  BY <1>9, <1>10 DEF AllArrive

LEMMA ProcessHelloKeeps ==
    ASSUME HInv, ProcessHello
    PROVE  HInv'
<1> DEFINE h == DeserializeRrep(Cells)
<1>1. Arrived(AODVTYPE_RREP) /\ h.dst = h.origin /\ Ends(UnderstoodReply("hello", h))
  BY DEF ProcessHello
<1>2. got' = UnderstoodReply("hello", h) /\ meant' = meant
  BY <1>1 DEF Ends
<1>3. AllArrive'
  BY <1>1, <1>2, ReplyUnderstood
<1> HIDE DEF h
<1> QED
  BY <1>1, <1>2, <1>3, ReceiveKeeps

LEMMA RecvReplyKeeps ==
    ASSUME HInv, RecvReply
    PROVE  HInv'
<1> DEFINE h == DeserializeRrep(Cells)
           g == UnderstoodReply("reply", h)
           f == ForwardedReply(h)
<1>1. Arrived(AODVTYPE_RREP) /\ h.dst # h.origin
  BY DEF RecvReply
<1>2. Ends(g) \/ GoesOn(g, WithType(AODVTYPE_RREP, SerializeRrep(f)))
  BY DEF RecvReply
<1>3. got' = g /\ meant' = meant
  BY <1>2 DEF Ends, GoesOn
<1>4. AllArrive'
  BY <1>1, <1>3, ReplyUnderstood
<1>5. meant \in Replies /\ h \in RrepHeaders /\ SameReply(h, meant, relays)
  BY <1>1, ReplyComes
<1> HIDE DEF h
<1>6. ASSUME GoesOn(g, WithType(AODVTYPE_RREP, SerializeRrep(f)))
      PROVE  /\ relays < MaxRelays /\ relays' = relays + 1
             /\ ReplyTravels(packet', meant, relays + 1)
  <2>1. relays < MaxRelays /\ relays' = relays + 1
        /\ packet' = WithType(AODVTYPE_RREP, SerializeRrep(f))
    BY <1>6 DEF GoesOn
  <2> DEFINE cleared == h.flags \ {AckRequired}
  <2>2. relays \in Nat /\ h.hopCount = meant.hops + relays
        /\ (h.hopCount + 1) % ByteMod = meant.hops + (relays + 1)
    <3>1. relays \in Nat /\ h.hopCount = meant.hops + relays /\ meant.hops \in Nat
          /\ meant.hops + MaxRelays < ByteMod
      BY <1>5, HeadersAssumption DEF HInv, SameReply, Replies
    <3> QED
      BY <2>1, <3>1, OneHopMore, HeadersAssumption
  <2>3. cleared \in SUBSET Bits /\ AckRequired \notin cleared
    BY <1>5 DEF RrepHeaders
  <2>4. f = [h EXCEPT !.hopCount = meant.hops + (relays + 1), !.flags = cleared]
    BY <1>5, <2>2 DEF ForwardedReply, SetFlag, RrepHeaders
  <2>5. meant.hops + (relays + 1) \in Nat
    BY <1>5, <2>2 DEF Replies
  <2> HIDE DEF f, cleared
  <2>6. /\ f \in RrepHeaders /\ f.hopCount = meant.hops + (relays + 1) /\ f.flags = cleared
        /\ f.dst = h.dst /\ f.origin = h.origin /\ f.dstSeqNo = h.dstSeqNo
        /\ f.lifeTime = h.lifeTime
    BY <1>5, <2>3, <2>4, <2>5 DEF RrepHeaders
  <2>7. SameReply(f, meant, relays + 1)
    <3>1. relays + 1 # 0
      BY <2>2
    <3> QED
      BY <1>5, <2>3, <2>6, <3>1 DEF SameReply
  <2> QED
    BY <1>5, <2>1, <2>6, <2>7 DEF ReplyTravels, f
<1> HIDE DEF g, f
<1> QED
  BY <1>2, <1>3, <1>4, <1>6, ReceiveKeeps

LEMMA RecvReplyAckKeeps ==
    ASSUME HInv, RecvReplyAck
    PROVE  HInv'
<1> DEFINE g == [kind |-> "ack", relays |-> relays]
<1>1. Ends(g)
  BY DEF RecvReplyAck
<1>2. got' = g /\ meant' = meant
  BY <1>1 DEF Ends
<1>3. AllArrive'
  BY <1>2 DEF AllArrive, RequestsArrive, RepliesArrive, ErrorsArrive
<1> HIDE DEF g
<1> QED
  BY <1>1, <1>2, <1>3, ReceiveKeeps

LEMMA RecvErrorKeeps ==
    ASSUME HInv, RecvError
    PROVE  HInv'
<1> DEFINE dests == DeserializeRerr(Cells)
           g == [kind |-> "error", dests |-> dests, relays |-> relays]
           f(mine) == [d \in mine |-> dests[d]]
<1>1. Arrived(AODVTYPE_RERR)
  BY DEF RecvError
<1>2. \/ Ends(g)
      \/ \E mine \in SUBSET DOMAIN dests \ {{}} :
            GoesOn(g, WithType(AODVTYPE_RERR, SerializeRerr(f(mine))))
  BY DEF RecvError
<1>3. /\ meant.kind = "error" /\ dests \in Lists
      /\ DOMAIN dests \subseteq DOMAIN meant.dests
      /\ \A d \in DOMAIN dests : dests[d] = meant.dests[d]
      /\ relays = 0 =>
            /\ Cardinality(DOMAIN dests) = GetDestCount(meant.dests)
            /\ Cardinality(DOMAIN meant.dests) < ByteMod => dests = meant.dests
  BY <1>1, ErrorComes
<1>4. meant.dests \in Lists
  BY <1>1, TypesDiffer DEF HInv, Travels, Arrived, ErrorTravels, AODVTYPE_RREQ, AODVTYPE_RREP,
                           AODVTYPE_RERR, AODVTYPE_RREP_ACK
<1> HIDE DEF dests
<1>5. got' = g /\ meant' = meant
  BY <1>2 DEF Ends, GoesOn
<1>6. AllArrive'
  BY <1>3, <1>5 DEF AllArrive, RequestsArrive, RepliesArrive, ErrorsArrive
<1>7. ASSUME NEW mine \in SUBSET DOMAIN dests \ {{}},
             GoesOn(g, WithType(AODVTYPE_RERR, SerializeRerr(f(mine))))
      PROVE  /\ relays < MaxRelays /\ relays' = relays + 1
             /\ ErrorTravels(packet', meant, relays + 1)
  <2>1. relays < MaxRelays /\ relays' = relays + 1
        /\ packet' = WithType(AODVTYPE_RERR, SerializeRerr(f(mine)))
    BY <1>7 DEF GoesOn
  <2>2. f(mine) \in Lists
    <3>1. PICK D \in SUBSET Hosts : dests \in [D -> SeqNos]
      BY <1>3 DEF Lists
    <3>2. mine \in SUBSET Hosts /\ f(mine) \in [mine -> SeqNos] /\ DOMAIN f(mine) = mine
      BY <1>7, <3>1
    <3> HIDE DEF f
    <3> QED
      BY <3>2 DEF Lists
  <2>3. SameError(f(mine), meant, relays + 1)
    <3>1. relays + 1 # 0
      BY HeadersAssumption DEF HInv
    <3> QED
      BY <1>3, <1>7, <3>1 DEF SameError
  <2> HIDE DEF f
  <2> QED
    BY <1>3, <1>4, <2>1, <2>2, <2>3 DEF ErrorTravels
<1> HIDE DEF g, f
<1> QED
  BY <1>2, <1>5, <1>6, <1>7, ReceiveKeeps

----------------------------------------------------------------------------
LEMMA InitIsHInv == Init => HInv
BY NothingArrives, HeadersAssumption DEF Init, HInv, Travels

LEMMA StepIsHInv == HInv /\ [Next]_vars => HInv'
<1> SUFFICES ASSUME HInv, [Next]_vars PROVE HInv'
  OBVIOUS
<1>1. CASE UNCHANGED vars
  BY <1>1 DEF vars, HInv, Travels, AllArrive, RequestsArrive, RepliesArrive, ErrorsArrive
<1>2. ASSUME NEW o \in Hosts, NEW d \in Hosts, NEW seq \in SeqNos,
             \E s \in {{}, {seq}}, id \in Ids, oseq \in SeqNos, gratuitous, only \in BOOLEAN :
                SendRequest(o, d, s, id, oseq, gratuitous, only)
      PROVE  HInv'
  BY <1>2, SendRequestKeeps
<1>3. 0 \in Nat /\ 0 + MaxRelays < ByteMod
      /\ \A hop \in HopCounts : hop \in Nat /\ hop + MaxRelays < ByteMod
  BY HeadersAssumption
<1>4. ASSUME NEW o \in Hosts, NEW d \in Hosts, NEW seq \in SeqNos, NEW life \in LifeTimes,
             \/ SendReply(o, d, seq, life)
             \/ \E hop \in HopCounts : \/ SendReplyByIntermediateNode(o, d, seq, hop, life)
                                       \/ SendGratuitousReply(o, d, seq, hop, life)
      PROVE  HInv'
  <2>1. CASE SendReply(o, d, seq, life)
    BY <1>3, <2>1, ReplyKeeps DEF SendReply
  <2>2. ASSUME NEW hop \in HopCounts, SendReplyByIntermediateNode(o, d, seq, hop, life)
        PROVE  HInv'
    <3>1. o # d /\ Reply("reply", o, d, seq, hop, life, hop = 1) /\ (hop = 1) \in BOOLEAN
      BY <2>2 DEF SendReplyByIntermediateNode
    <3> QED
      BY <1>3, <3>1, ReplyKeeps
  <2>3. ASSUME NEW hop \in HopCounts, SendGratuitousReply(o, d, seq, hop, life)
        PROVE  HInv'
    BY <1>3, <2>3, ReplyKeeps DEF SendGratuitousReply
  <2> QED
    BY <1>4, <2>1, <2>2, <2>3
<1>5. ASSUME NEW n \in Hosts, NEW seq \in SeqNos, NEW life \in LifeTimes,
             SendHello(n, seq, life)
      PROVE  HInv'
  BY <1>3, <1>5, ReplyKeeps DEF SendHello
<1>6. CASE SendReplyAck
  <2> DEFINE m == [kind |-> "ack"]
  <2>1. Send(m, WithType(AODVTYPE_RREP_ACK, RrepAck))
    BY <1>6 DEF SendReplyAck
  <2>2. AckTravels(WithType(AODVTYPE_RREP_ACK, RrepAck))
    BY DEF AckTravels
  <2> HIDE DEF m
  <2> QED
    BY <2>1, <2>2, SendKeeps
<1>7. ASSUME NEW D \in SUBSET Hosts \ {{}}, NEW dests \in [D -> SeqNos], SendRerr(dests)
      PROVE  HInv'
  BY <1>7, SendErrorKeeps
<1>8. CASE Over
  <2>1. packet' = << >> /\ got' = Nothing /\ relays' = 0
    BY <1>8 DEF Over
  <2>2. AllArrive'
    BY <2>1 DEF AllArrive, RequestsArrive, RepliesArrive, ErrorsArrive, Nothing
  <2> QED
    BY <2>1, <2>2, HeadersAssumption DEF HInv, Travels
<1>9. CASE \E o, d \in Hosts, seq \in SeqNos :
         \/ \E s \in {{}, {seq}}, id \in Ids, oseq \in SeqNos, gratuitous, only \in BOOLEAN :
              SendRequest(o, d, s, id, oseq, gratuitous, only)
         \/ \E life \in LifeTimes :
              \/ SendReply(o, d, seq, life)
              \/ \E hop \in HopCounts : \/ SendReplyByIntermediateNode(o, d, seq, hop, life)
                                        \/ SendGratuitousReply(o, d, seq, hop, life)
  <2>1. PICK o \in Hosts, d \in Hosts, seq \in SeqNos :
           \/ \E s \in {{}, {seq}}, id \in Ids, oseq \in SeqNos, gratuitous, only \in BOOLEAN :
                SendRequest(o, d, s, id, oseq, gratuitous, only)
           \/ \E life \in LifeTimes :
                \/ SendReply(o, d, seq, life)
                \/ \E hop \in HopCounts : \/ SendReplyByIntermediateNode(o, d, seq, hop, life)
                                          \/ SendGratuitousReply(o, d, seq, hop, life)
    BY <1>9
  <2>2. CASE \E s \in {{}, {seq}}, id \in Ids, oseq \in SeqNos, gratuitous, only \in BOOLEAN :
                SendRequest(o, d, s, id, oseq, gratuitous, only)
    BY <1>2, <2>2
  <2>3. CASE \E life \in LifeTimes :
                \/ SendReply(o, d, seq, life)
                \/ \E hop \in HopCounts : \/ SendReplyByIntermediateNode(o, d, seq, hop, life)
                                          \/ SendGratuitousReply(o, d, seq, hop, life)
    BY <1>4, <2>3
  <2> QED
    BY <2>1, <2>2, <2>3
<1>10. CASE \E n \in Hosts, seq \in SeqNos, life \in LifeTimes : SendHello(n, seq, life)
  BY <1>5, <1>10
<1>11. CASE \E D \in SUBSET Hosts \ {{}} : \E dests \in [D -> SeqNos] : SendRerr(dests)
  BY <1>7, <1>11
<1>12. CASE RecvRequest \/ ProcessHello \/ RecvReply \/ RecvReplyAck \/ RecvError
  BY <1>12, RecvRequestKeeps, ProcessHelloKeeps, RecvReplyKeeps, RecvReplyAckKeeps,
     RecvErrorKeeps
<1> QED
  BY <1>1, <1>6, <1>8, <1>9, <1>10, <1>11, <1>12, Zenon DEF Next

LEMMA AlwaysHInv == Spec => []HInv
BY InitIsHInv, StepIsHInv, PTL DEF Spec

(* RequestsArrive: what RecvRequest reads at every node is what            *)
(* SendRequest meant, with the hops counted, whatever the relays wrote.    *)
THEOREM RequestsAreUnderstood == Spec => []RequestsArrive
<1>1. HInv => RequestsArrive
  BY DEF HInv, AllArrive
<1> QED
  BY <1>1, AlwaysHInv, PTL

(* RepliesArrive: RecvReply and ProcessHello read what the replier meant,  *)
(* tell a hello from a reply, and no lifetime grows on its way.            *)
THEOREM RepliesAreUnderstood == Spec => []RepliesArrive
<1>1. HInv => RepliesArrive
  BY DEF HInv, AllArrive
<1> QED
  BY <1>1, AlwaysHInv, PTL

(* ErrorsArrive: RecvError reads every destination with the number that    *)
(* was written for it, in whatever order, as many as GetDestCount says,    *)
(* which are all of them below the byte's limit; relays add none.          *)
THEOREM ErrorsAreUnderstood == Spec => []ErrorsArrive
<1>1. HInv => ErrorsArrive
  BY DEF HInv, AllArrive
<1> QED
  BY <1>1, AlwaysHInv, PTL

=============================================================================
