--------------------------- MODULE PacketHeaders ---------------------------
(***************************************************************************)
(* The headers of AODV messages (ns3-modules/aodvatk: aodvatk-packet and   *)
(* the places of RoutingProtocol that fill and read them).  One message at *)
(* a time goes from node to node: its sender writes a header, the packet   *)
(* is a sequence of cells, each receiver reads the cells in turn and may   *)
(* write the header again, changed, for the next.                          *)
(*                                                                         *)
(* A cell is a byte, a 32-bit word or an address; a byte of flags is the   *)
(* set of its bits.  Which routes a receiver has is chosen freely.         *)
(***************************************************************************)
EXTENDS Integers, FiniteSets, Sequences, Functions

CONSTANTS
    Hosts,
    Ids, SeqNos,    \* request identifiers and sequence numbers: some 32-bit words
    HopCounts,      \* hop counts of a route
    LifeTimes,      \* lifetimes, in ticks of the simulator's clock
    Ms,             \* ticks in a millisecond
    WordMod,        \* 2^32
    ByteMod,        \* 256
    MaxRelays       \* bound: relays of one message, which its TTL or the routes limit

ASSUME HeadersAssumption ==
    /\ IsFiniteSet(Hosts)
    /\ Ids \subseteq Nat /\ SeqNos \subseteq Nat /\ HopCounts \subseteq Nat \ {0}
    /\ LifeTimes \subseteq Nat
    /\ {Ms, WordMod, ByteMod, MaxRelays} \subseteq Nat \ {0}
    /\ \A n \in Ids \cup SeqNos : n < WordMod
    /\ MaxRelays < ByteMod
    /\ \A t \in LifeTimes : t < WordMod * Ms
    /\ \A h \in HopCounts : h + MaxRelays < ByteMod

VARIABLES
    meant,      \* the message as its first sender means it
    packet,     \* the cells on their way
    relays,     \* nodes that passed the message on
    got,        \* the message as its last receiver understands it, and the
                \* number of relays before that receiver
    stopped     \* a write outside the packet has ended the program

vars == <<meant, packet, relays, got, stopped>>

Nothing == [kind |-> "nothing"]

Init ==
    /\ meant = Nothing /\ got = Nothing
    /\ packet = << >> /\ relays = 0
    /\ stopped = FALSE

----------------------------------------------------------------------------
(* Flags.                                                                  *)

SetFlag(flags, bit, on) == IF on THEN flags \cup {bit} ELSE flags \ {bit}

(* Bits of a request, and the bit of a reply. *)
GratuitousRrep == 5
DestinationOnly == 4
UnknownSeqno == 3
AckRequired == 6

----------------------------------------------------------------------------
(* Headers and cells.                                                      *)

(* RreqHeader, RrepHeader, RrepAckHeader and RerrHeader. *)
SerializeRreq(h) == <<h.flags, h.reserved, h.hopCount, h.requestID, h.dst, h.dstSeqNo,
                      h.origin, h.originSeqNo>>

DeserializeRreqWrongOrder(c) ==
    [flags |-> c[1], reserved |-> c[2], hopCount |-> c[3], requestID |-> c[4],
     dst |-> c[5], dstSeqNo |-> c[8], origin |-> c[7], originSeqNo |-> c[6]]

DeserializeRreq(c) ==
    [flags |-> c[1], reserved |-> c[2], hopCount |-> c[3], requestID |-> c[4],
     dst |-> c[5], dstSeqNo |-> c[6], origin |-> c[7], originSeqNo |-> c[8]]

SerializeRrep(h) == <<h.flags, h.prefixSize, h.hopCount, h.dst, h.dstSeqNo, h.origin,
                      h.lifeTime>>

DeserializeRrep(c) ==
    [flags |-> c[1], prefixSize |-> c[2], hopCount |-> c[3], dst |-> c[4],
     dstSeqNo |-> c[5], origin |-> c[6], lifeTime |-> c[7]]

RrepAck == << 0 >>

(* The count of destinations is a byte. *)
GetDestCount(dests) == Cardinality(DOMAIN dests) % ByteMod

(* m_unreachableDstSeqNo, a map in the order of its keys: any order does.  *)
(* GetSerializedSize makes room for as many as the byte says; the rest are *)
(* written past the end of the packet, and do not travel.                  *)
SerializeRerr(dests) ==
    LET keys == CHOOSE k \in [1..Cardinality(DOMAIN dests) -> DOMAIN dests] :
                    Range(k) = DOMAIN dests
    IN  <<{}, 0, GetDestCount(dests)>>
        \o [i \in 1..2 * GetDestCount(dests) |->
                IF i % 2 = 1 THEN keys[(i + 1) \div 2] ELSE dests[keys[i \div 2]]]

DeserializeRerrWrongCount(c) ==
    [d \in {c[2 + 2 * k] : k \in 1..(c[3] - 1)} |->
        c[3 + 2 * (CHOOSE k \in 1..(c[3] - 1) : c[2 + 2 * k] = d)]]

DeserializeRerr(c) ==
    [d \in {c[2 + 2 * k] : k \in 1..c[3]} |->
        c[3 + 2 * (CHOOSE k \in 1..c[3] : c[2 + 2 * k] = d)]]

(* TypeHeader goes in front. *)
AODVTYPE_RREQ == 1
AODVTYPE_RREP == 2
AODVTYPE_RERR == 3
AODVTYPE_RREP_ACK == 4

WithType(type, c) == <<type>> \o c

(* Lifetimes travel in whole milliseconds. *)
MilliSecondsWrongTicks(t) == t % WordMod

MilliSeconds(t) == (t \div Ms) % WordMod

GetLifeTime(h) == h.lifeTime * Ms

----------------------------------------------------------------------------
(* Sending.                                                                *)

Send(m, cells) ==
    /\ meant = Nothing /\ ~stopped
    /\ packet' = cells /\ meant' = m
    /\ relays' = 0 /\ got' = Nothing
    /\ UNCHANGED stopped

(* s: the sequence number the node knows of d, {} or one. *)
SendRequest(o, d, s, id, oseq, gratuitous, only) ==
    LET known == s # {}
        dseq == IF known THEN CHOOSE n \in s : TRUE ELSE 0
        flags == SetFlag(SetFlag(SetFlag({}, UnknownSeqno, ~known),
                                 GratuitousRrep, gratuitous), DestinationOnly, only)
    IN  /\ o # d
        /\ Send([kind |-> "request", id |-> id, dst |-> d, known |-> known, dseq |-> dseq,
                 origin |-> o, oseq |-> oseq, gratuitous |-> gratuitous, only |-> only,
                 hops |-> 0],
                WithType(AODVTYPE_RREQ,
                    SerializeRreq([flags |-> flags, reserved |-> 0, hopCount |-> 0,
                                   requestID |-> id, dst |-> d, dstSeqNo |-> dseq,
                                   origin |-> o, originSeqNo |-> oseq])))

Reply(kind, o, d, seq, hop, life, ack) ==
    Send([kind |-> kind, dst |-> d, seq |-> seq, origin |-> o, life |-> life,
          ack |-> ack, hops |-> hop],
         WithType(AODVTYPE_RREP,
             SerializeRrep([flags |-> SetFlag({}, AckRequired, ack), prefixSize |-> 0,
                            hopCount |-> hop, dst |-> d, dstSeqNo |-> seq, origin |-> o,
                            lifeTime |-> MilliSeconds(life)])))

SendReply(o, d, seq, life) == o # d /\ Reply("reply", o, d, seq, 0, life, FALSE)

(* What the route has left to live; an acknowledgement is wanted when the  *)
(* destination is a neighbour.                                             *)
SendReplyByIntermediateNode(o, d, seq, hop, life) ==
    o # d /\ Reply("reply", o, d, seq, hop, life, hop = 1)

(* The gratuitous reply, about the origin of the request. *)
SendGratuitousReply(o, d, seq, hop, life) == o # d /\ Reply("reply", d, o, seq, hop, life, FALSE)

SendHello(n, seq, life) == Reply("hello", n, n, seq, 0, life, FALSE)

SendReplyAck == Send([kind |-> "ack"], WithType(AODVTYPE_RREP_ACK, RrepAck))

(* The program is built optimized (setup_ns3.sh:21), without the assertion *)
(* of AddUnDestination, which never returns false: whatever their number,  *)
(* the destinations go into one error.  It is sent unless their count is 0 *)
(* as a byte, and too many of them may bring the program down.             *)
SendRerr(dests) ==
    /\ GetDestCount(dests) # 0
    /\ \/ Send([kind |-> "error", dests |-> dests], WithType(AODVTYPE_RERR, SerializeRerr(dests)))
       \/ /\ GetDestCount(dests) # Cardinality(DOMAIN dests)
          /\ meant = Nothing /\ ~stopped
          /\ stopped' = TRUE
          /\ UNCHANGED <<meant, packet, relays, got>>

----------------------------------------------------------------------------
(* Receiving.                                                              *)

(* RecvAodv takes the type off and calls the handler for it. *)
Arrived(type) == packet # << >> /\ packet[1] = type

Cells == Tail(packet)

(* The message is understood as g and goes no further. *)
Ends(g) ==
    /\ got' = g /\ packet' = << >>
    /\ UNCHANGED <<meant, relays, stopped>>

(* It goes on to the next node. *)
GoesOn(g, cells) ==
    /\ relays < MaxRelays
    /\ got' = g /\ packet' = cells /\ relays' = relays + 1
    /\ UNCHANGED <<meant, stopped>>

UnderstoodRequest(h) ==
    [kind |-> "request", id |-> h.requestID, dst |-> h.dst,
     known |-> UnknownSeqno \notin h.flags, dseq |-> h.dstSeqNo, origin |-> h.origin,
     oseq |-> h.originSeqNo, gratuitous |-> GratuitousRrep \in h.flags,
     only |-> DestinationOnly \in h.flags, hops |-> h.hopCount, relays |-> relays]

(* One hop more, and the receiver's sequence number if it is as fresh. *)
ForwardedRequest(h, s) ==
    LET fresh == {n \in s : UnknownSeqno \in h.flags \/ n >= h.dstSeqNo}
        hop == [h EXCEPT !.hopCount = (@ + 1) % ByteMod]
    IN  IF fresh = {} THEN hop
        ELSE [hop EXCEPT !.dstSeqNo = CHOOSE n \in fresh : TRUE,
                         !.flags = SetFlag(@, UnknownSeqno, FALSE)]

(* The receiver answers, drops or forwards it. *)
RecvRequest ==
    LET h == DeserializeRreq(Cells)
    IN  /\ Arrived(AODVTYPE_RREQ)
        /\ \/ Ends(UnderstoodRequest(h))
           \/ \E s \in {{}} \cup {{n} : n \in SeqNos} :
                GoesOn(UnderstoodRequest(h),
                       WithType(AODVTYPE_RREQ, SerializeRreq(ForwardedRequest(h, s))))

UnderstoodReply(kind, h) ==
    [kind |-> kind, dst |-> h.dst, seq |-> h.dstSeqNo, origin |-> h.origin,
     life |-> GetLifeTime(h), ack |-> AckRequired \in h.flags, hops |-> h.hopCount,
     relays |-> relays]

(* A reply about its own origin is a hello. *)
ProcessHello ==
    LET h == DeserializeRrep(Cells)
    IN  /\ Arrived(AODVTYPE_RREP) /\ h.dst = h.origin
        /\ Ends(UnderstoodReply("hello", h))

(* The acknowledgement, if wanted, was for the last hop. *)
ForwardedReply(h) ==
    [h EXCEPT !.hopCount = (@ + 1) % ByteMod, !.flags = SetFlag(@, AckRequired, FALSE)]

RecvReply ==
    LET h == DeserializeRrep(Cells)
    IN  /\ Arrived(AODVTYPE_RREP) /\ h.dst # h.origin
        /\ \/ Ends(UnderstoodReply("reply", h))
           \/ GoesOn(UnderstoodReply("reply", h),
                     WithType(AODVTYPE_RREP, SerializeRrep(ForwardedReply(h))))

RecvReplyAck == Arrived(AODVTYPE_RREP_ACK) /\ Ends([kind |-> "ack", relays |-> relays])

(* What the receiver reaches through the sender is reported again, with    *)
(* the sequence numbers of the error.                                      *)
RecvError ==
    LET dests == DeserializeRerr(Cells)
        g == [kind |-> "error", dests |-> dests, relays |-> relays]
    IN  /\ Arrived(AODVTYPE_RERR)
        /\ \/ Ends(g)
           \/ \E mine \in SUBSET DOMAIN dests \ {{}} :
                GoesOn(g, WithType(AODVTYPE_RERR, SerializeRerr([d \in mine |-> dests[d]])))

(* A message that has arrived for the last time, or is lost in the air, is *)
(* over; somebody sends another.                                           *)
Over ==
    /\ meant # Nothing
    /\ packet' = << >> /\ meant' = Nothing /\ got' = Nothing /\ relays' = 0
    /\ UNCHANGED stopped

----------------------------------------------------------------------------
Next ==
    \/ \E o, d \in Hosts, seq \in SeqNos :
         \/ \E s \in {{}, {seq}}, id \in Ids, oseq \in SeqNos, gratuitous, only \in BOOLEAN :
              SendRequest(o, d, s, id, oseq, gratuitous, only)
         \/ \E life \in LifeTimes :
              \/ SendReply(o, d, seq, life)
              \/ \E hop \in HopCounts : \/ SendReplyByIntermediateNode(o, d, seq, hop, life)
                                        \/ SendGratuitousReply(o, d, seq, hop, life)
    \/ \E n \in Hosts, seq \in SeqNos, life \in LifeTimes : SendHello(n, seq, life)
    \/ SendReplyAck
    \/ \E D \in SUBSET Hosts \ {{}} : \E dests \in [D -> SeqNos] : SendRerr(dests)
    \/ RecvRequest \/ ProcessHello \/ RecvReply \/ RecvReplyAck \/ RecvError
    \/ Over

Spec == Init /\ [][Next]_vars

----------------------------------------------------------------------------
(***************************************************************************)
(* Whatever a relay writes over it, a request says at every node who asks, *)
(* for whom, with which numbers and wishes; its hop count is the number of *)
(* relays; what it knows of the destination only gets fresher, and no      *)
(* number travels under the flag that says there is none.                  *)
(***************************************************************************)
RequestsArrive ==
    got.kind = "request" =>
        /\ meant.kind = "request"
        /\ \A f \in {"id", "dst", "origin", "oseq", "gratuitous", "only"} : got[f] = meant[f]
        /\ got.hops = got.relays
        /\ meant.known => got.known /\ got.dseq >= meant.dseq
        /\ ~got.known => got.dseq = 0

(***************************************************************************)
(* A reply says at every node what the replier said: which route, how      *)
(* fresh, how far.  Only the first receiver is asked for an                *)
(* acknowledgement.  A hello, and nothing else, is taken for a hello.  A   *)
(* route learned from a reply does not outlive the one it was read from:   *)
(* the conversion to milliseconds cuts its lifetime by less than one, once *)
(* and not again at every relay.                                           *)
(***************************************************************************)
RepliesArrive ==
    got.kind \in {"reply", "hello"} =>
        /\ meant.kind = got.kind
        /\ \A f \in {"dst", "origin", "seq"} : got[f] = meant[f]
        /\ got.hops = meant.hops + got.relays
        /\ got.ack = (meant.ack /\ got.relays = 0)
        /\ got.life \in (meant.life - Ms + 1)..meant.life

(***************************************************************************)
(* The neighbour learns of every destination that was lost, with its own   *)
(* sequence number, as long as they fit one error.  Of more it learns of   *)
(* as many as the byte counts to, each still with its own number.  Whoever *)
(* hears of it later learns of none that was not lost.                     *)
(***************************************************************************)
ErrorsArrive ==
    got.kind = "error" =>
        /\ meant.kind = "error"
        /\ DOMAIN got.dests \subseteq DOMAIN meant.dests
        /\ \A d \in DOMAIN got.dests : got.dests[d] = meant.dests[d]
        /\ got.relays = 0 =>
              /\ Cardinality(DOMAIN got.dests) = GetDestCount(meant.dests)
              /\ Cardinality(DOMAIN meant.dests) < ByteMod => got.dests = meant.dests

(***************************************************************************)
(* aodvatk-packet.h:613, "@return false if we already added maximum        *)
(* possible number of unreachable destinations", on which the callers that *)
(* start another error rely: the neighbour learns of all of them.          *)
(***************************************************************************)
AllErrorsArrive ==
    got.kind = "error" /\ got.relays = 0 => got.dests = meant.dests

=============================================================================
