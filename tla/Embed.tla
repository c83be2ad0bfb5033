-------------------------------- MODULE Embed --------------------------------
(***************************************************************************)
(* The embed steg module (steg/embed.cc): the two ends of a connection     *)
(* follow a recorded trace of packets, each sending when the trace says it *)
(* is its turn, in packets of the recorded sizes.  The client picks the    *)
(* trace and names it in front of the first packet.                        *)
(*                                                                         *)
(* A packet is a length, that much data, and padding.  TCP delivers bytes, *)
(* not packets: receive() is called with whatever has arrived.  Time is    *)
(* left out: when a packet is due, it may be sent.                         *)
(***************************************************************************)
EXTENDS Integers, Sequences

CONSTANTS Traces,      \* traces[i]: the sizes; positive ones are the client's
          Los, hi,     \* the least that chop may insist on, and the most it takes
          IdxLen,      \* 4: the bytes of a trace's index
          LenLen,      \* 2: the bytes of a length
          Short        \* 2^15: a short is less

ASSUME EmbedAssumption ==
    /\ hi \in Nat /\ Los \subseteq 1 .. hi
    /\ IdxLen \in Nat \ {0} /\ LenLen \in Nat \ {0} /\ Short \in Nat \ {0}

\* A recorded packet is not empty.
ASSUME TracesAssumption == Traces \in Seq(Seq(Int \ {0}))

VARIABLES
    end,     \* end[s]: embed_steg_t at s
    wire,    \* wire[s]: bytes that s has sent and that have not arrived
    buf,     \* buf[s]: bytes that have arrived at s
    sent,    \* sent[s]: data bytes that s was given to send
    got,     \* got[s]: the data that receive() at s has passed on
    spoilt   \* history: the first packet was cut, or some packet was outgrown

vars == <<end, wire, buf, sent, got, spoilt>>

Sides == {"client", "server"}
Peer(s) == IF s = "client" THEN "server" ELSE "client"
Least(a, b) == IF a < b THEN a ELSE b
Abs(n) == IF n < 0 THEN -n ELSE n
Rest(s, n) == SubSeq(s, n + 1, Len(s))
AsShort(n) == ((n + Short) % (2 * Short)) - Short

\* embed_steg_t::embed_steg_t: the client starts a random trace.
Init ==
    /\ \E t \in DOMAIN Traces :
          end = [s \in Sides |-> [cur_idx |-> IF s = "client" THEN t ELSE 0,
                                  cur_pkt |-> 1, ceased |-> FALSE, st |-> "open"]]
    /\ wire = [s \in Sides |-> <<>>]
    /\ buf = [s \in Sides |-> <<>>]
    /\ sent = [s \in Sides |-> 0]
    /\ got = [s \in Sides |-> <<>>]
    /\ spoilt = FALSE

-----------------------------------------------------------------------------
(* The trace.                                                              *)

Trace(e) == Traces[e.cur_idx]
get_pkt_size(e) == Abs(Trace(e)[e.cur_pkt])
is_finished(e) == e.cur_idx = 0 \/ e.cur_pkt > Len(Trace(e))


is_outgoing(s, e) == (Trace(e)[e.cur_pkt] < 0) # (s = "client")

\* advance_packet; after the last packet the connection is to cease.
Advance(e) ==
    [e EXCEPT !.cur_pkt = @ + 1, !.ceased = @ \/ e.cur_pkt = Len(Trace(e))]

-----------------------------------------------------------------------------
(* Sending.                                                                *)

\* transmit_room.  chop insists on lo: a block's header and a byte of data, the
\* handshake in front of the first, or a whole block that it sends again; the
\* recorded size gives way.  The room is unsigned: a packet too small for its
\* header has room for anything.
TransmitRoom(e, lo) ==
    LET room == get_pkt_size(e) - LenLen - (IF e.cur_pkt = 1 THEN IdxLen ELSE 0)
        wrapped == IF room < 0 THEN hi ELSE room
    IN  Least(IF wrapped < lo THEN lo ELSE wrapped, hi)

Bytes(kind, v, n) == [i \in 1 .. n |-> <<kind, v>>]
Data(from, n) == [i \in 1 .. n |-> <<"data", from + i>>]

\* What transmit puts on the wire for n bytes of data.
Packet(s, e, n) ==
    LET header == (IF e.cur_pkt = 1 THEN Bytes("idx", e.cur_idx, IdxLen) ELSE <<>>)
                  \o Bytes("len", n, LenLen)
        used == Len(header) + n
    IN  header \o Data(sent[s], n)
        \o Bytes("pad", 0, IF get_pkt_size(e) > used THEN get_pkt_size(e) - used ELSE 0)

\* transmit, of a block that transmit_room made room for.
Transmit(s) ==
    LET e == end[s]
    IN  /\ e.st = "open" /\ ~is_finished(e) /\ is_outgoing(s, e)
        /\ \E lo \in Los : \E n \in lo .. TransmitRoom(e, lo) :
              /\ wire' = [wire EXCEPT ![s] = @ \o Packet(s, e, n)]
              /\ sent' = [sent EXCEPT ![s] = @ + n]
              /\ spoilt' = (spoilt \/ Len(Packet(s, e, n)) > get_pkt_size(e))
        /\ end' = [end EXCEPT ![s] = Advance(e)]
        /\ UNCHANGED <<buf, got>>

-----------------------------------------------------------------------------
(* Receiving.  p = [e, source, src_len, pkt_size, dest, ret].              *)

\* One turn of the loop of receive.  src_len, a short, was read before anything
\* was removed, so it counts the index, and it goes down by what the trace says,
\* not by what was removed; whatever stands where a length should be is taken
\* for one.
ReceivePacket(p) ==
    LET exp == get_pkt_size(p.e)
        data_len == p.source[1][2]
        size == p.pkt_size + data_len + LenLen
        padding == IF exp > size THEN exp - size ELSE 0
        rest == Rest(p.source, LenLen + data_len)
    IN  IF Len(p.source) < LenLen \/ Len(p.source) < LenLen + data_len
        THEN [p EXCEPT !.ret = -1]
        ELSE [p EXCEPT !.dest = @ \o SubSeq(p.source, LenLen + 1, LenLen + data_len),
                       !.source = Rest(rest, Least(padding, Len(rest))),
                       !.src_len = @ - exp, !.pkt_size = 0, !.e = Advance(p.e)]

Turn(p) ==
    IF p.ret = -1 \/ p.e.ceased \/ p.src_len < get_pkt_size(p.e) THEN p
    ELSE ReceivePacket(p)

\* The loop: every turn that does not end it advances in the trace, so it
\* has at most as many turns as the trace has packets.  (Each turn is the only
\* element of a set, so that TLC evaluates it once.)
ReceiveLoop(p) ==
    LET turn[k \in Nat] ==
            IF k = 0 THEN p ELSE CHOOSE q \in {Turn(r) : r \in {turn[k - 1]}} : TRUE
    IN  turn[Len(Trace(p.e))]

\* Mutation: the bytes of the index are not counted as part of the packet.
ReceivedNoIndex(s, source) ==
    LET e == end[s]
        p == [e |-> e, source |-> source, src_len |-> AsShort(Len(source)),
              pkt_size |-> 0, dest |-> <<>>, ret |-> 0]
    IN  IF e.cur_idx # 0 THEN ReceiveLoop(p)
        ELSE IF Len(source) < IdxLen THEN [p EXCEPT !.ret = -1]
        ELSE ReceiveLoop([p EXCEPT !.e.cur_idx = source[1][2], !.e.cur_pkt = 1,
                                   !.source = Rest(source, IdxLen)])

\* receive.  The count of the index is forgotten if the packet is not whole.
Received(s, source) ==
    LET e == end[s]
        p == [e |-> e, source |-> source, src_len |-> AsShort(Len(source)),
              pkt_size |-> 0, dest |-> <<>>, ret |-> 0]
    IN  IF e.cur_idx # 0 THEN ReceiveLoop(p)
        ELSE IF Len(source) < IdxLen THEN [p EXCEPT !.ret = -1]
        ELSE ReceiveLoop([p EXCEPT !.e.cur_idx = source[1][2], !.e.cur_pkt = 1,
                                   !.source = Rest(source, IdxLen),
                                   !.pkt_size = IdxLen])

\* n more bytes arrive at s; an error of receive closes the connection.
Arrive(s, n) ==
    LET p == Received(s, buf[s] \o SubSeq(wire[Peer(s)], 1, n))
    IN  /\ end[s].st = "open" /\ n \in 1 .. Len(wire[Peer(s)])
        /\ wire' = [wire EXCEPT ![Peer(s)] = Rest(@, n)]
        /\ buf' = [buf EXCEPT ![s] = p.source]
        /\ got' = [got EXCEPT ![s] = @ \o p.dest]
        /\ end' = [end EXCEPT ![s] = [p.e EXCEPT !.st = IF p.ret = -1 THEN "closed"
                                                        ELSE "open"]]
        /\ spoilt' = (spoilt \/ (end[s].cur_idx = 0 /\ p.e.cur_pkt = 1))
        /\ UNCHANGED sent

Next == \E s \in Sides :
    \/ Transmit(s)
    \/ \E n \in 1 .. Len(wire[Peer(s)]) : Arrive(s, n)

Spec == Init /\ [][Next]_vars

\* A packet that is due is sent (chop's timers), and bytes arrive.
FairSpec ==
    /\ Spec
    /\ \A s \in Sides :
          /\ WF_vars(Transmit(s))
          /\ WF_vars(\E n \in 1 .. Len(wire[Peer(s)]) : Arrive(s, n))

-----------------------------------------------------------------------------
(* Properties.                                                             *)

\* Unless the first packet of the trace arrived in pieces, or chop insisted on
\* more than some packet's recorded size, receive() passes on what transmit()
\* was given, in order, however later packets are cut, and the connection stays
\* open.
DataIntact ==
    ~spoilt =>
        \A s \in Sides :
            /\ end[s].st = "open"
            /\ got[s] = Data(0, Len(got[s])) /\ Len(got[s]) <= sent[Peer(s)]

\* The client names the trace in its first packet: it has to be the client's.
ClientBegins(t) == t # <<>> /\ t[1] > 0


\* receive() says of a short buffer that "the next full packet is not in the
\* source buffer yet", and waits for the rest: so the cuts should not matter.
CutsDoNotMatter ==
    \A s \in Sides : end[s].st = "open" /\ got[s] = Data(0, Len(got[s]))
=============================================================================
