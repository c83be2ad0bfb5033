------------------------------- MODULE Socks -------------------------------
(***************************************************************************)
(* The SOCKS front end of a client: the parser of socks.cc, the callbacks  *)
(* of network.cc around it, and the several outbound connections that one  *)
(* request can start when the configuration names several targets.         *)
(*                                                                         *)
(* A client program sends one conversation: a request, and behind it the   *)
(* data it wants relayed.  TCP hands it over in pieces of any size, so     *)
(* what the parser sees at a callback is any prefix that has grown.  Bytes *)
(* are small numbers; lengths keep the source's offsets, except the four   *)
(* that are constants here.                                                *)
(***************************************************************************)
EXTENDS Integers, Sequences, FiniteSets

CONSTANTS Requests,        \* what client programs ask for: see Encode
          Payload,         \* the data a client sends behind its request
          Targets,         \* the configuration's target addresses
          IPv6Len,         \* 16 in the source
          SOCKS4_MAX_LENGTH,
          MaxAddr          \* sizeof(parsereq.addr)

ASSUME SocksAssumption ==
    /\ IPv6Len \in Nat /\ MaxAddr \in Nat /\ IPv6Len < MaxAddr
    /\ SOCKS4_MAX_LENGTH \in Nat /\ Targets # {}

VARIABLES
    request,   \* what the client program asks for
    fed,       \* bytes of the conversation read into the input buffer
    used,      \* bytes of it drained from that buffer
    sock,      \* socks_state_t
    ckt,       \* the circuit and its upstream buffer
    conns,     \* conns[t]: the outbound connection to target t
    replies    \* what was written to the client program

vars == <<request, fed, used, sock, ckt, conns, replies>>

-----------------------------------------------------------------------------
(* What a client program sends.                                            *)

SOCKS5_VERSION == 5
SOCKS4_VERSION == 4
SOCKS5_METHOD_NOAUTH == 0
SOCKS5_METHOD_FAIL == 255
SOCKS5_CMD_CONNECT == 1
SOCKS5_ATYP_IPV4 == 1
SOCKS5_ATYP_FQDN == 3
SOCKS5_ATYP_IPV6 == 4
SOCKS5_FAILED_UNSUPPORTED == 7
MIN_SOCKS_PACKET == 3
SIZEOF_SOCKS5_STATIC_REQ == 4

\* RFC 1928, and the SOCKS4 and SOCKS4a notes: the bytes of request r.
Encode(r) ==
    IF r.version = SOCKS5_VERSION
    THEN <<r.version, Len(r.methods)>> \o r.methods
         \o <<SOCKS5_VERSION, r.cmd, 0, r.atyp>>
         \o (IF r.atyp = SOCKS5_ATYP_FQDN THEN <<Len(r.addr)>> ELSE <<>>)
         \o r.addr \o r.port
    ELSE <<r.version, r.cmd>> \o r.port
         \o (IF r.host = <<>> THEN r.addr ELSE <<0, 0, 0, 9>>)
         \o r.user \o <<0>>
         \o (IF r.host = <<>> THEN <<>> ELSE r.host \o <<0>>)

Conversation(r) == Encode(r) \o Payload

Byte == 0 .. 255

\* The fields of a request have the sizes their formats give them; a name
\* holds no NUL; and a SOCKS4 request without a name is not for an address
\* 0.0.0.x, which announces one.
WellFormed(r) ==
    /\ r.version \in Byte /\ r.cmd \in Byte
    /\ r.addr \in Seq(Byte) /\ r.port \in Seq(Byte) /\ Len(r.port) = 2
    /\ r.version = SOCKS5_VERSION =>
          /\ r.methods \in Seq(Byte) /\ Len(r.methods) \in Byte
          /\ r.atyp \in Byte /\ Len(r.addr) \in Byte
          /\ r.atyp = SOCKS5_ATYP_IPV4 => Len(r.addr) = 4
          /\ r.atyp = SOCKS5_ATYP_IPV6 => Len(r.addr) = IPv6Len
    /\ r.version # SOCKS5_VERSION =>
          /\ r.user \in Seq(Byte \ {0}) /\ r.host \in Seq(Byte \ {0})
          /\ Len(r.addr) = 4
          /\ ~(r.addr[1] = 0 /\ r.addr[2] = 0 /\ r.addr[3] = 0 /\ r.addr[4] # 0)

ASSUME RequestsAssumption ==
    Payload \in Seq(Byte) /\ \A r \in Requests : WellFormed(r)

-----------------------------------------------------------------------------
(* The parser.  It works on p = [buf, sock, out, ret]: the input buffer,   *)
(* the state, what it adds to the output buffer, and what it returns.      *)

NoAddress == [af |-> "none", addr |-> <<>>, port |-> <<>>]

\* socks_state_new
socks_state_new == [state |-> "ST_WAITING", version |-> 0, broken |-> FALSE,
                    parsereq |-> NoAddress]

Return(p, ret) == [p EXCEPT !.ret = ret]
Drop(s, n) == SubSeq(s, n + 1, Len(s))

\* The first NUL of b at or after position i, or 0.
NulFrom(b, i) ==
    IF \E j \in i .. Len(b) : b[j] = 0
    THEN CHOOSE j \in i .. Len(b) : b[j] = 0 /\ \A k \in i .. j - 1 : b[k] # 0
    ELSE 0

\* Mutation: the length byte of a name is not counted.
RequestSizeNoExtra(b) ==
    SIZEOF_SOCKS5_STATIC_REQ + 2
      + CASE b[4] = SOCKS5_ATYP_IPV4 -> 4
          [] b[4] = SOCKS5_ATYP_IPV6 -> IPv6Len
          [] b[4] = SOCKS5_ATYP_FQDN -> b[5]

\* minsize, with the length byte of an FQDN.
RequestSize(b) ==
    SIZEOF_SOCKS5_STATIC_REQ + 2
      + CASE b[4] = SOCKS5_ATYP_IPV4 -> 4
          [] b[4] = SOCKS5_ATYP_IPV6 -> IPv6Len
          [] b[4] = SOCKS5_ATYP_FQDN -> b[5] + 1

\* socks5_handle_request
Socks5HandleRequest(p) ==
    LET b == p.buf
        first == IF b[4] = SOCKS5_ATYP_FQDN THEN 6 ELSE 5
        size == RequestSize(b)
    IN  IF Len(b) < SIZEOF_SOCKS5_STATIC_REQ + 1 THEN Return(p, "SOCKS_INCOMPLETE")
        ELSE IF b[1] # SOCKS5_VERSION \/ b[3] # 0 THEN Return(p, "SOCKS_BROKEN")
        ELSE IF b[2] # SOCKS5_CMD_CONNECT THEN Return(p, "SOCKS_CMD_NOT_CONNECT")
        ELSE IF b[4] \notin {SOCKS5_ATYP_IPV4, SOCKS5_ATYP_IPV6, SOCKS5_ATYP_FQDN}
             THEN Return(p, "SOCKS_BROKEN")
        ELSE IF Len(b) < size THEN Return(p, "SOCKS_INCOMPLETE")
        ELSE [p EXCEPT !.ret = "SOCKS_GOOD", !.buf = Drop(b, size),
                       !.sock.parsereq =
                 [af   |-> CASE b[4] = SOCKS5_ATYP_IPV4 -> "AF_INET"
                             [] b[4] = SOCKS5_ATYP_IPV6 -> "AF_INET6"
                             [] b[4] = SOCKS5_ATYP_FQDN -> "AF_UNSPEC",
                  addr |-> SubSeq(b, first, size - 2),
                  port |-> SubSeq(b, size - 1, size)]]

\* socks5_do_negotiation
Socks5DoNegotiation(p, success) ==
    [p EXCEPT !.ret = IF success THEN "SOCKS_GOOD" ELSE "SOCKS_BROKEN",
              !.out = Append(@, [kind |-> "method",
                                 status |-> IF success THEN SOCKS5_METHOD_NOAUTH
                                            ELSE SOCKS5_METHOD_FAIL,
                                 address |-> NoAddress])]

\* Mutation: the count of methods is drained before it is known that all
\* the methods are there.
Socks5HandleNegotiationEager(p) ==
    LET n == p.buf[1]
        methods == SubSeq(p.buf, 2, n + 1)
    IN  IF Len(p.buf) < n + 1
        THEN [p EXCEPT !.ret = "SOCKS_INCOMPLETE", !.buf = Tail(@)]
        ELSE Socks5DoNegotiation([p EXCEPT !.buf = Drop(@, n + 1)],
                 \E i \in 1 .. n : methods[i] = SOCKS5_METHOD_NOAUTH)

\* socks5_handle_negotiation
Socks5HandleNegotiation(p) ==
    LET n == p.buf[1]
        methods == SubSeq(p.buf, 2, n + 1)
    IN  IF Len(p.buf) < n + 1 THEN Return(p, "SOCKS_INCOMPLETE")
        ELSE Socks5DoNegotiation([p EXCEPT !.buf = Drop(@, n + 1)],
                 \E i \in 1 .. n : methods[i] = SOCKS5_METHOD_NOAUTH)

\* socks4_read_request.  The name of a SOCKS4a host is looked for behind the
\* user, when the address is 0.0.0.x with x not 0.
Socks4ReadRequest(p) ==
    LET b == p.buf
        is_v4a == b[4] = 0 /\ b[5] = 0 /\ b[6] = 0 /\ b[7] # 0
        end_of_user == NulFrom(b, 8)
        end_of_hostname == NulFrom(b, end_of_user + 1)
        last == IF is_v4a THEN end_of_hostname ELSE end_of_user
        short == IF Len(b) > SOCKS4_MAX_LENGTH THEN "SOCKS_BROKEN"
                 ELSE "SOCKS_INCOMPLETE"
    IN  IF Len(b) < 7 THEN Return(p, "SOCKS_INCOMPLETE")
        ELSE IF b[1] # 1 THEN Return(p, "SOCKS_BROKEN")
        ELSE IF end_of_user = 0 THEN Return(p, short)
        ELSE IF is_v4a /\ end_of_user = Len(b) THEN Return(p, "SOCKS_INCOMPLETE")
        ELSE IF is_v4a /\ end_of_hostname = 0 THEN Return(p, short)
        ELSE IF is_v4a /\ end_of_hostname - end_of_user - 1 >= MaxAddr
             THEN Return(p, "SOCKS_BROKEN")
        ELSE [p EXCEPT !.ret = "SOCKS_GOOD", !.buf = Drop(b, last),
                       !.sock.parsereq =
                 [af |-> "AF_INET", port |-> SubSeq(b, 2, 3),
                  addr |-> IF is_v4a
                           THEN SubSeq(b, end_of_user + 1, end_of_hostname - 1)
                           ELSE SubSeq(b, 4, 7)]]

Broken(p) == [p EXCEPT !.ret = "SOCKS_BROKEN", !.sock.broken = TRUE]

\* What handle_socks makes of the result of a stage.
Stage(p, next) ==
    CASE p.ret = "SOCKS_BROKEN" -> Broken(p)
      [] p.ret = "SOCKS_INCOMPLETE" -> p
      [] p.ret = "SOCKS_CMD_NOT_CONNECT" -> [p EXCEPT !.sock.broken = TRUE]
      [] p.ret = "SOCKS_GOOD" -> [p EXCEPT !.sock.state = next]

\* handle_socks: the version is taken off once, and a SOCKS5 request is
\* looked for in the call that finished the negotiation.
HandleSocks(p0) ==
    LET p == IF p0.sock.version # 0 THEN p0
             ELSE [p0 EXCEPT !.sock.version = p0.buf[1], !.buf = Tail(@)]
        negotiated == IF p.sock.state = "ST_WAITING"
                      THEN Stage(Socks5HandleNegotiation(p), "ST_NEGOTIATION_DONE")
                      ELSE p
    IN  IF p0.sock.broken THEN Return(p0, "SOCKS_BROKEN")
        ELSE IF Len(p0.buf) < MIN_SOCKS_PACKET THEN Return(p0, "SOCKS_INCOMPLETE")
        ELSE IF p.sock.version = SOCKS4_VERSION
             THEN Stage(Socks4ReadRequest(p), "ST_HAVE_ADDR")
        ELSE IF p.sock.version = SOCKS5_VERSION
             THEN IF negotiated.sock.state = "ST_NEGOTIATION_DONE"
                  THEN Stage(Socks5HandleRequest(negotiated), "ST_HAVE_ADDR")
                  ELSE negotiated
        ELSE Broken(p)

-----------------------------------------------------------------------------
(* The replies.                                                            *)

Errors == {"ENETUNREACH", "EHOSTUNREACH", "ECONNREFUSED", "other"}

\* socks_errno_to_reply
ErrnoToReply(version, error) ==
    IF version = SOCKS4_VERSION
    THEN IF error = "none" THEN 90 ELSE 91
    ELSE CASE error = "none" -> 0
           [] error = "ENETUNREACH" -> 3
           [] error = "EHOSTUNREACH" -> 4
           [] error = "ECONNREFUSED" -> 5
           [] error = "other" -> 1

\* socks5_send_reply
Socks5SendReply(p, status) ==
    [p EXCEPT !.sock.state = "ST_SENT_REPLY",
              !.out = Append(@, [kind |-> "reply", status |-> status,
                  address |-> IF status = SOCKS5_FAILED_UNSUPPORTED THEN NoAddress
                              ELSE p.sock.parsereq])]

\* socks4_send_reply.  It has no place for a name, and leaves the state.
Socks4SendReply(p, status) ==
    [p EXCEPT !.out = Append(@, [kind |-> "reply", status |-> status,
        address |-> IF Len(p.sock.parsereq.addr) = 4 THEN p.sock.parsereq
                    ELSE [p.sock.parsereq EXCEPT !.addr = <<0, 0, 0, 0>>]])]

\* socks_send_reply
SendReply(p, error) ==
    IF p.sock.version = SOCKS5_VERSION
    THEN Socks5SendReply(p, ErrnoToReply(SOCKS5_VERSION, error))
    ELSE Socks4SendReply(p, ErrnoToReply(SOCKS4_VERSION, error))

\* socks_state_set_address.  getpeername was told that the address is as
\* long as a pointer, so of an IPv6 peer only the port arrives.
SetAddress(s, peer) ==
    IF peer.af = "AF_INET6" /\ s.version = SOCKS4_VERSION THEN s
    ELSE [s EXCEPT !.parsereq = peer]

-----------------------------------------------------------------------------
(* The circuit.                                                            *)

Init ==
    /\ request \in Requests
    /\ fed = 0 /\ used = 0
    /\ sock = socks_state_new
    /\ ckt = [st |-> "open", socks |-> TRUE, enabled |-> {"read", "write"},
              pending_write_eof |-> FALSE, write_eof |-> FALSE,
              unflushed |-> FALSE, wire |-> 0]
    /\ conns = [t \in Targets |-> "none"]
    /\ replies = <<>>

Text == Conversation(request)
Buffer(n) == SubSeq(Text, used + 1, n)
Parser(n) == [buf |-> Buffer(n), sock |-> sock, out |-> <<>>, ret |-> "SOCKS_GOOD"]

\* circuit_t::close; the protocol unlinks every connection from the circuit.
Close(c) == [c EXCEPT !.st = "closed", !.enabled = {}]

\* circuit_do_flush, and upstream_flush_cb when nothing is left to write.
\* Nothing has been read to its end, so this does not close the circuit.
DoFlush(c) ==
    IF c.unflushed THEN [c EXCEPT !.pending_write_eof = TRUE]
    ELSE [c EXCEPT !.pending_write_eof = TRUE, !.write_eof = TRUE]

Wrote(c, p) == [c EXCEPT !.unflushed = @ \/ p.out # <<>>]

\* socks_state_get_address
HasAddress(sk) == sk.state \in {"ST_HAVE_ADDR", "ST_SENT_REPLY"}

\* create_outbound_connections_socks, to the targets of the configuration
\* (ignore_socks_destination): one connection each; some cannot be started,
\* and if none can the circuit is closed.
Connect(c, sk) ==
    \E started \in IF HasAddress(sk) THEN SUBSET Targets ELSE {{}} :
        /\ conns' = [t \in Targets |-> IF t \in started THEN "connecting" ELSE "none"]
        /\ ckt' = IF started = {} THEN Close(c) ELSE c

\* Mutation: socks_read_cb leaves a request it has just completed to the
\* next time the client program sends something.
ReadCbNoLoop(p) ==
    /\ sock' = p.sock
    /\ replies' = replies \o p.out
    /\ used' = used + Len(Buffer(fed')) - Len(p.buf)
    /\ LET c == Wrote(ckt, p)
       IN  /\ conns' = conns
           /\ ckt' = CASE p.ret = "SOCKS_GOOD" -> c
                       [] p.ret = "SOCKS_INCOMPLETE" -> c
                       [] p.ret = "SOCKS_BROKEN" -> Close(c)
                       [] p.ret = "SOCKS_CMD_NOT_CONNECT" -> c

\* socks_read_cb, with p what the parser made of the buffer.
ReadCb(p) ==
    /\ used' = used + Len(Buffer(fed')) - Len(p.buf)
    /\ CASE p.ret = "SOCKS_GOOD" ->
              /\ sock' = p.sock /\ replies' = replies \o p.out
              /\ Connect([Wrote(ckt, p) EXCEPT !.enabled = {}], p.sock)
         [] p.ret = "SOCKS_INCOMPLETE" ->
              /\ sock' = p.sock /\ replies' = replies \o p.out
              /\ ckt' = Wrote(ckt, p) /\ UNCHANGED conns
         [] p.ret = "SOCKS_BROKEN" ->
              /\ sock' = p.sock /\ replies' = replies \o p.out
              /\ ckt' = Close(Wrote(ckt, p)) /\ UNCHANGED conns
         [] p.ret = "SOCKS_CMD_NOT_CONNECT" ->
              LET q == Socks5SendReply(p, SOCKS5_FAILED_UNSUPPORTED)
              IN  /\ sock' = q.sock /\ replies' = replies \o q.out
                  /\ ckt' = DoFlush([Wrote(ckt, q) EXCEPT !.enabled = {"write"}])
                  /\ UNCHANGED conns

\* More of the conversation is read, up to byte n.
SocksRead(n) ==
    /\ ckt.st = "open" /\ ckt.socks /\ "read" \in ckt.enabled
    /\ n \in fed + 1 .. Len(Text)
    /\ fed' = n
    /\ ReadCb(HandleSocks(Parser(n)))
    /\ UNCHANGED request

\* The client program goes away first: circuit_send_eof closes the circuit.
ClientGone ==
    /\ ckt.st = "open" /\ ckt.socks /\ "read" \in ckt.enabled
    /\ ckt' = Close(ckt)
    /\ UNCHANGED <<request, fed, used, sock, conns, replies>>

Peers == {[af |-> "AF_INET", addr |-> <<1, 1, 1, 1>>, port |-> <<8, 0>>]}
         \cup [af : {"AF_INET6"}, addr : {<<6>>, <<0>>}, port : {<<8, 0>>}]

\* downstream_socks_connect_cb on success: the reply, then regular behaviour,
\* beginning with what was read behind the request; circuit_recv_eof if an
\* end of file is due.
Connected(t) ==
    /\ conns[t] = "connecting" /\ ckt.st = "open" /\ ckt.socks
    /\ \E peer \in Peers :
          LET s == SetAddress(sock, peer)
              p == SendReply([Parser(fed) EXCEPT !.sock = s], "none")
          IN  replies' = replies \o p.out /\ sock' = p.sock
    /\ conns' = [conns EXCEPT ![t] = "up"]
    /\ ckt' = [ckt EXCEPT !.socks = FALSE, !.enabled = {"read", "write"},
                          !.unflushed = TRUE, !.wire = @ + fed - used]
    /\ used' = fed
    /\ UNCHANGED <<request, fed>>

\* downstream_socks_connect_cb on failure: a negative reply in ST_HAVE_ADDR,
\* which in SOCKS4 lasts, and otherwise the end of the circuit.
ConnectFails(t) ==
    /\ conns[t] = "connecting" /\ ckt.st = "open" /\ ckt.socks
    /\ conns' = [conns EXCEPT ![t] = "failed"]
    /\ \E error \in Errors :
          LET p == SendReply(Parser(fed), error)
          IN  IF sock.state = "ST_HAVE_ADDR"
              THEN /\ replies' = replies \o p.out /\ sock' = p.sock
                   /\ ckt' = DoFlush([Wrote(ckt, p) EXCEPT !.enabled = @ \cup {"write"}])
              ELSE ckt' = Close(ckt) /\ UNCHANGED <<sock, replies>>
    /\ UNCHANGED <<request, fed, used>>

\* downstream_connect_cb, once the SOCKS state is gone.
LaterEvent(t) ==
    /\ conns[t] = "connecting" /\ ckt.st = "open" /\ ~ckt.socks
    /\ conns' = [conns EXCEPT ![t] = "up"] \/ conns' = [conns EXCEPT ![t] = "failed"]
    /\ UNCHANGED <<request, fed, used, sock, ckt, replies>>

\* downstream_socks_connect_cb for a connection whose circuit is closed:
\* log_assert(ckt) ends the process.
StaleEvent(t) ==
    /\ conns[t] = "connecting" /\ ckt.st = "closed"
    /\ ckt' = [ckt EXCEPT !.st = "aborted"]
    /\ UNCHANGED <<request, fed, used, sock, conns, replies>>

\* upstream_read_cb
UpstreamRead(n) ==
    /\ ckt.st = "open" /\ ~ckt.socks /\ "read" \in ckt.enabled
    /\ n \in fed + 1 .. Len(Text)
    /\ fed' = n /\ used' = n
    /\ ckt' = [ckt EXCEPT !.wire = @ + n - fed]
    /\ UNCHANGED <<request, sock, conns, replies>>

\* The output buffer reaches the client program: upstream_flush_cb.
Flush ==
    /\ ckt.st = "open" /\ ckt.unflushed /\ "write" \in ckt.enabled
    /\ ckt' = [ckt EXCEPT !.unflushed = FALSE, !.write_eof = ckt.pending_write_eof]
    /\ UNCHANGED <<request, fed, used, sock, conns, replies>>

Next ==
    \/ \E n \in 1 .. Len(Text) : SocksRead(n) \/ UpstreamRead(n)
    \/ ClientGone \/ Flush
    \/ \E t \in Targets : Connected(t) \/ ConnectFails(t) \/ LaterEvent(t) \/ StaleEvent(t)

Spec == Init /\ [][Next]_vars

\* What a client program sends arrives, and an attempt to connect ends.
Fairness ==
    /\ WF_vars(\E n \in 1 .. Len(Text) : SocksRead(n))
    /\ \A t \in Targets : WF_vars(Connected(t) \/ ConnectFails(t))

FairSpec == Spec /\ Fairness

-----------------------------------------------------------------------------
(* Properties.                                                             *)

\* The request is one that the parser is meant to accept.
Acceptable(r) ==
    /\ r.version \in {SOCKS4_VERSION, SOCKS5_VERSION} /\ r.cmd = 1
    /\ r.version = SOCKS5_VERSION =>
          /\ \E i \in DOMAIN r.methods : r.methods[i] = SOCKS5_METHOD_NOAUTH
          /\ r.atyp \in {SOCKS5_ATYP_IPV4, SOCKS5_ATYP_IPV6, SOCKS5_ATYP_FQDN}
    /\ r.version = SOCKS4_VERSION =>
          Len(r.host) < MaxAddr /\ Len(Encode(r)) <= SOCKS4_MAX_LENGTH

Meant(r) == [addr |-> IF r.version = SOCKS4_VERSION /\ r.host # <<>>
                      THEN r.host ELSE r.addr,
             port |-> r.port]

\* However the conversation is cut into pieces, handle_socks and its stages
\* never give up an acceptable request, and when they have an address it is
\* the one that was asked for, with all of the request and nothing of the
\* data behind it drained from the buffer.
RequestUnderstood ==
    /\ Acceptable(request) => ~sock.broken
    /\ sock.state = "ST_HAVE_ADDR" /\ ckt.socks =>
          /\ used = Len(Encode(request))
          /\ [addr |-> sock.parsereq.addr, port |-> sock.parsereq.port] = Meant(request)

\* The data behind the request goes to the protocol whole and once: what
\* downstream_socks_connect_cb and upstream_read_cb pass on begins at the
\* first byte behind the request.
NothingLost == ~ckt.socks => ckt.wire = fed - Len(Encode(request))

\* A program that sends a whole acceptable request gets a reply, or its
\* connection is closed: socks_read_cb does not wait for more than it needs.
RequestAnswered ==
    (Acceptable(request) /\ fed >= Len(Encode(request)))
        ~> (ckt.st # "open" \/ \E i \in DOMAIN replies : replies[i].kind = "reply")

\* A request is answered once: after a failure the comment in
\* downstream_socks_connect_cb says to "send a negative SOCKS reply back to
\* the client and terminate the connection".
AnsweredOnce ==
    Cardinality({i \in DOMAIN replies : replies[i].kind = "reply"}) <= 1
=============================================================================
