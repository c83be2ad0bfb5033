------------------------------- MODULE Relay -------------------------------
(***************************************************************************)
(* The circuit and connection core (connections.cc), the libevent          *)
(* callbacks (network.cc) and the null protocol (protocol/null.cc), which  *)
(* has one connection per circuit and copies bytes.  A client process and  *)
(* a server process carry several streams between a program at each end;   *)
(* the client is told where to connect by its configuration or over SOCKS. *)
(*                                                                         *)
(* A callback runs to its end before the next starts (one thread, one      *)
(* event loop), so a callback is an action.  The calls it makes nest, and  *)
(* are operators on the record of one circuit and its connection, named    *)
(* after the functions.                                                    *)
(*                                                                         *)
(* Bytes are counted, not stored: every buffer between the two programs is *)
(* first in, first out, so a count per stage says what is where.           *)
(***************************************************************************)
EXTENDS Integers, FiniteSets

CONSTANTS Streams,          \* the streams a client program may open
          Modes,            \* how the client may be configured: see mode
          Offer,            \* Offer[s]: units a program at side s may write
          MaxConns,         \* MAX_GLOBAL_CONN_COUNT
          FaultKinds,       \* which faults happen: see Faulty
          Shutdowns,        \* which requests to stop a process may get
          MaxFaults         \* how many faults and such requests there are

ASSUME RelayAssumption ==
    /\ Modes \subseteq {"simple", "socks"}
    /\ MaxConns \in Nat \ {0} /\ MaxFaults \in Nat
    /\ Shutdowns \subseteq {"signal", "stdin"}

VARIABLES
    mode,     \* LSN_SIMPLE_CLIENT or LSN_SOCKS_CLIENT
    proc,     \* proc[s]: the process's global state (conn_global_state)
    link,     \* link[s][k]: the circuit of stream k at s and its connection
    wrote,    \* wrote[s][k]: units written by the program at s
    ended,    \* ended[s][k]: that program has closed its side
    broken,   \* history: an error, refusal or shutdown hit the stream
    faults    \* faults and requests to stop so far

vars == <<mode, proc, link, wrote, ended, broken, faults>>

Sides == {"client", "server"}
Other(s) == IF s = "client" THEN "server" ELSE "client"

-----------------------------------------------------------------------------
(* A circuit and its connection.  Counters: "taken" units moved from the   *)
(* upstream input buffer to the connection's output buffer, "sent" units   *)
(* flushed to the wire, "got" units moved from the wire to the upstream    *)
(* output buffer, "given" units flushed to the program.                    *)

NoCircuit == [st |-> "none", upbuf |-> FALSE, connected |-> FALSE,
              socks |-> "no", read_eof |-> FALSE, write_eof |-> FALSE,
              pending_write_eof |-> FALSE, downstream |-> FALSE,
              enabled |-> {}, reply |-> FALSE]

NoConn == [st |-> "none", upstream |-> FALSE, connected |-> FALSE,
           failed |-> FALSE, read_eof |-> FALSE, write_eof |-> FALSE,
           pending_write_eof |-> FALSE, ever_received |-> FALSE,
           enabled |-> {}]

NoLink == [ckt |-> NoCircuit, conn |-> NoConn, taken |-> 0, sent |-> 0,
           got |-> 0, given |-> 0, shut_up |-> FALSE, shut_down |-> FALSE,
           event |-> FALSE, crash |-> "no"]

Both == {"read", "write"}

UpOutputEmpty(p) == p.got = p.given /\ ~p.ckt.reply
DownOutputEmpty(p) == p.sent = p.taken

\* Mutation: the second close of a pair is taken for the first.
WakeCleanupNever(p) ==
    [p EXCEPT !.event = @ \/ (p.ckt.st = "closed" /\ p.conn.st = "closed")]

\* need_event: close() wakes the cleanup event only if nothing waits for it.
WakeCleanup(p) ==
    [p EXCEPT !.event = @ \/ (p.ckt.st # "closed" /\ p.conn.st # "closed")]

\* conn_t::close
ConnBaseClose(p) ==
    [WakeCleanup(p) EXCEPT !.conn.st = "closed", !.conn.enabled = {}]

\* circuit_t::close; the null protocol arms no timers.
CircuitBaseClose(p) ==
    [WakeCleanup(p) EXCEPT !.ckt.st = "closed", !.ckt.enabled = {}]

\* downstream_flush_cb for a connection whose circuit is already unlinked.
FlushUnlinked(p) ==
    IF DownOutputEmpty(p) /\ ((p.conn.pending_write_eof /\ p.conn.connected)
                              \/ p.conn.ever_received)
    THEN LET q == [p EXCEPT !.conn.write_eof = TRUE]
         IN  IF q.conn.read_eof THEN ConnBaseClose(q) ELSE q
    ELSE p

\* Mutation: the connection keeps its pointer to the circuit being closed.
NullCircuitCloseLinked(p) ==
    CircuitBaseClose([p EXCEPT !.ckt.downstream = FALSE])

\* null_circuit_t::close: unlink the connection, let it flush, and close.
NullCircuitClose(p) ==
    IF ~p.ckt.downstream THEN CircuitBaseClose(p)
    ELSE LET q == [p EXCEPT !.conn.upstream = FALSE,
                            !.ckt.downstream = FALSE,
                            !.conn.pending_write_eof = TRUE]
         IN  CircuitBaseClose(IF DownOutputEmpty(q) THEN FlushUnlinked(q) ELSE q)

\* upstream_flush_cb
UpstreamFlushCb(p) ==
    IF UpOutputEmpty(p) /\ p.ckt.connected /\ p.ckt.pending_write_eof
    THEN LET q == [p EXCEPT !.ckt.write_eof = TRUE, !.shut_up = TRUE]
         IN  IF q.ckt.read_eof THEN NullCircuitClose(q) ELSE q
    ELSE p

\* circuit_do_flush; without an upstream buffer it reads through NULL.
CircuitDoFlush(p) ==
    LET q == [p EXCEPT !.ckt.pending_write_eof = TRUE]
    IN  IF ~p.ckt.upbuf THEN [p EXCEPT !.crash = "null_upbuf"]
        ELSE IF UpOutputEmpty(q) THEN UpstreamFlushCb(q) ELSE q

\* null_circuit_t::drop_downstream
DropDownstream(p) ==
    CircuitDoFlush([p EXCEPT !.ckt.downstream = FALSE, !.conn.upstream = FALSE])

\* null_conn_t::close
NullConnClose(p) ==
    ConnBaseClose(IF p.conn.upstream THEN DropDownstream(p) ELSE p)

\* downstream_flush_cb.  It notes the end of file; it does not send it.
DownstreamFlushCb(p) ==
    IF /\ DownOutputEmpty(p)
       /\ \/ p.conn.pending_write_eof /\ p.conn.connected
          \/ ~p.conn.upstream /\ p.conn.ever_received
    THEN LET q == [p EXCEPT !.conn.write_eof = TRUE]
         IN  IF q.conn.read_eof THEN NullConnClose(q) ELSE q
    ELSE p

\* conn_send_eof; with units still buffered it only marks the connection.
ConnSendEof(p) ==
    LET q == [p EXCEPT !.conn.pending_write_eof = TRUE]
    IN  IF DownOutputEmpty(p) /\ ~p.conn.write_eof
        THEN [q EXCEPT !.conn.write_eof = TRUE, !.shut_down = TRUE]
        ELSE q

\* null_circuit_t::send_eof
NullSendEof(p) ==
    [(IF p.ckt.downstream THEN ConnSendEof(p) ELSE p) EXCEPT !.ckt.read_eof = TRUE]

\* circuit_send_eof
CircuitSendEof(p) ==
    IF p.ckt.socks # "no" THEN NullCircuitClose(p) ELSE NullSendEof(p)

\* Mutation: the end of file is passed on with units still buffered.
CircuitRecvEofEager(p) ==
    LET q == [p EXCEPT !.ckt.pending_write_eof = TRUE]
    IN  IF ~p.ckt.upbuf \/ ~p.ckt.connected THEN q
        ELSE [q EXCEPT !.ckt.write_eof = TRUE, !.shut_up = TRUE]

\* circuit_recv_eof
CircuitRecvEof(p) ==
    LET q == [p EXCEPT !.ckt.pending_write_eof = TRUE]
    IN  IF ~p.ckt.upbuf \/ ~p.ckt.connected \/ ~UpOutputEmpty(p) THEN q
        ELSE [q EXCEPT !.ckt.write_eof = TRUE, !.shut_up = TRUE]

\* null_circuit_t::send: everything read moves to the connection.
NullSend(p, n) ==
    IF p.ckt.downstream THEN [p EXCEPT !.taken = n]
    ELSE [p EXCEPT !.crash = "null_downstream"]

\* null_conn_t::recv
NullRecv(p, n) ==
    CASE ~p.conn.upstream -> [p EXCEPT !.crash = "assert_upstream"]
      [] p.conn.upstream /\ ~p.ckt.upbuf -> [p EXCEPT !.crash = "null_upbuf"]
      [] OTHER -> [p EXCEPT !.got = n]

\* null_circuit_t::add_downstream
AddDownstream(p) ==
    [p EXCEPT !.conn.st = "open", !.conn.upstream = TRUE,
              !.ckt.downstream = TRUE]

-----------------------------------------------------------------------------
(* The process around them.                                                *)

Init ==
    /\ mode \in Modes
    /\ proc = [s \in Sides |-> [listening |-> TRUE, shutting_down |-> FALSE,
                                cleanup |-> FALSE, run |-> "running",
                                crash |-> "no", asked |-> {}]]
    /\ link = [s \in Sides |-> [k \in Streams |-> NoLink]]
    /\ wrote = [s \in Sides |-> [k \in Streams |-> 0]]
    /\ ended = [s \in Sides |-> [k \in Streams |-> FALSE]]
    /\ broken = [k \in Streams |-> FALSE]
    /\ faults = 0

Running(s) == proc[s].run \in {"running", "exiting"}
Conns(s) == {k \in Streams : link[s][k].conn.st = "open"}
Circuits(s) == {k \in Streams : link[s][k].ckt.st = "open"}
Waiting(s) == {k \in Streams : "closed" \in {link[s][k].ckt.st, link[s][k].conn.st}}

\* A callback leaves stream k of s as p; hit says that an error broke it.
After(s, k, p, hit) ==
    /\ link' = [link EXCEPT ![s][k] = [p EXCEPT !.event = FALSE]]
    /\ proc' = IF p.crash # "no"
               THEN [proc EXCEPT ![s].run = "crashed", ![s].crash = p.crash]
               ELSE [proc EXCEPT ![s].cleanup =
                        @ \/ (p.event /\ Waiting(s) \ {k} = {})]
    /\ broken' = [broken EXCEPT ![k] = @ \/ hit]
    /\ UNCHANGED <<mode, wrote, ended>>

Callback(s, k, p) == After(s, k, p, FALSE) /\ UNCHANGED faults
ErrorCallback(s, k, p) == After(s, k, p, TRUE)

\* Something outside the process goes wrong.
Faulty(kind) == kind \in FaultKinds /\ faults < MaxFaults /\ faults' = faults + 1

-----------------------------------------------------------------------------
(* The programs at the two ends.                                           *)

\* The program can write until it has closed its side or lost its socket.
HasSocket(s, k) == link[s][k].ckt.st \in {"open", "closed"} /\ link[s][k].ckt.upbuf

Write(s, k) ==
    /\ HasSocket(s, k) /\ ~ended[s][k] /\ wrote[s][k] < Offer[s]
    /\ wrote' = [wrote EXCEPT ![s][k] = @ + 1]
    /\ UNCHANGED <<mode, proc, link, ended, broken, faults>>

Finish(s, k) ==
    /\ HasSocket(s, k) /\ ~ended[s][k]
    /\ ended' = [ended EXCEPT ![s][k] = TRUE]
    /\ UNCHANGED <<mode, proc, link, wrote, broken, faults>>

-----------------------------------------------------------------------------
(* Listeners and outbound connections.                                     *)

\* create_one_outbound_connection: refused at the limit on connections.
CanCreateConn(s) == Cardinality(Conns(s)) < MaxConns

\* conn_create, which asserts that the process is not shutting down.
CreateConn(s, p) ==
    IF proc[s].shutting_down THEN [p EXCEPT !.crash = "assert_shutdown"]
    ELSE AddDownstream(p)

\* client_listener_cb
ClientAccept(k) ==
    LET opened == [NoLink EXCEPT !.ckt.st = "open", !.ckt.upbuf = TRUE,
                                 !.ckt.connected = TRUE]
    IN  /\ Running("client") /\ proc["client"].listening
        /\ link["client"][k].ckt.st = "none"
        /\ IF mode = "socks"
           THEN Callback("client", k, [opened EXCEPT !.ckt.socks = "wait",
                                                     !.ckt.enabled = Both])
           ELSE IF CanCreateConn("client")
           THEN \/ Callback("client", k, CreateConn("client", opened))
                \/ Faulty("connect") /\ ErrorCallback("client", k, NullCircuitClose(opened))
           ELSE ErrorCallback("client", k, NullCircuitClose(opened))
                /\ UNCHANGED faults

\* socks_read_cb when the request is complete: create_outbound_connections_socks.
SocksConnect(k) ==
    LET p == [link["client"][k] EXCEPT !.ckt.socks = "have", !.ckt.enabled = {}]
    IN  /\ Running("client")
        /\ link["client"][k].ckt.st = "open"
        /\ link["client"][k].ckt.socks = "wait"
        /\ \/ Callback("client", k, CreateConn("client", p))
           \/ Faulty("connect") /\ ErrorCallback("client", k, NullCircuitClose(p))

\* socks_read_cb when the request is broken, or not a CONNECT.
SocksRefuse(k) ==
    LET p == link["client"][k]
    IN  /\ Running("client") /\ p.ckt.st = "open" /\ p.ckt.socks = "wait"
        /\ \/ ErrorCallback("client", k, NullCircuitClose(p))
           \/ ErrorCallback("client", k, CircuitDoFlush(
                  [p EXCEPT !.ckt.socks = "sent", !.ckt.enabled = {"write"},
                            !.ckt.reply = TRUE]))
        /\ UNCHANGED faults

\* server_listener_cb, with maybe_open_upstream, which ignores the result of
\* circuit_open_upstream.
ServerAccept(k) ==
    LET opened == [AddDownstream(NoLink) EXCEPT !.ckt.st = "open",
                      !.conn.connected = TRUE, !.conn.enabled = Both]
    IN  /\ Running("server") /\ proc["server"].listening
        /\ link["server"][k].conn.st = "none"
        /\ link["client"][k].conn.st = "open" /\ ~link["client"][k].conn.failed
        /\ \/ Callback("server", k, [opened EXCEPT !.ckt.upbuf = TRUE])
           \/ Faulty("open") /\ ErrorCallback("server", k, opened)

\* Mutation: the new upstream connection is never enabled.
UpstreamConnectMute(k) ==
    LET p == link["server"][k]
    IN  /\ Running("server")
        /\ p.ckt.upbuf /\ ~p.ckt.connected /\ p.ckt.st \in {"open", "closed"}
        /\ Callback("server", k, [p EXCEPT !.ckt.connected = TRUE])

\* upstream_connect_cb, also for a circuit closed while it was connecting.
UpstreamConnect(k) ==
    LET p == link["server"][k]
        q == [p EXCEPT !.ckt.connected = TRUE, !.ckt.enabled = Both]
    IN  /\ Running("server")
        /\ p.ckt.upbuf /\ ~p.ckt.connected /\ p.ckt.st \in {"open", "closed"}
        /\ \/ Callback("server", k, IF p.ckt.pending_write_eof
                                    THEN CircuitRecvEof(q) ELSE q)
           \/ Faulty("connect") /\ ErrorCallback("server", k, NullCircuitClose(p))

\* The client's connection to the server is being set up.
Connecting(p) ==
    p.conn.st \in {"open", "closed"} /\ ~p.conn.connected /\ ~p.conn.failed

\* downstream_connect_cb, also for a connection closed while connecting.
DownstreamConnect(k) ==
    LET p == link["client"][k]
        q == [p EXCEPT !.ckt.enabled = Both, !.conn.enabled = Both,
                       !.conn.connected = TRUE]
    IN  /\ Running("client") /\ Connecting(p) /\ mode = "simple"
        /\ link["server"][k].conn.st # "none" \/ proc["server"].listening
        /\ Callback("client", k,
              IF ~p.conn.upstream \/ p.conn.write_eof THEN NullConnClose(p)
              ELSE IF p.ckt.pending_write_eof THEN CircuitRecvEof(q) ELSE q)

\* downstream_socks_connect_cb on success: reply, then regular behaviour,
\* beginning with what was read behind the SOCKS request.
SocksDownstreamConnect(k) ==
    LET p == link["client"][k]
        q == [p EXCEPT !.ckt.socks = "no", !.ckt.reply = TRUE,
                       !.ckt.enabled = Both, !.conn.enabled = Both,
                       !.conn.connected = TRUE]
    IN  /\ Running("client") /\ Connecting(p) /\ mode = "socks"
        /\ link["server"][k].conn.st # "none" \/ proc["server"].listening
        /\ \E n \in p.taken .. wrote["client"][k] :
              LET r == IF n > p.taken THEN NullSend(q, n) ELSE q
              IN  Callback("client", k,
                     IF ~p.conn.upstream THEN [p EXCEPT !.crash = "assert_circuit"]
                     ELSE IF p.ckt.pending_write_eof THEN CircuitRecvEof(r) ELSE r)

\* The connection cannot be set up: an error, or nobody listens any more.
DownstreamConnectFails(k) ==
    LET p == [link["client"][k] EXCEPT !.conn.failed = TRUE]
        refused == link["server"][k].conn.st = "none" /\ ~proc["server"].listening
    IN  /\ Running("client") /\ Connecting(link["client"][k])
        /\ IF refused THEN UNCHANGED faults ELSE Faulty("connect")
        /\ ErrorCallback("client", k,
              IF mode = "simple" THEN NullConnClose(p)
              ELSE IF ~p.conn.upstream THEN [p EXCEPT !.crash = "assert_circuit"]
              ELSE CircuitDoFlush([p EXCEPT !.ckt.socks = "sent", !.ckt.reply = TRUE,
                                            !.ckt.enabled = @ \cup {"write"}]))

-----------------------------------------------------------------------------
(* Traffic.                                                                *)

\* upstream_read_cb
UpstreamRead(s, k) ==
    LET p == link[s][k]
    IN  /\ Running(s) /\ p.ckt.st = "open" /\ p.ckt.socks = "no"
        /\ "read" \in p.ckt.enabled /\ p.ckt.connected
        /\ wrote[s][k] > p.taken
        /\ Callback(s, k, NullSend(p, wrote[s][k]))

\* upstream_event_cb at end of file; libevent then stops reading.
UpstreamEof(s, k) ==
    LET p == [link[s][k] EXCEPT !.ckt.enabled = @ \ {"read"}]
        q == CircuitSendEof(p)
    IN  /\ Running(s) /\ p.ckt.st = "open" /\ "read" \in link[s][k].ckt.enabled
        /\ ended[s][k] /\ (p.ckt.socks = "no" => wrote[s][k] = p.taken)
        /\ Callback(s, k, IF q.ckt.read_eof /\ q.ckt.write_eof
                          THEN NullCircuitClose(q) ELSE q)

\* upstream_event_cb on an error.
UpstreamError(s, k) ==
    LET p == link[s][k]
    IN  /\ Running(s) /\ p.ckt.st = "open" /\ p.ckt.enabled # {} /\ p.ckt.connected
        /\ Faulty("upstream")
        /\ ErrorCallback(s, k, NullCircuitClose(p))

\* The upstream output buffer drains; then upstream_flush_cb.
UpstreamFlush(s, k) ==
    LET p == link[s][k]
    IN  /\ Running(s) /\ p.ckt.st = "open" /\ "write" \in p.ckt.enabled
        /\ p.ckt.connected /\ ~UpOutputEmpty(p)
        /\ Callback(s, k, UpstreamFlushCb([p EXCEPT !.given = p.got,
                                                    !.ckt.reply = FALSE]))

\* The wire to s has more, or its end: the peer shut its side down, or its
\* socket is gone.
WireEnded(s, k) ==
    LET peer == link[Other(s)][k]
    IN  peer.shut_down \/ peer.conn.st = "deleted"

\* downstream_read_cb
DownstreamRead(s, k) ==
    LET p == [link[s][k] EXCEPT !.conn.ever_received = TRUE]
        n == link[Other(s)][k].sent
    IN  /\ Running(s) /\ p.conn.st = "open" /\ "read" \in p.conn.enabled
        /\ n > p.got
        /\ Callback(s, k, NullRecv(p, n))

\* Mutation: the peer's end of file closes the connection for both directions.
DownstreamEofCloses(s, k) ==
    LET p == [link[s][k] EXCEPT !.conn.read_eof = TRUE]
    IN  /\ Running(s) /\ p.conn.st = "open" /\ "read" \in p.conn.enabled
        /\ WireEnded(s, k) /\ link[Other(s)][k].sent = p.got
        /\ Callback(s, k, NullConnClose(p))

\* downstream_event_cb at end of file, with null_conn_t::recv_eof.
DownstreamEof(s, k) ==
    LET p == [link[s][k] EXCEPT !.conn.enabled = @ \ {"read"}]
        q == [(IF p.conn.upstream THEN CircuitRecvEof(p) ELSE p)
                 EXCEPT !.conn.read_eof = TRUE]
    IN  /\ Running(s) /\ p.conn.st = "open" /\ "read" \in link[s][k].conn.enabled
        /\ WireEnded(s, k) /\ link[Other(s)][k].sent = p.got
        /\ Callback(s, k, IF q.conn.write_eof THEN NullConnClose(q) ELSE q)

\* downstream_event_cb on an error; it needs no fault when the peer is gone.
DownstreamError(s, k) ==
    LET p == link[s][k]
        gone == \/ link[Other(s)][k].conn.st = "deleted"
                \/ ~Running(Other(s))
    IN  /\ Running(s) /\ p.conn.st = "open" /\ p.conn.connected
        /\ IF gone THEN UNCHANGED faults ELSE Faulty("downstream")
        /\ ErrorCallback(s, k, NullConnClose(p))

\* The connection's output buffer drains; then downstream_flush_cb.
DownstreamFlush(s, k) ==
    LET p == link[s][k]
    IN  /\ Running(s) /\ p.conn.st = "open" /\ "write" \in p.conn.enabled
        /\ p.conn.connected /\ ~DownOutputEmpty(p)
        /\ Callback(s, k, DownstreamFlushCb([p EXCEPT !.sent = p.taken]))

-----------------------------------------------------------------------------
(* Deferred deletion and shutdown.                                         *)

Deleted(p) ==
    [p EXCEPT !.ckt.st = IF @ = "closed" THEN "deleted" ELSE @,
              !.conn.st = IF @ = "closed" THEN "deleted" ELSE @]

\* Mutation: the loop is left although circuits are still open.
CleanupEager(s) ==
    /\ Running(s) /\ proc[s].cleanup
    /\ link' = [link EXCEPT ![s] = [k \in Streams |-> Deleted(link[s][k])]]
    /\ proc' = [proc EXCEPT ![s].cleanup = FALSE,
                   ![s].run = IF proc[s].shutting_down THEN "exiting" ELSE @]
    /\ UNCHANGED <<mode, wrote, ended, broken, faults>>

\* close_cleanup_cb; the last one ends the loop and frees the global state.
Cleanup(s) ==
    /\ Running(s) /\ proc[s].cleanup
    /\ link' = [link EXCEPT ![s] = [k \in Streams |-> Deleted(link[s][k])]]
    /\ proc' = [proc EXCEPT ![s].cleanup = FALSE,
                   ![s].run = IF /\ proc[s].shutting_down
                                 /\ Circuits(s) = {} /\ Conns(s) = {}
                              THEN "exiting" ELSE @]
    /\ UNCHANGED <<mode, wrote, ended, broken, faults>>

\* Mutation: the connections a closed circuit leaves behind are forgotten.
CloseAllCircuitsOnly(p) == IF p.ckt.st = "open" THEN NullCircuitClose(p) ELSE p

\* conn_start_shutdown(1): every circuit is closed, then every connection.
CloseAll(p) ==
    LET q == IF p.ckt.st = "open" THEN NullCircuitClose(p) ELSE p
    IN  IF q.conn.st = "open" THEN NullConnClose(q) ELSE q

\* handle_signal_cb or stdin_detect_eof_cb: start_shutdown.  After the last
\* cleanup the loop may take one more turn (libevent 2.0), in which a request
\* finds the global state freed.
Shutdown(s, how) ==
    /\ Running(s) /\ how \in Shutdowns \ proc[s].asked
    /\ faults < MaxFaults /\ faults' = faults + 1
    /\ IF proc[s].run = "exiting"
       THEN /\ proc' = [proc EXCEPT ![s].run = "crashed", ![s].crash = "freed_state"]
            /\ UNCHANGED link
       ELSE /\ proc' = [proc EXCEPT ![s].listening = FALSE, ![s].asked = @ \cup {how},
                           ![s].shutting_down = TRUE, ![s].cleanup = TRUE]
            /\ link' = IF how = "stdin" THEN link
                       ELSE [link EXCEPT ![s] = [k \in Streams |->
                                [CloseAll(link[s][k]) EXCEPT !.event = FALSE]]]
    /\ broken' = [k \in Streams |-> broken[k] \/ how = "signal"]
    /\ UNCHANGED <<mode, wrote, ended>>

\* event_base_dispatch returns and main cleans up.
LoopExit(s) ==
    /\ proc[s].run = "exiting"
    /\ proc' = [proc EXCEPT ![s].run = "exited"]
    /\ UNCHANGED <<mode, link, wrote, ended, broken, faults>>

ProgramNext == \E s \in Sides, k \in Streams : Write(s, k) \/ Finish(s, k)

LoopStep(s) ==
    \/ \E k \in Streams :
          \/ UpstreamRead(s, k) \/ UpstreamEof(s, k) \/ UpstreamFlush(s, k)
          \/ DownstreamRead(s, k) \/ DownstreamEof(s, k) \/ DownstreamFlush(s, k)
          \/ s = "client" /\ (DownstreamConnect(k) \/ SocksDownstreamConnect(k))
          \/ s = "server" /\ (ServerAccept(k) \/ UpstreamConnect(k))
    \/ Cleanup(s)
    \/ LoopExit(s)

Next ==
    \/ ProgramNext
    \/ \E k \in Streams : \/ ClientAccept(k) \/ SocksConnect(k) \/ SocksRefuse(k)
                          \/ DownstreamConnectFails(k)
    \/ \E s \in Sides : LoopStep(s)
    \/ \E s \in Sides, k \in Streams : UpstreamError(s, k) \/ DownstreamError(s, k)
    \/ \E s \in Sides, how \in Shutdowns : Shutdown(s, how)

Spec == Init /\ [][Next]_vars

\* The event loop serves what is ready, and lets the last cleanup end it.
FairSpec == Spec /\ \A s \in Sides : WF_vars(LoopStep(s))

-----------------------------------------------------------------------------
(* Properties.                                                             *)

\* No dangling pointer: a circuit and its connection point at each other or
\* not at all, and only while both are open.  Every close path (network.cc's
\* event and flush callbacks, null.cc's close and drop_downstream, shutdown)
\* has to break both pointers before the deferred deletion.
LinksAgree ==
    \A s \in Sides, k \in Streams :
        LET p == link[s][k]
        IN  proc[s].run # "crashed" =>
              /\ p.ckt.downstream = p.conn.upstream
              /\ p.conn.upstream => p.ckt.st = "open" /\ p.conn.st = "open"

\* Whatever waits for deletion has a cleanup event coming: close() may leave
\* out event_active only when an earlier close has done it.
ClosedAreCollected ==
    \A s \in Sides : Running(s) /\ Waiting(s) # {} => proc[s].cleanup

\* The loop ends only with nothing left, as ~conn_global_state asserts.
ExitIsClean ==
    \A s \in Sides : proc[s].run \in {"exiting", "exited"} =>
        /\ ~proc[s].listening
        /\ \A k \in Streams : {link[s][k].ckt.st, link[s][k].conn.st} \subseteq {"none", "deleted"}

\* A program reads end of file only after the other program's end of file and
\* all its data, unless an error, a refusal or a forced shutdown broke the
\* stream: shutdown() must wait for the buffers on every path.
EndOfFileTruthful ==
    \A s \in Sides, k \in Streams :
        link[s][k].shut_up =>
            \/ ended[Other(s)][k] /\ link[s][k].given = wrote[Other(s)][k]
            \/ broken[k]

\* A process fails an assertion or follows a null pointer only if an error
\* broke a stream or a shutdown was under way.
CrashNeedsError ==
    \A s \in Sides : proc[s].crash # "no" =>
        proc[s].shutting_down \/ \E k \in Streams : broken[k]

\* connections.cc:230, "Drain the transmit queue and send a TCP-level EOF
\* indication to DEST": a linked connection that counts as having sent its
\* end of file has shut its socket down.
DrainedThenEof ==
    \A s \in Sides, k \in Streams :
        LET p == link[s][k] IN p.conn.upstream /\ p.conn.write_eof => p.shut_down

\* A signal ends the process, whatever the streams are doing.
SignalEnds ==
    \A s \in Sides :
        "signal" \in proc[s].asked ~> proc[s].run \in {"exited", "crashed"}

\* What a program writes reaches the other program, unless the stream breaks,
\* a process is told to stop, or the SOCKS request is never completed.
DataDelivered ==
    \A s \in Sides, k \in Streams :
        wrote[s][k] > link[Other(s)][k].given ~>
            \/ wrote[s][k] = link[Other(s)][k].given
            \/ broken[k] \/ \E t \in Sides : proc[t].shutting_down
            \/ link["client"][k].ckt.socks # "no"
=============================================================================
