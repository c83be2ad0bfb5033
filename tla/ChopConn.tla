------------------------------ MODULE ChopConn ------------------------------
(***************************************************************************)
(* The connections of one chop circuit (protocol/chop.cc), in one process: *)
(* how connections are opened, shaken hands on, attached to the circuit,   *)
(* dropped from it, flushed, closed, or handed to the transparent proxy    *)
(* (transparent_proxy.cc).  ChopCircuit models the blocks; here a block is *)
(* only "something was written", perhaps with the FIN.                     *)
(*                                                                         *)
(* The steg module of a connection is "plain" (nosteg), "turns"            *)
(* (nosteg_rr: the client speaks once, the server answers once) or "http"  *)
(* (turns, and the client expects the server to close).  The peer is the   *)
(* environment.  A callback is an action; the calls it makes are operators *)
(* on the record of all connections and the circuit.  What a callback has  *)
(* closed is gone at once here: close() disables the bufferevent, whose    *)
(* callbacks are not deferred, and deletes the timers, so that a closed    *)
(* object is not called again, and it does not matter when                 *)
(* close_cleanup_cb, an event of low priority, deletes it (see Relay).     *)
(***************************************************************************)
EXTENDS Integers, FiniteSets

CONSTANTS Conns,        \* connections of the process
          Roles,        \* which end of the circuit it may be
          Stegs,        \* the steg modules it may be configured with
          Proxy,        \* whether a transparent proxy may be configured
          MaxMessages,  \* steg messages the peer sends on a connection
          MaxConn,      \* the limit on connections in send()
          FaultKinds,   \* which faults happen: see Faulty
          MaxFaults     \* how many

ASSUME ConnAssumption ==
    /\ Roles \subseteq {"client", "server"}
    /\ Stegs \subseteq {"plain", "turns", "http"}
    /\ Proxy \subseteq BOOLEAN
    /\ MaxMessages \in Nat /\ MaxFaults \in Nat /\ MaxConn \in Nat \ {0}

VARIABLES setup,     \* role, steg module, and whether there is a proxy
          conn,      \* conn[c]
          ckt,       \* the circuit
          table,     \* its entry in config->circuits: absent, null or ckt
          crash,     \* the assertion or invalid access that ended the process
          stopping,  \* conn_start_shutdown: no, graceful or forced
          faults     \* the kinds of fault that have happened, each at most once

vars == <<setup, conn, ckt, table, crash, stopping, faults>>

Client == setup.role = "client"
TurnTaking == setup.steg \in {"turns", "http"}

-----------------------------------------------------------------------------
(* State.  b_out is the proxy's connection to the cover server: "linked"   *)
(* to the connection it serves, "finishing" its output, or gone; choked    *)
(* and b_choked: the proxy has stopped reading the one or the other.  can: *)
(* it is this side's turn, for a server that it has heard a request and    *)
(* not answered.  fits: the covers of the connection's type have room for  *)
(* a block.  reset: history, an RST has come.                              *)

NoConn == [st |-> "none", up |-> FALSE, connected |-> FALSE, hs |-> FALSE,
           can |-> FALSE, did |-> FALSE, timer |-> FALSE, out |-> FALSE,
           read_eof |-> FALSE, write_eof |-> FALSE, pending |-> FALSE,
           ever |-> FALSE, nomore |-> FALSE, shut |-> FALSE, peer_eof |-> FALSE,
           greeted |-> FALSE, messages |-> 0, proxied |-> "no",
           b_out |-> "none", b_out_full |-> FALSE, choked |-> FALSE,
           b_choked |-> FALSE, fits |-> TRUE, wrong |-> {}]

NoCkt == [st |-> "none", up |-> "none", sent_fin |-> FALSE,
          received_fin |-> FALSE, upstream_eof |-> FALSE, read_eof |-> FALSE,
          write_eof |-> FALSE, pending |-> FALSE, out |-> FALSE,
          flush |-> FALSE, axe |-> FALSE, axed |-> FALSE, reset |-> FALSE]

Now == [conn |-> conn, ckt |-> ckt, table |-> table, crash |-> crash]
Downstreams(x) == {c \in Conns : x.conn[c].up}
Crashed(x, why) == [x EXCEPT !.crash = IF @ = "no" THEN why ELSE @]

-----------------------------------------------------------------------------
(* Closing and flushing.                                                   *)

\* chop_conn_t::close after unlinking; close_cleanup_cb follows.
Gone(k) == [k EXCEPT !.st = "gone", !.up = FALSE, !.timer = FALSE, !.out = FALSE]

\* conn_do_flush on a connection that has no circuit any more.
FlushUnlinked(k) ==
    LET p == [k EXCEPT !.up = FALSE, !.pending = TRUE]
    IN  IF p.out \/ ~(p.connected \/ p.ever) THEN p
        ELSE IF p.read_eof THEN Gone(p) ELSE [p EXCEPT !.write_eof = TRUE]

\* Mutation: the id of a closed circuit is forgotten.
CktCloseErases(x) ==
    IF x.table # "ckt" THEN Crashed(x, "not_in_table")
    ELSE [x EXCEPT !.conn = [c \in Conns |-> IF @[c].up THEN FlushUnlinked(@[c]) ELSE @[c]],
                   !.ckt = [@ EXCEPT !.st = "gone", !.flush = FALSE, !.axe = FALSE],
                   !.table = "absent"]

\* chop_circuit_t::close: unlink and flush every connection, keep the id as
\* stale, then circuit_t::close.
CktClose(x) ==
    IF x.table # "ckt" THEN Crashed(x, "not_in_table")
    ELSE [x EXCEPT !.conn = [c \in Conns |-> IF @[c].up THEN FlushUnlinked(@[c]) ELSE @[c]],
                   !.ckt = [@ EXCEPT !.st = "gone", !.flush = FALSE, !.axe = FALSE],
                   !.table = "null"]

\* upstream_flush_cb
UpFlushCb(x) ==
    IF x.ckt.out \/ x.ckt.up # "connected" \/ ~x.ckt.pending THEN x
    ELSE LET y == [x EXCEPT !.ckt.write_eof = TRUE]
         IN  IF y.ckt.read_eof THEN CktClose(y) ELSE y

\* circuit_do_flush
CktDoFlush(x) == UpFlushCb([x EXCEPT !.ckt.pending = TRUE])

\* Mutation: the last connection leaves no timer behind.
DropDownstreamNoTimer(x, c) ==
    LET y == [x EXCEPT !.conn[c].up = FALSE]
    IN  IF Downstreams(y) = {} /\ y.ckt.sent_fin /\ y.ckt.received_fin
        THEN CktDoFlush(y) ELSE y

\* chop_circuit_t::drop_downstream
DropDownstream(x, c) ==
    LET y == [x EXCEPT !.conn[c].up = FALSE]
    IN  IF Downstreams(y) # {} THEN y
        ELSE IF y.ckt.sent_fin /\ y.ckt.received_fin THEN CktDoFlush(y)
        ELSE IF Client THEN [y EXCEPT !.ckt.flush = TRUE]
        ELSE [y EXCEPT !.ckt.axe = TRUE]

\* emancipate_from_upstream
Emancipate(x, c) ==
    LET y == [x EXCEPT !.conn[c].timer = FALSE]
    IN  IF y.conn[c].up THEN DropDownstream(y, c) ELSE y

\* Mutation: close() leaves the circuit's pointer behind.
ConnCloseLinked(x, c) == [x EXCEPT !.conn[c].st = "gone", !.conn[c].timer = FALSE]

\* chop_conn_t::close, conn_t::close
ConnClose(x, c) ==
    LET y == Emancipate(x, c) IN [y EXCEPT !.conn[c] = Gone(@)]

\* downstream_flush_cb
DownFlushCb(x, c) ==
    LET k == x.conn[c]
        due == ~k.out /\ ((k.pending /\ k.connected) \/ (~k.up /\ k.ever))
        y == [x EXCEPT !.conn[c].write_eof = TRUE]
    IN  IF ~due THEN x ELSE IF k.read_eof THEN ConnClose(y, c) ELSE y

\* conn_do_flush
ConnDoFlush(x, c) == DownFlushCb([x EXCEPT !.conn[c].pending = TRUE], c)

\* circuit_recv_eof
CktRecvEof(x) ==
    LET y == [x EXCEPT !.ckt.pending = TRUE]
    IN  IF y.ckt.up # "connected" \/ y.ckt.out THEN y
        ELSE [y EXCEPT !.ckt.write_eof = TRUE]

\* Mutation: a circuit that has connections again keeps its axe timer.
AddDownstreamKeepsAxe(x, c) == [x EXCEPT !.conn[c].up = TRUE]

\* chop_circuit_t::add_downstream
AddDownstream(x, c) == [x EXCEPT !.conn[c].up = TRUE, !.ckt.axe = FALSE]

-----------------------------------------------------------------------------
(* Steg modules, as nosteg, nosteg_rr and the HTTP modules behave towards  *)
(* their connection.                                                       *)

\* transmit_room > 0: nosteg always has room, nosteg_rr and HTTP in their turn,
\* an HTTP server if its covers have room for the smallest block, too.
HasRoom(k) ==
    TurnTaking => k.can /\ (Client \/ setup.steg # "http" \/ k.fits)

\* What is wrong about writing to a connection now.
Wrongs(k) == (IF k.shut THEN {"shut"} ELSE {}) \cup (IF k.proxied # "no" THEN {"proxied"} ELSE {})

\* nosteg_steg_t::transmit
NostegTransmit(k) == [k EXCEPT !.out = TRUE, !.wrong = @ \cup Wrongs(k)]

\* nosteg_rr_steg_t::transmit, with cease_transmission.
NostegRrTransmit(k) ==
    [NostegTransmit(k) EXCEPT !.can = FALSE, !.did = TRUE, !.nomore = TRUE,
                              !.timer = FALSE, !.pending = TRUE]

\* steg->transmit, the handshake in front of the first block; the must-send
\* timer is then off.
StegTransmit(k) ==
    [(IF TurnTaking THEN NostegRrTransmit(k) ELSE NostegTransmit(k))
        EXCEPT !.hs = TRUE, !.timer = FALSE]

\* Mutation: a server that has answered is asked for another answer.
NostegRrReceiveOwing(k) ==
    IF ~Client THEN [k EXCEPT !.can = ~k.did, !.timer = TRUE] ELSE k

\* nosteg_rr_steg_t::receive: a server that has not spoken will, soon.
NostegRrReceive(k) ==
    IF ~Client /\ ~k.did THEN [k EXCEPT !.can = TRUE, !.timer = TRUE] ELSE k

\* http_server_receive: expect_close and transmit_soon, whatever was said before.
HttpServerReceive(k) == [k EXCEPT !.can = ~k.did, !.timer = TRUE, !.read_eof = TRUE]

\* steg->receive; an HTTP client expects the server to close, too.
StegReceive(k) ==
    CASE setup.steg = "turns"            -> NostegRrReceive(k)
      [] setup.steg = "http" /\ Client   -> [k EXCEPT !.read_eof = TRUE]
      [] setup.steg = "http" /\ ~Client  -> HttpServerReceive(k)
      [] OTHER                           -> k

\* send_targeted on c; the block may be the FIN.
Emit(x, c, fin) ==
    [x EXCEPT !.conn[c] = StegTransmit(@),
              !.ckt.sent_fin = @ \/ fin, !.ckt.read_eof = @ \/ fin]

FinDue(x) == x.ckt.upstream_eof /\ ~x.ckt.sent_fin
FinChoices(x) == IF FinDue(x) THEN BOOLEAN ELSE {FALSE}

\* chop_conn_t::send, for a must-send timer or a handshake; ok says whether
\* the transmission succeeds.
ConnSend(x, c, ok, fin) ==
    LET y == [x EXCEPT !.conn[c].timer = FALSE]
        k == y.conn[c]
    IN  IF k.write_eof THEN y
        ELSE IF ~HasRoom(k) THEN Crashed(y, "cannot_send")
        ELSE IF k.up
        THEN IF ok THEN Emit(y, c, fin) ELSE ConnDoFlush(DropDownstream(y, c), c)
        ELSE IF ok THEN [y EXCEPT !.conn[c] = StegTransmit(@)] ELSE ConnDoFlush(y, c)

\* conn_send_eof on a connection's record.
SentEof(k) ==
    IF k.out \/ k.write_eof THEN [k EXCEPT !.pending = TRUE]
    ELSE [k EXCEPT !.pending = TRUE, !.write_eof = TRUE, !.shut = TRUE]

\* Mutation: the connections are shut down with their replies unsaid.
EofWalkMute(x, bad) ==
    [x EXCEPT !.conn = [c \in Conns |-> IF @[c].up THEN SentEof(@[c]) ELSE @[c]]]

\* The walk of check_for_eof over downstreams: send() what is owed, then the
\* end.  A connection that must send and fails is erased from the set under the
\* iterator; one that must and has no room is the end of the process.
EofWalk(x, bad) ==
    LET due == {c \in Downstreams(x) : x.conn[c].timer /\ ~x.conn[c].write_eof}
        said(c, k) == IF c \in due THEN StegTransmit(k) ELSE [k EXCEPT !.timer = FALSE]
    IN  IF \E c \in due : ~HasRoom(x.conn[c]) THEN Crashed(x, "cannot_send")
        ELSE IF bad \cap due # {} THEN Crashed(x, "iterator")
        ELSE [x EXCEPT !.conn = [c \in Conns |->
                IF @[c].up THEN SentEof(said(c, @[c])) ELSE @[c]]]

\* check_for_eof
CheckForEof(x, bad) ==
    IF x.ckt.sent_fin /\ x.ckt.received_fin
    THEN EofWalk([x EXCEPT !.ckt.flush = FALSE], bad)
    ELSE [x EXCEPT !.ckt.flush = @ \/ (Client /\ x.ckt.st = "open")]

-----------------------------------------------------------------------------
(* chop_circuit_t::send, as the set of its outcomes.  err: it returned -1. *)

\* conn_create for a connection to the server, which must not come late.
Opened(x, new) ==
    IF stopping # "no" THEN Crashed(x, "assert_shutdown")
    ELSE [x EXCEPT !.conn = [c \in Conns |-> IF c \in new
             THEN [NoConn EXCEPT !.st = "open", !.up = TRUE, !.can = TurnTaking]
             ELSE @[c]], !.ckt.axe = FALSE]

\* circuit_reopen_downstreams, or nothing when the process is at its limit;
\* when no connection can be opened the circuit is closed.
Reopened(x, canFail) ==
    LET fresh == {c \in Conns : x.conn[c].st = "none"}
    IN  (IF fresh = {} THEN {x} ELSE {Opened(x, {c}) : c \in fresh})
        \cup (IF canFail THEN {CktClose(x)} ELSE {})

\* No connection takes a block: the client opens more, or waits for the axe.
NoTarget(x, canFail) ==
    IF Client /\ Cardinality(Downstreams(x)) < MaxConn THEN Reopened(x, canFail)
    ELSE {[x EXCEPT !.ckt.axe = TRUE]}

\* pick_connection
Targets(x) == {c \in Downstreams(x) : x.conn[c].connected /\ HasRoom(x.conn[c])}

\* The blocks of one send(): on some connection, on none, or there is none.
Tried(x, canDrop) ==
    IF Targets(x) = {} THEN NoTarget(x, canDrop)
    ELSE {Emit(x, c, fin) : c \in Targets(x), fin \in FinChoices(x)} \cup {x}

CktSend(x0, canFail, canDrop) ==
    LET x == [x0 EXCEPT !.ckt.flush = FALSE]
        bads == IF canFail THEN {{}, Conns} ELSE {{}}
    IN  {[x |-> CheckForEof(y, bad), err |-> FALSE] : y \in Tried(x, canDrop), bad \in bads}
        \cup {[x |-> x, err |-> TRUE] : c \in IF canFail THEN Targets(x) ELSE {}}

\* circuit_send
Sent(x, canFail, canDrop) ==
    {IF o.err THEN CktClose(o.x) ELSE o.x : o \in CktSend(x, canFail, canDrop)}

-----------------------------------------------------------------------------
(* The process.                                                            *)

Init ==
    /\ setup \in [role : Roles, steg : Stegs, proxy : Proxy]
    /\ \E c \in Conns :
          conn = [d \in Conns |-> IF Client /\ d = c
                     THEN [NoConn EXCEPT !.st = "open", !.up = TRUE, !.can = TurnTaking]
                     ELSE NoConn]
    /\ ckt = IF Client THEN [NoCkt EXCEPT !.st = "open", !.up = "connected"] ELSE NoCkt
    /\ table = IF Client THEN "ckt" ELSE "absent"
    /\ crash = "no" /\ stopping = "no" /\ faults = {}

Alive == crash = "no"

Became(x) ==
    /\ conn' = x.conn /\ ckt' = x.ckt /\ table' = x.table /\ crash' = x.crash
    /\ UNCHANGED <<setup, stopping>>

CanFault(kind) == kind \in FaultKinds /\ kind \notin faults /\ Cardinality(faults) < MaxFaults

\* A callback whose outcome is x, with a fault of this kind or without.
Callback(x) == Became(x) /\ UNCHANGED faults
Faulty(kind, x) == CanFault(kind) /\ Became(x) /\ faults' = faults \cup {kind}

\* One of a set of outcomes; the ones only a fault produces cost a fault.
Outcome(kind, normal, all) ==
    \/ \E x \in normal : Callback(x)
    \/ \E x \in all \ normal : Faulty(kind, x)

Sends(x) == Outcome("transmit", Sent(x, FALSE, FALSE), Sent(x, TRUE, TRUE))

\* server_listener_cb
Accept(c) ==
    /\ Alive /\ ~Client /\ stopping = "no" /\ conn[c].st = "none"
    /\ Callback([Now EXCEPT !.conn[c] = [NoConn EXCEPT !.st = "open", !.connected = TRUE]])

\* downstream_connect_cb, with chop_conn_t::handshake.
Connect(c) ==
    LET up == [Now EXCEPT !.conn[c].connected = TRUE]
        done(y) == IF y.ckt.pending /\ y.crash = "no" THEN CktRecvEof(y) ELSE y
    IN  /\ Alive /\ Client /\ conn[c].st = "open" /\ ~conn[c].connected
        /\ IF ~conn[c].up \/ conn[c].write_eof THEN Callback(ConnClose(Now, c))
           ELSE IF conn[c].hs THEN Callback(done(up))
           ELSE \E fin \in FinChoices(Now) :
                   \/ Callback(done(ConnSend(up, c, TRUE, fin)))
                   \/ Faulty("transmit", done(ConnSend(up, c, FALSE, fin)))

\* downstream_event_cb on an error or a failed connection.
Error(c) ==
    /\ Alive /\ conn[c].st = "open" /\ conn[c].proxied = "no"
    /\ Faulty("conn", ConnClose(Now, c))

\* The output buffer drains; downstream_flush_cb unless the proxy has the
\* connection's callbacks.
Flush(c) ==
    LET x == [Now EXCEPT !.conn[c].out = FALSE]
    IN  /\ Alive /\ conn[c].st = "open" /\ conn[c].connected /\ conn[c].out
        /\ conn[c].proxied = "no"
        /\ Callback(DownFlushCb(x, c))

\* must_send_timeout
MustSend(c) ==
    /\ Alive /\ conn[c].timer
    /\ \E fin \in FinChoices(Now) :
          \/ Callback(ConnSend(Now, c, TRUE, fin))
          \/ Faulty("transmit", ConnSend(Now, c, FALSE, fin))

-----------------------------------------------------------------------------
(* Receiving.                                                              *)

\* transparentize_connection, once the proxy is connecting to the cover server:
\* it has the connection's callbacks and hands on what has been read; if that
\* fills b_out's buffer, the connection is not read until it has drained.
Transparentized(x, c, full) ==
    [x EXCEPT !.conn[c].proxied = "linked", !.conn[c].b_out = "linked",
              !.conn[c].b_out_full = TRUE, !.conn[c].choked = full]

\* A connection the chop server cannot make sense of; the proxy closes it, too,
\* if it cannot begin to connect.
Rejected(x, c) ==
    {ConnClose(x, c)}
    \cup {Transparentized(x, c, full) : full \in IF setup.proxy THEN BOOLEAN ELSE {}}

\* recv_block acts on an RST as it comes in.
GotReset(x) == [CktRecvEof(x) EXCEPT !.ckt.reset = TRUE]

\* process_queue after blocks came in: perhaps an RST, perhaps data, perhaps the
\* FIN.
Blocks(x, rst, data, fin) ==
    LET y == IF rst THEN GotReset(x) ELSE x
        got == [y EXCEPT !.ckt.out = @ \/ data]
        eof == IF fin THEN [CktRecvEof(got) EXCEPT !.ckt.received_fin = TRUE] ELSE got
    IN  IF data /\ y.ckt.write_eof THEN Crashed(y, "write_after_eof") ELSE eof

\* maybe_send_ack
Acked(x) == {x} \cup {Emit(x, c, FALSE) : c \in Targets(x)}

\* send() after it, if there is anything left to send.
SentOn(x, canFail) ==
    UNION {CktSend(y, canFail, canFail) : y \in IF x.ckt.sent_fin THEN {} ELSE Acked(x)}

AfterQueue(x, canFail) ==
    SentOn(x, canFail)
    \cup {[x |-> CheckForEof(y, {}), err |-> FALSE] : y \in Acked(x)}
    \cup {[x |-> x, err |-> TRUE] : c \in IF canFail THEN Targets(x) ELSE {}}

\* The rest of recv() on an attached connection.
Processed(x, c, canFail) ==
    LET new == IF x.ckt.received_fin THEN {FALSE} ELSE BOOLEAN
        queue == {Blocks(x, r, d, f) : r \in BOOLEAN, d \in new, f \in new}
        after(y) == IF y.crash # "no" THEN {[x |-> y, err |-> FALSE]} ELSE AfterQueue(y, canFail)
    IN  {IF o.err THEN ConnClose(o.x, c) ELSE o.x : o \in UNION {after(y) : y \in queue}}

\* Mutation: a connection for a stale circuit is left alone.
StaleIgnored(x, c, ok) ==
    IF x.conn[c].timer THEN ConnSend(x, c, ok, FALSE) ELSE x

\* A connection for a circuit that is closed: answer if need be, and flush.
Stale(x, c, ok) ==
    LET y == IF x.conn[c].timer THEN ConnSend(x, c, ok, FALSE) ELSE x
    IN  IF y.crash = "no" THEN ConnDoFlush(y, c) ELSE y

\* recv_handshake found circuit_create's conditions met or not.
Created(x, c) ==
    IF stopping # "no" THEN Crashed(x, "assert_shutdown")
    ELSE AddDownstream([x EXCEPT !.ckt = [NoCkt EXCEPT !.st = "open", !.up = "connecting"],
                                 !.table = "ckt"], c)

\* A handshake for the circuit id is complete and valid.
Greeted(x0, c, canFail) ==
    LET x == [x0 EXCEPT !.conn[c].greeted = TRUE]
    IN  CASE x.table = "absent" -> LET y == Created(x, c)
                                   IN  IF y.crash = "no" THEN Processed(y, c, canFail) ELSE {y}
          [] x.table = "ckt" -> Processed(AddDownstream(x, c), c, canFail)
          [] x.table = "null" -> {Stale(x, c, TRUE)}

\* verify_and_extract: only what generate() made is a handshake, and an honest
\* client sends it once, in front of its first block.
Verified(k) == ~k.greeted

\* What the peer sends on c: a first message begins with a handshake.
Received(x, c, canFail) ==
    CASE x.conn[c].up -> Processed(x, c, canFail)
      [] ~x.conn[c].up /\ Client ->
            {IF x.conn[c].timer THEN Crashed(x, "must_send") ELSE ConnDoFlush(x, c)}
      [] ~x.conn[c].up /\ ~Client /\ Verified(x.conn[c]) -> Greeted(x, c, canFail)
      [] OTHER -> Rejected(Emancipate(x, c), c)

Readable(c) ==
    /\ Alive /\ conn[c].st = "open" /\ conn[c].connected
    /\ ~conn[c].peer_eof /\ conn[c].messages < MaxMessages

Heard(c) == [Now EXCEPT !.conn[c].ever = TRUE, !.conn[c].messages = @ + 1]

\* downstream_read_cb, chop_conn_t::recv
Recv(c) ==
    LET x == [Heard(c) EXCEPT !.conn[c] = StegReceive(@)]
    IN  /\ Readable(c) /\ conn[c].proxied = "no"
        /\ Outcome("transmit", Received(x, c, FALSE), Received(x, c, TRUE))

\* The peer is a stranger, or its message was damaged on the way.
RecvGarbage(c) ==
    LET x == Heard(c)
        y == [x EXCEPT !.conn[c] = StegReceive(@)]
    IN  /\ Readable(c) /\ conn[c].proxied = "no"
        /\ \E z \in (IF Client THEN {ConnClose(x, c)} ELSE Rejected(x, c))
                    \cup (IF conn[c].up \/ ~Client THEN {ConnClose(y, c)} ELSE {})
                    \cup (IF conn[c].up \/ Client THEN {} ELSE Rejected(Emancipate(y, c), c)) :
              Faulty("garbage", z)

\* recv_handshake when circuit_open_upstream fails: the id is in the table
\* with no circuit, and close() of the new circuit does not find itself.
RecvOpenFails(c) ==
    /\ Readable(c) /\ conn[c].proxied = "no" /\ ~Client /\ stopping = "no"
    /\ ~conn[c].up /\ ~conn[c].greeted /\ table = "absent"
    /\ Faulty("open", CktClose([Heard(c) EXCEPT !.table = "null"]))

EofDrops(k) == k.up /\ (ckt.sent_fin \/ k.nomore) /\ ~k.timer /\ ~k.out

\* downstream_event_cb at end of file, with recv_eof; part of a message may
\* be left over, which recv_eof calls an error and its caller ignores.
RecvEof(c) ==
    LET kept == IF EofDrops(conn[c]) THEN {Now, DropDownstream(Now, c)} ELSE {Now}
        done(y) == IF y.conn[c].write_eof THEN ConnClose(y, c)
                   ELSE [y EXCEPT !.conn[c].peer_eof = TRUE, !.conn[c].read_eof = TRUE]
    IN  /\ Alive /\ conn[c].st = "open" /\ conn[c].connected
        /\ ~conn[c].peer_eof /\ conn[c].proxied = "no"
        /\ \E y \in kept : Callback(done(y))

-----------------------------------------------------------------------------
(* Upstream and timers.                                                    *)

UpReadable == Alive /\ ckt.st = "open" /\ ckt.up = "connected" /\ ~ckt.upstream_eof

\* upstream_read_cb
UpRead == UpReadable /\ Sends(Now)

\* upstream_event_cb at end of file: send_eof.
UpEof ==
    LET x == [Now EXCEPT !.ckt.upstream_eof = TRUE]
        end(y) == IF y.crash = "no" /\ y.ckt.st = "open" /\ y.ckt.read_eof /\ y.ckt.write_eof
                  THEN CktClose(y) ELSE y
    IN  /\ UpReadable
        /\ Outcome("transmit", {end(y) : y \in Sent(x, FALSE, FALSE)},
                               {end(y) : y \in Sent(x, TRUE, TRUE)})

\* upstream_connect_cb
UpConnect ==
    LET x == [Now EXCEPT !.ckt.up = "connected"]
    IN  /\ Alive /\ ckt.st = "open" /\ ckt.up = "connecting"
        /\ Callback(IF ckt.pending THEN CktRecvEof(x) ELSE x)

UpError ==
    /\ Alive /\ ckt.st = "open" /\ Faulty("upstream", CktClose(Now))

\* The upstream buffer drains; upstream_flush_cb.
UpFlush ==
    /\ Alive /\ ckt.st = "open" /\ ckt.up = "connected" /\ ckt.out
    /\ Callback(UpFlushCb([Now EXCEPT !.ckt.out = FALSE]))

\* The largest cover of a type is disqualified, or there never was one: http
\* servers have no room on the connections that ask for the type.
CoversRunOut ==
    /\ Alive /\ ~Client /\ setup.steg = "http"
    /\ \E S \in SUBSET Conns \ {{}} :
          Faulty("covers", [Now EXCEPT !.conn = [c \in Conns |->
              [conn[c] EXCEPT !.fits = conn[c].fits /\ c \notin S]]])

FlushTimer == Alive /\ ckt.flush /\ Sends(Now)

AxeTimer == Alive /\ ckt.axe /\ Callback(CktDoFlush([Now EXCEPT !.ckt.axe = FALSE, !.ckt.axed = TRUE]))

-----------------------------------------------------------------------------
(* The transparent proxy.  Two bufferevents that are each other's context. *)

\* free_or_close
FreeIn(x, c) == [ConnClose(x, c) EXCEPT !.conn[c].proxied = "no"]
FreeOut(x, c) == [x EXCEPT !.conn[c].b_out = "gone", !.conn[c].b_out_full = FALSE]

\* readcb: from the connection to the cover server, perhaps filling b_out's
\* buffer.
ProxyRead(c) ==
    /\ Readable(c) /\ conn[c].proxied = "linked" /\ ~conn[c].choked
    /\ \E full \in BOOLEAN :
          Callback([Now EXCEPT !.conn[c].messages = @ + 1, !.conn[c].choked = full,
                               !.conn[c].b_out_full = TRUE])

\* b_out's callbacks after its partner was closed behind the proxy's back
\* use a pointer to freed memory.
Dangling(c) == conn[c].b_out = "linked" /\ conn[c].st = "gone"

\* b_out's output drains: drained_writecb or close_on_finished_writecb.
ProxyDrained(c) ==
    LET x == [Now EXCEPT !.conn[c].b_out_full = FALSE, !.conn[c].choked = FALSE]
    IN  /\ Alive /\ conn[c].b_out \in {"linked", "finishing"} /\ conn[c].b_out_full
        /\ Callback(IF conn[c].b_out = "finishing" THEN FreeOut(x, c)
                    ELSE IF Dangling(c) /\ conn[c].choked THEN Crashed(x, "dangling")
                    ELSE x)

\* The cover server answers: readcb on b_out, perhaps filling the connection's
\* buffer, after which b_out is not read until that has drained.
ProxyReply(c) ==
    /\ Alive /\ conn[c].b_out = "linked" /\ ~conn[c].b_choked
    /\ \E full \in BOOLEAN :
          Callback(IF Dangling(c) THEN Crashed(Now, "dangling")
                   ELSE [Now EXCEPT !.conn[c].out = TRUE, !.conn[c].b_choked = full])

\* eventcb on the connection: let b_out finish what is left, and close.  Nobody
\* hears the end of what is not read, only a failure to write.
ProxyEnd(c) ==
    LET x == FreeIn(Now, c)
    IN  /\ Alive /\ conn[c].st = "open" /\ conn[c].proxied # "no"
        /\ conn[c].proxied = "finishing" \/ conn[c].choked => conn[c].out
        /\ Callback(IF conn[c].b_out # "linked" THEN x
                    ELSE IF conn[c].b_out_full THEN [x EXCEPT !.conn[c].b_out = "finishing"]
                    ELSE FreeOut(x, c))

\* eventcb on b_out, also when its connection attempt fails.
ProxyCoverEnd(c) ==
    /\ Alive /\ conn[c].b_out \in {"linked", "finishing"}
    /\ conn[c].b_out = "finishing" \/ conn[c].b_choked => conn[c].b_out_full
    /\ Callback(IF conn[c].b_out = "finishing" THEN FreeOut(Now, c)
                ELSE IF Dangling(c) THEN Crashed(Now, "dangling")
                ELSE IF conn[c].out
                THEN [FreeOut(Now, c) EXCEPT !.conn[c].proxied = "finishing"]
                ELSE FreeOut(FreeIn(Now, c), c))

\* Mutation: nobody lets a choked b_out be read again.
ProxyFlushMute(c) ==
    LET x == [Now EXCEPT !.conn[c].out = FALSE]
    IN  /\ Alive /\ conn[c].st = "open" /\ conn[c].proxied # "no" /\ conn[c].out
        /\ Callback(IF conn[c].proxied = "finishing" THEN FreeIn(Now, c) ELSE x)

\* The connection's output drains under the proxy: drained_writecb or
\* close_on_finished_writecb.
ProxyFlush(c) ==
    LET x == [Now EXCEPT !.conn[c].out = FALSE, !.conn[c].b_choked = FALSE]
    IN  /\ Alive /\ conn[c].st = "open" /\ conn[c].proxied # "no" /\ conn[c].out
        /\ Callback(IF conn[c].proxied = "finishing" THEN FreeIn(Now, c) ELSE x)

-----------------------------------------------------------------------------
\* conn_start_shutdown: forced, every circuit and every connection is closed.
Shutdown(how) ==
    LET x == IF ckt.st = "open" THEN CktClose(Now) ELSE Now
        all == [x EXCEPT !.conn = [c \in Conns |->
                   IF @[c].st = "open" THEN Gone(@[c]) ELSE @[c]]]
    IN  /\ Alive /\ stopping = "no" /\ CanFault(how) /\ faults' = faults \cup {how}
        /\ stopping' = how
        /\ LET y == IF how = "forced" THEN all ELSE Now
           IN  conn' = y.conn /\ ckt' = y.ckt /\ table' = y.table /\ crash' = y.crash
        /\ UNCHANGED setup

ConnStep(c) ==
    \/ Accept(c) \/ Connect(c) \/ Error(c) \/ Flush(c) \/ MustSend(c)
    \/ Recv(c) \/ RecvGarbage(c) \/ RecvOpenFails(c) \/ RecvEof(c)

ProxyStep(c) ==
    \/ ProxyRead(c) \/ ProxyDrained(c) \/ ProxyReply(c)
    \/ ProxyEnd(c) \/ ProxyCoverEnd(c) \/ ProxyFlush(c)

Next ==
    \/ \E c \in Conns : ConnStep(c) \/ ProxyStep(c)
    \/ UpRead \/ UpEof \/ UpConnect \/ UpError \/ UpFlush
    \/ FlushTimer \/ AxeTimer \/ CoversRunOut
    \/ \E how \in {"graceful", "forced"} : Shutdown(how)

Spec == Init /\ [][Next]_vars

-----------------------------------------------------------------------------
(* Properties.                                                             *)

\* No circuit keeps a pointer to a deleted connection and no connection one to
\* a deleted circuit: the deferred deletion runs after every callback, so each
\* close path has to unlink both ways before it returns.
LinkedBothWays ==
    Alive => \A c \in Conns : conn[c].up => conn[c].st = "open" /\ ckt.st = "open"
                                            /\ table = "ckt"

\* A circuit that has lost its last connection is not forgotten: the client
\* will send again, the server's will be axed, unless both FINs have passed and
\* it only drains.  Every path that drops a connection has to see to it.
LonelyCircuitTimed ==
    (Alive /\ ckt.st = "open" /\ Downstreams(Now) = {}) =>
        \/ ckt.sent_fin /\ ckt.received_fin /\ ckt.pending
        \/ IF Client THEN ckt.flush ELSE ckt.axe \/ ckt.axed

\* The axe hangs over a server's circuit only while none of its connections has
\* room for a block: it has none, or all have had their say (send() arms the axe
\* with connections left, and add_downstream is what disarms it).
AxeOnlyWithoutRoom ==
    (Alive /\ ~Client /\ ckt.axe) => \A c \in Downstreams(Now) : ~HasRoom(conn[c])

\* "to preserve the cover protocol, we must send [a] reply to each [...] query":
\* a server whose turn it is on a connection is about to answer, the must-send
\* timer running, whatever the order in which FINs, ends of file and flushes
\* come.  Two things may cost the peer its reply: a failure of this or another
\* connection, and the end of the circuit, which shuts down or closes the
\* connections it still has.
TurnKept ==
    (Alive /\ ~Client) => \A c \in Conns :
        /\ conn[c].timer => conn[c].st = "open"
        /\ conn[c].can /\ ~conn[c].timer =>
              \/ faults \cap {"transmit", "conn", "garbage", "forced"} # {}
              \/ ckt.st = "gone" /\ (conn[c].st = "gone" \/ conn[c].write_eof)

\* chop.cc:1877-1881 (and 79-83), "then chop circuit/protocol should no longer
\* influence the status of the connection": chop writes nothing more into a
\* connection that the transparent proxy has taken over.
ProxiedIsFree == \A c \in Conns : "proxied" \notin conn[c].wrong

\* Nobody waits for good on the proxy: whichever of its two connections it has
\* stopped reading, the other has output whose draining starts it again, and one
\* that only finishes its output has output, whose draining closes it.
ChokedWillDrain ==
    \A c \in Conns :
        LET k == conn[c]
        IN  /\ k.st = "open" /\ k.proxied = "linked" =>
                  /\ k.b_out = "linked"
                  /\ k.choked => k.b_out_full
                  /\ k.b_choked => k.out
            /\ k.st = "open" /\ k.proxied = "finishing" => k.out
            /\ k.b_out = "finishing" => k.b_out_full

\* A connection whose peer has closed and that owes nothing is closed, not
\* kept: the one exception is recv_eof's drop_downstream on a circuit that has
\* sent its FIN, which unlinks the connection and leaves it open for good.
OrphansOnlyAfterFin ==
    Alive => \A c \in Conns :
        LET k == conn[c]
        IN  (/\ k.st = "open" /\ ~k.up /\ k.proxied = "no"
             /\ k.peer_eof /\ k.ever /\ ~k.out /\ ~k.timer) => ckt.sent_fin

\* A closed circuit's id stays known: a connection that arrives late for it is
\* turned away and never opens a second upstream connection under the old id.
NotRevived == [][ckt.st = "gone" => ckt'.st = "gone"]_vars

\* Each way the process can die has its cause: it never runs into one of its
\* assertions, asks a steg module to speak out of turn or follows a freed
\* pointer because of the order in which healthy connections come and go.  It
\* takes a circuit that does not open, a stop, the axe or an RST before data, a
\* failed transmission, or, for an HTTP server that must send and cannot, covers
\* that have run out or a second request on a connection.
CrashHasCause ==
    CASE crash = "not_in_table" -> "open" \in faults
      [] crash = "assert_shutdown" -> stopping = "graceful"
      [] crash = "write_after_eof" -> ckt.axed \/ ckt.reset
      [] crash = "cannot_send" ->
            /\ ~Client /\ setup.steg = "http"
            /\ "covers" \in faults \/ \E c \in Conns : conn[c].messages > 1
      [] crash = "iterator" -> "transmit" \in faults
      [] crash = "dangling" -> stopping = "forced" \/ "garbage" \in faults
      [] OTHER -> crash = "no"
=============================================================================
