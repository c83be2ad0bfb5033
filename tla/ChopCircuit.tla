---------------------------- MODULE ChopCircuit ----------------------------
(***************************************************************************)
(* Two chop circuits (protocol/chop.cc), the client's and the server's,    *)
(* that carry one upstream byte stream in each direction over              *)
(* steganographic connections.                                             *)
(*                                                                         *)
(* A circuit cuts its stream into numbered blocks, keeps every block in a  *)
(* transmit queue until it is acknowledged, and sends each on whichever    *)
(* connection has room.  The connections are not modelled one by one: that *)
(* pick_connection finds one, and the room it offers, are free choices,    *)
(* and the blocks in flight to a side are a set, from which the next block *)
(* to arrive, or to be lost with its connection, is drawn in any order.    *)
(*                                                                         *)
(* Each process is a single-threaded event loop.  A callback is a sequence *)
(* of steps here; `ctl' says which callback is running and where it is,    *)
(* and no other callback starts before it has returned.  The two processes *)
(* share only the network, to which a callback adds after it has taken its *)
(* own block, so running one callback at a time loses no behaviour that    *)
(* is visible between callbacks.                                           *)
(***************************************************************************)
EXTENDS ChopBlk, Sequences, FiniteSets

CONSTANTS
    Offer,            \* [Sides -> Nat]: units the upstream program may send
    MaxBlockUnits,    \* most units one block can carry
    AckEvery,         \* blocks processed between two routine ACKs (32)
    RetransmitSides,  \* sides whose configuration has retransmission on
    MaxSteg,          \* bound: messages each side's steg modules produce
    MaxSends,         \* bound, [Sides -> Nat]: a side that has sent more starts no
                      \* callback that can only send chaff,
    MaxReplies,       \* bound: and after so many more it receives nothing, either
    MaxWire,          \* bound, [Sides -> Nat]: transmissions after which a side
                      \* repeats no block and sends no more chaff
    FaultKinds,       \* the kinds of fault the environment may inject
    MaxFaults         \* bound: how many of them

Sides == {"client", "server"}
Peer(s) == IF s = "client" THEN "server" ELSE "client"

ASSUME CircuitAssumption ==
    /\ Offer \in [Sides -> Nat]
    /\ MaxBlockUnits \in Nat \ {0}
    /\ AckEvery \in Nat
    /\ RetransmitSides \subseteq Sides
    /\ MaxSteg \in Nat
    /\ MaxReplies \in Nat
    /\ MaxSends \in [Sides -> Nat]
    /\ MaxWire \in [Sides -> Nat]
    /\ MaxFaults \in Nat
    /\ FaultKinds \subseteq {"lose", "transmit", "open", "reopen", "upstream", "axe"}

VARIABLES
    net,     \* net[s]: blocks in flight to s
    sent,    \* sent[s]: history, every block s has put on the wire
    nsent,   \* nsent[s]: history, how many times s put a block on the wire
    tx,      \* tx[s]: tx_queue
    rx,      \* rx[s]: recv_queue
    buf,     \* buf[s]: units read from upstream, and units cut into blocks
    out,     \* out[s]: units written to upstream, by their place in the stream
    ckt,     \* ckt[s]: the other fields of the circuit
    ctl,     \* the callback in progress
    faults   \* faults so far

vars == <<net, sent, nsent, tx, rx, buf, out, ckt, ctl, faults>>

(***************************************************************************)
(* The circuit's flags.  `outbuf' is "the upstream output buffer is not    *)
(* empty", `dead' is "dead_cycles > 0", `steg' the messages waiting in     *)
(* protocol_data_out and `stegleft' the ones the steg modules may still    *)
(* add.  read_eof is set exactly where sent_fin is.                        *)
(***************************************************************************)
Status == {"none", "open", "closed", "aborted"}

Circuits ==
    [status : Status, upstream_eof : BOOLEAN, sent_fin : BOOLEAN,
     received_fin : BOOLEAN, connected : BOOLEAN, outbuf : BOOLEAN,
     pending_write_eof : BOOLEAN, write_eof : BOOLEAN, dead : BOOLEAN,
     last_acked : Nat, flush_timer : BOOLEAN, axe_timer : BOOLEAN,
     steg : Nat, stegleft : Nat]

\* The client's circuit exists, with its upstream connected; the server's is
\* made when the first handshake arrives.
InitialCircuit(s) ==
    [status |-> IF s = "client" THEN "open" ELSE "none",
     upstream_eof |-> FALSE, sent_fin |-> FALSE, received_fin |-> FALSE,
     connected |-> s = "client", outbuf |-> FALSE,
     pending_write_eof |-> FALSE, write_eof |-> FALSE, dead |-> FALSE,
     last_acked |-> 0, flush_timer |-> FALSE, axe_timer |-> FALSE,
     steg |-> 0, stegleft |-> MaxSteg]

Stages == {"idle", "rexmit", "recv", "drain", "rst", "post", "steg", "send", "loop",
           "tail", "bye"}
Callers == {"event", "eof", "recv", "drain"}   \* who called send()

Ctls == [side : Sides, at : Stages, caller : Callers, moved : BOOLEAN,
         noconn : BOOLEAN, fin : BOOLEAN, sent_error : BOOLEAN]

Idle == [side |-> "client", at |-> "idle", caller |-> "event", moved |-> FALSE,
         noconn |-> FALSE, fin |-> FALSE, sent_error |-> FALSE]

Init ==
    /\ net = [s \in Sides |-> {}]
    /\ sent = [s \in Sides |-> {}]
    /\ nsent = [s \in Sides |-> 0]
    /\ tx = [s \in Sides |-> EmptyTx]
    /\ rx = [s \in Sides |-> EmptyRx]
    /\ buf = [s \in Sides |-> [read |-> 0, taken |-> 0]]
    /\ out = [s \in Sides |-> <<>>]
    /\ ckt = [s \in Sides |-> InitialCircuit(s)]
    /\ ctl = Idle
    /\ faults = 0

(***************************************************************************)
(* Helpers: what pieces of the code do to one circuit's flags.             *)
(***************************************************************************)
\* chop_circuit_t::close; a second close fails its table assertion.
Close(c) ==
    [c EXCEPT !.status = IF @ = "open" THEN "closed" ELSE "aborted",
              !.flush_timer = FALSE, !.axe_timer = FALSE]

Abort(c) == [c EXCEPT !.status = "aborted"]

\* circuit_arm_axe_timer; an armed timer is of interest where it may expire.
ArmAxe(c) == [c EXCEPT !.axe_timer = "axe" \in FaultKinds]

\* circuit_recv_eof: shut the upstream socket down for writing, now or later.
RecvEof(c) ==
    [c EXCEPT !.pending_write_eof = TRUE,
              !.write_eof = @ \/ (c.connected /\ ~c.outbuf)]

\* Mutation: a flushed buffer taken for the end of the stream.
FlushCbEager(c) == [c EXCEPT !.write_eof = c.connected]

\* upstream_flush_cb, when the output buffer is empty.
FlushCb(c) ==
    IF c.connected /\ c.pending_write_eof
    THEN LET d == [c EXCEPT !.write_eof = TRUE]
         IN  IF d.sent_fin THEN Close(d) ELSE d
    ELSE c

\* circuit_do_flush.
DoFlush(c) ==
    LET d == [c EXCEPT !.pending_write_eof = TRUE]
    IN  IF d.outbuf THEN d ELSE FlushCb(d)

\* drop_downstream, when it may have been the circuit's last connection.
Dropped(s, c) ==
    IF c.sent_fin /\ c.received_fin THEN DoFlush(c)
    ELSE IF s = "server" THEN ArmAxe(c)
    ELSE [c EXCEPT !.flush_timer = TRUE]

\* What a connection's failure may do to its circuit.
DropOutcomes(s, c) == {c, Dropped(s, c)}

\* check_for_eof sets or stops the flush timer; at EOF both ways it goes on to
\* take leave of the connections (stage "bye").
BothFins(c) == c.sent_fin /\ c.received_fin


CheckForEof(s, c) ==
    [c EXCEPT !.flush_timer = ~BothFins(c) /\ (s = "client" \/ @)]

\* The end of send_targeted(conn, d, p, f, payload).
AfterTransmit(c, op, n) ==
    [c EXCEPT !.sent_fin = @ \/ op \in {"FIN", "STEG_FIN"},
              !.dead = @ /\ n = 0 /\ op \notin {"FIN", "STEG_FIN"}]

Full(s) == TxFull(tx[s], s \notin RetransmitSides)
Pending(s) == buf[s].read - buf[s].taken
FinDue(s) == ckt[s].upstream_eof /\ ~ckt[s].sent_fin

\* upstream_event_cb after circuit_send_eof returned.
AfterSendEof(c, ok) ==
    LET d == IF ok THEN c ELSE Close(c)
    IN  IF d.sent_fin /\ d.write_eof THEN Close(d) ELSE d

(***************************************************************************)
(* The network.                                                            *)
(***************************************************************************)
\* One fault of the given kind, while the run's bound allows it.
Fault(kind) ==
    /\ kind \in FaultKinds
    /\ faults < MaxFaults
    /\ faults' = faults + 1

HasDownstream(s) == ckt[s].status = "open"   \* close() lets go of them all

Emit(s, b) ==
    /\ HasDownstream(s)
    /\ net' = [net EXCEPT ![Peer(s)] = @ \cup {b}]
    /\ sent' = [sent EXCEPT ![s] = @ \cup {b}]
    /\ nsent' = [nsent EXCEPT ![s] = @ + 1]
    /\ UNCHANGED faults

\* steg->transmit fails: nothing reaches the wire.
TransmitFails(s) ==
    /\ HasDownstream(s)
    /\ Fault("transmit")
    /\ UNCHANGED <<net, sent, nsent>>

NoTraffic == UNCHANGED <<net, sent, nsent, faults>>

(***************************************************************************)
(* Returning from send(), and from a callback.                             *)
(***************************************************************************)
SetCkt(s, c) == ckt' = [ckt EXCEPT ![s] = c]
Go(at) == ctl' = [ctl EXCEPT !.at = at]

\* send() returns to circuit_send, circuit_send_eof, process_queue's tail or
\* its STEG branch.  An error closes the circuit in the first two cases, costs
\* the connection in the third and is ignored in the last.
Returned(s, c, ok) ==
    CASE ctl.caller = "eof"            -> {AfterSendEof(c, ok)}
      [] ctl.caller = "event" /\ ~ok   -> {Close(c)}
      [] ctl.caller = "recv" /\ ~ok    -> DropOutcomes(s, c)
      [] OTHER                         -> {c}

Return(s, c, ok) ==
    /\ \E d \in Returned(s, c, ok) : SetCkt(s, d)
    /\ ctl' = IF ctl.caller = "drain" THEN [ctl EXCEPT !.at = "post"] ELSE Idle

\* The `return check_for_eof()' of send() and process_queue.
ReturnEof(s, c, caller) ==
    LET d == CheckForEof(s, c)
    IN  IF BothFins(d)
        THEN SetCkt(s, d) /\ ctl' = [ctl EXCEPT !.at = "bye", !.caller = caller]
        ELSE IF caller = "recv" THEN SetCkt(s, d) /\ ctl' = Idle
        ELSE Return(s, d, TRUE)

\* Enter send() with the circuit's fields c.
CallSend(s, c, caller) ==
    /\ SetCkt(s, [c EXCEPT !.flush_timer = FALSE])
    /\ ctl' = [ctl EXCEPT !.side = s, !.caller = caller,
                          !.at = IF c.steg = 0 THEN "send" ELSE "steg",
                          !.moved = FALSE, !.noconn = FALSE]

(***************************************************************************)
(* Cutting blocks.                                                         *)
(***************************************************************************)
\* Mutations: take more than there is; mark a FIN before the last byte.
DataBlockOverrun(s, cap) ==
    NewBlock(tx[s], IF Pending(s) <= cap /\ FinDue(s) THEN "FIN" ELSE "DAT",
             buf[s].taken, cap, NoAck)
DataBlockEagerFin(s, cap) ==
    NewBlock(tx[s], IF FinDue(s) THEN "FIN" ELSE "DAT",
             buf[s].taken, IF Pending(s) > cap THEN cap ELSE Pending(s), NoAck)

\* The block send_targeted(conn, blocksize) builds when blocksize leaves room
\* for `cap' units of data: a FIN when it empties the buffer after an EOF.
DataBlock(s, cap) ==
    LET n == IF Pending(s) > cap THEN cap ELSE Pending(s)
    IN  NewBlock(tx[s], IF Pending(s) <= cap /\ FinDue(s) THEN "FIN" ELSE "DAT",
                 buf[s].taken, n, NoAck)

\* pick_connection asks for room for at least one unit if there is data.
Capacities(s) == {cap \in 0 .. MaxBlockUnits : Pending(s) > 0 => cap > 0}

\* The block send_targeted_steg_data builds for k of the waiting messages.
StegBlock(s, k) ==
    NewBlock(tx[s], IF k = ckt[s].steg /\ FinDue(s) THEN "STEG_FIN" ELSE "STEG0",
             buf[s].taken, 0, NoAck)

\* send_targeted(conn, d, p, f, payload), the payload being upstream data.
TransmitData(s, b, ok) ==
    /\ tx' = [tx EXCEPT ![s] = Enqueue(@, b)]
    /\ buf' = [buf EXCEPT ![s].taken = @ + b.n]
    /\ IF ok THEN Emit(s, b) ELSE TransmitFails(s)

\* The same for k steg messages; c is what becomes of the circuit.
TransmitSteg(s, b, ok) ==
    /\ tx' = [tx EXCEPT ![s] = Enqueue(@, b)]
    /\ IF ok THEN Emit(s, b) ELSE TransmitFails(s)
    /\ UNCHANGED buf

StegSent(s, k, ok) ==
    LET c == [ckt[s] EXCEPT !.steg = @ - k]
    IN  IF ok THEN AfterTransmit(c, StegBlock(s, k).op, 1) ELSE c

\* transmit_queue::retransmit followed by conn->send.
Resend(s, i, ok) ==
    LET q == Retransmitted(tx[s], i)
    IN  /\ CanRetransmit(tx[s], i) /\ nsent[s] < MaxWire[s]
        /\ tx' = [tx EXCEPT ![s] = q]
        /\ IF ok THEN Emit(s, q.cbuf[Slot(i)]) ELSE TransmitFails(s)

HeadMissing(s, i) == tx[s].cbuf[Slot(i)] = NoElt   \* log_assert(elt.data)

MayRetransmit(s) ==
    Pending(s) = 0 /\ ~FinDue(s) /\ s \in RetransmitSides

(***************************************************************************)
(* Events: the start of a callback on side s.                              *)
(***************************************************************************)
Ready(s) == ctl.at = "idle" /\ ckt[s].status = "open"

BelowBound(s) == tx[s].next_to_send < MaxSends[s] /\ nsent[s] < MaxWire[s]

\* There are blocks to repeat.
Unacked(s) == MayRetransmit(s) /\ TxIteration(tx[s]) # {} /\ nsent[s] < MaxWire[s]

\* upstream_read_cb: the upstream program wrote k more units.
UpstreamRead(s) ==
    /\ Ready(s) /\ ckt[s].connected /\ ~ckt[s].upstream_eof
    /\ \E k \in 1 .. Offer[s] - buf[s].read :
          buf' = [buf EXCEPT ![s].read = @ + k]
    /\ CallSend(s, ckt[s], "event")
    /\ NoTraffic /\ UNCHANGED <<tx, rx, out>>

\* upstream_event_cb, EOF while reading: circuit_send_eof.
UpstreamEof(s) ==
    /\ Ready(s) /\ ckt[s].connected /\ ~ckt[s].upstream_eof
    /\ CallSend(s, [ckt[s] EXCEPT !.upstream_eof = TRUE], "eof")
    /\ NoTraffic /\ UNCHANGED <<tx, rx, buf, out>>

\* upstream_event_cb, any other event.
UpstreamError(s) ==
    /\ Ready(s) /\ Fault("upstream")
    /\ SetCkt(s, Close(ckt[s]))
    /\ UNCHANGED <<net, sent, nsent, tx, rx, buf, out, ctl>>

\* upstream_flush_cb: the upstream program has read everything.
UpstreamFlush(s) ==
    /\ Ready(s) /\ ckt[s].connected /\ ckt[s].outbuf
    /\ SetCkt(s, FlushCb([ckt[s] EXCEPT !.outbuf = FALSE]))
    /\ NoTraffic /\ UNCHANGED <<tx, rx, buf, out, ctl>>

\* upstream_connect_cb on the server.
UpstreamConnect(s) ==
    /\ Ready(s) /\ ~ckt[s].connected
    /\ LET c == [ckt[s] EXCEPT !.connected = TRUE]
       IN  SetCkt(s, IF c.pending_write_eof THEN RecvEof(c) ELSE c)
    /\ NoTraffic /\ UNCHANGED <<tx, rx, buf, out, ctl>>

\* flush_timer_cb.
FlushTimer(s) ==
    /\ Ready(s) /\ ckt[s].flush_timer
    /\ BelowBound(s) \/ Pending(s) > 0 \/ FinDue(s) \/ Unacked(s)
    /\ CallSend(s, ckt[s], "event")
    /\ NoTraffic /\ UNCHANGED <<tx, rx, buf, out>>

\* axe_timer_cb: no connection for the whole axe interval.
AxeTimer(s) ==
    /\ Ready(s) /\ ckt[s].axe_timer
    /\ Fault("axe")
    /\ SetCkt(s, DoFlush([ckt[s] EXCEPT !.axe_timer = FALSE]))
    /\ UNCHANGED <<net, sent, nsent, tx, rx, buf, out, ctl>>

\* drop_downstream of the last connection.
LastConnDrops(s) ==
    /\ Ready(s)
    /\ SetCkt(s, Dropped(s, ckt[s]))
    /\ NoTraffic /\ UNCHANGED <<tx, rx, buf, out, ctl>>

\* A steg module leaves a message for its peer in protocol_data_out.
StegData(s) ==
    /\ Ready(s) /\ ckt[s].stegleft > 0
    /\ SetCkt(s, [ckt[s] EXCEPT !.steg = @ + 1, !.stegleft = @ - 1])
    /\ NoTraffic /\ UNCHANGED <<tx, rx, buf, out, ctl>>

(***************************************************************************)
(* chop_conn_t::send, from the must-send timer, the client's handshake or  *)
(* the leave check_for_eof takes of each connection: send_targeted(conn)   *)
(* has to put something on this connection.  A failure costs the           *)
(* connection.                                                             *)
(***************************************************************************)
Speaking(s) == Ready(s) \/ (ctl.at = "bye" /\ ctl.side = s /\ ckt[s].status = "open")

\* What becomes of the circuit, c if the transmission succeeds.
SetSpoken(s, c, ok) ==
    IF ok THEN SetCkt(s, c) ELSE \E d \in DropOutcomes(s, c) : SetCkt(s, d)

MustSendSteg(s) ==
    /\ Speaking(s) /\ BelowBound(s) /\ ~Full(s)
    /\ \E k \in 1 .. ckt[s].steg, ok \in BOOLEAN :
          /\ TransmitSteg(s, StegBlock(s, k), ok)
          /\ SetSpoken(s, StegSent(s, k, ok), ok)
    /\ UNCHANGED <<rx, out, ctl>>

MustSendRetransmit(s) ==
    /\ Speaking(s) /\ ckt[s].steg = 0 /\ MayRetransmit(s)
    /\ \E i \in TxIteration(tx[s]), ok \in BOOLEAN :
          IF HeadMissing(s, i)
          THEN SetCkt(s, Abort(ckt[s])) /\ NoTraffic /\ UNCHANGED tx
          ELSE Resend(s, i, ok) /\ SetSpoken(s, ckt[s], ok)
    /\ UNCHANGED <<rx, buf, out, ctl>>

MustSendNew(s) ==
    /\ Speaking(s) /\ BelowBound(s) /\ ckt[s].steg = 0 /\ ~Full(s)
    /\ \E cap \in Capacities(s), ok \in BOOLEAN :
          LET b == DataBlock(s, cap)
          IN  /\ TransmitData(s, b, ok)
              /\ SetSpoken(s, IF ok THEN AfterTransmit(ckt[s], b.op, b.n) ELSE ckt[s], ok)
    /\ UNCHANGED <<rx, out, ctl>>

(***************************************************************************)
(* chop_conn_t::recv: one or more blocks (stage "recv") arrive on a        *)
(* connection.                                                             *)
(***************************************************************************)
\* recv_handshake makes the server's circuit on the first arrival; the first
\* on any new connection follows an add_downstream, which disarms the axe timer.
Opened(s) ==
    {[ckt[s] EXCEPT !.status = "open", !.axe_timer = axe] :
        axe \in IF s = "server" THEN {FALSE, ckt[s].axe_timer} ELSE {ckt[s].axe_timer}}

\* recv_block: ACK and RST are acted on at once, and a hole is filled with an
\* empty DAT whether or not the block was inside the receive window.
RxElt(b) == IF b.op \in {"ACK", "RST"} THEN [op |-> "DAT", from |-> b.from, n |-> 0]
            ELSE [op |-> b.op, from |-> b.from, n |-> b.n]

RecvBlock(s, b) ==
    /\ ctl.at = "idle" \/ (ctl.at = "recv" /\ ctl.side = s)
    /\ ckt[s].status \in {"none", "open"}
    /\ tx[s].next_to_send <= MaxSends[s] + MaxReplies
    /\ b \in net[s]
    /\ HeaderValid(TRUE, b.seq, rx[s].next_to_process, FALSE)
    /\ net' = [net EXCEPT ![s] = @ \ {b}]
    /\ rx' = [rx EXCEPT ![s] = Insert(@, b.seq, RxElt(b))]
    /\ tx' = [tx EXCEPT ![s] = IF b.op = "ACK" THEN ProcessAck(@, b.ack) ELSE @]
    /\ \E c \in Opened(s) : SetCkt(s, IF b.op = "RST" THEN RecvEof(c) ELSE c)
    /\ ctl' = [Idle EXCEPT !.side = s,
                           !.at = IF b.op = "ACK" THEN "rexmit" ELSE "recv"]
    /\ UNCHANGED <<sent, nsent, buf, out, faults>>

Recv(s) == \E b \in net[s] : RecvBlock(s, b)

\* recv_handshake when circuit_open_upstream fails: the new circuit is closed
\* under the circuit id 0, which is not in the table, and the assertion fails.
RecvOpenFails(s) ==
    /\ ctl.at = "idle" /\ ckt[s].status = "none" /\ net[s] # {}
    /\ Fault("open")
    /\ SetCkt(s, Abort(ckt[s]))
    /\ UNCHANGED <<net, sent, nsent, tx, rx, buf, out, ctl>>

\* A block for a circuit that is gone: the keys are, too.
RecvStale(s) ==
    /\ ctl.at = "idle" /\ ckt[s].status = "closed"
    /\ \E b \in net[s] : net' = [net EXCEPT ![s] = @ \ {b}]
    /\ UNCHANGED <<sent, nsent, tx, rx, buf, out, ckt, ctl, faults>>

\* The connection carrying a block breaks.
LoseBlock(s) ==
    /\ ctl.at = "idle" /\ Fault("lose")
    /\ \E b \in net[s] : net' = [net EXCEPT ![s] = @ \ {b}]
    /\ UNCHANGED <<sent, nsent, tx, rx, buf, out, ckt, ctl>>

\* retransmit(), called for every ACK whatever the configuration says; its
\* result is ignored.
AckRetransmit ==
    LET s == ctl.side
    IN  /\ ctl.at = "rexmit"
        /\ \/ \E i \in TxIteration(tx[s]), ok \in BOOLEAN :
                 IF HeadMissing(s, i)
                 THEN SetCkt(s, Abort(ckt[s])) /\ ctl' = Idle /\ NoTraffic /\ UNCHANGED tx
                 ELSE Resend(s, i, ok) /\ Go("recv") /\ UNCHANGED ckt
           \/ Go("recv") /\ NoTraffic /\ UNCHANGED <<tx, ckt>>
        /\ UNCHANGED <<rx, buf, out>>

(***************************************************************************)
(* process_queue.                                                          *)
(***************************************************************************)
\* The places in the stream of the units of a queue element.
Units(e) == [k \in 1 .. e.n |-> e.from + k]

Draining(s) == ctl.at \in {"recv", "drain"} /\ ctl.side = s /\ Front(rx[s]) # NoRxElt

Dequeue(s) == rx' = [rx EXCEPT ![s] = RemoveNext(@)]

\* DAT and FIN blocks in order: pass the data on, then the EOF.
DrainData ==
    LET s == ctl.side
        e == Front(rx[s])
        c == IF e.n > 0 THEN [ckt[s] EXCEPT !.dead = FALSE, !.outbuf = TRUE] ELSE ckt[s]
    IN  /\ Draining(s) /\ e.op \in {"DAT", "FIN"}
        /\ ~ckt[s].received_fin
        /\ e.n > 0 => ~ckt[s].write_eof
        /\ Dequeue(s)
        /\ out' = [out EXCEPT ![s] = @ \o Units(e)]
        /\ SetCkt(s, IF e.op = "FIN"
                     THEN [RecvEof(c) EXCEPT !.received_fin = TRUE] ELSE c)
        /\ Go("drain")
        /\ NoTraffic /\ UNCHANGED <<tx, buf>>

\* "writing into upstream buffer after eof?"
DrainAbort ==
    LET s == ctl.side
    IN  /\ Draining(s) /\ Front(rx[s]).op \in {"DAT", "FIN"} /\ Front(rx[s]).n > 0
        /\ ~ckt[s].received_fin /\ ckt[s].write_eof
        /\ SetCkt(s, Abort(ckt[s])) /\ ctl' = Idle
        /\ NoTraffic /\ UNCHANGED <<tx, rx, buf, out>>

\* After a FIN, a second FIN or more data is a protocol error (reported with
\* a RST only in the second case, and once per callback); chaff is not.
DrainAfterFin ==
    LET s == ctl.side
        e == Front(rx[s])
        again == e.op \in {"FIN", "STEG_FIN"}
    IN  /\ Draining(s) /\ e.op # "STEG0" /\ ckt[s].received_fin
        /\ Dequeue(s)
        /\ ctl' = [ctl EXCEPT
              !.at = IF ~again /\ e.n > 0 /\ ~ctl.sent_error THEN "rst" ELSE "drain",
              !.sent_error = @ \/ again \/ e.n > 0]
        /\ NoTraffic /\ UNCHANGED <<tx, buf, out, ckt>>

\* STEG0 and STEG_FIN: hand the data to the steg module, then send().
DrainSteg ==
    LET s == ctl.side
        e == Front(rx[s])
    IN  /\ Draining(s) /\ e.op \in {"STEG0", "STEG_FIN"}
        /\ e.op = "STEG_FIN" => ~ckt[s].received_fin
        /\ Dequeue(s)
        /\ SetCkt(s, [ckt[s] EXCEPT !.flush_timer = FALSE])
        /\ ctl' = [ctl EXCEPT !.at = IF ckt[s].steg = 0 THEN "send" ELSE "steg",
                              !.caller = "drain", !.moved = FALSE,
                              !.noconn = FALSE, !.fin = e.op = "STEG_FIN"]
        /\ NoTraffic /\ UNCHANGED <<tx, buf, out>>

\* ... and take note of the FIN once send() is back.
DrainStegFin ==
    LET s == ctl.side
    IN  /\ ctl.at = "post"
        /\ SetCkt(s, IF ctl.fin /\ ~ckt[s].received_fin
                     THEN [RecvEof(ckt[s]) EXCEPT !.received_fin = TRUE] ELSE ckt[s])
        /\ ctl' = [ctl EXCEPT !.at = "drain", !.fin = FALSE]
        /\ NoTraffic /\ UNCHANGED <<tx, rx, buf, out>>

\* send_special(op, payload): the block is queued even if no connection has
\* room for it now (`wire' is "none"); wire = "fails" is a failed transmission.
SendSpecial(s, op, ack, wire) ==
    LET b == NewBlock(tx[s], op, buf[s].taken, 0, ack)
    IN  /\ tx' = [tx EXCEPT ![s] = Enqueue(@, b)]
        /\ CASE wire = "sent"  -> Emit(s, b)
             [] wire = "none"  -> NoTraffic
             [] wire = "fails" -> TransmitFails(s)

Wires == {"sent", "none", "fails"}

SendRst ==
    LET s == ctl.side
    IN  /\ ctl.at = "rst"
        /\ \/ ~Full(s) /\ \E wire \in Wires : SendSpecial(s, "RST", NoAck, wire)
           \/ Full(s) /\ NoTraffic /\ UNCHANGED tx
        /\ Go("drain")
        /\ UNCHANGED <<rx, buf, out, ckt>>

\* The guard of maybe_send_ack.
AckDue(s) ==
    /\ s \in RetransmitSides
    /\ \/ rx[s].next_to_process - ckt[s].last_acked >= AckEvery
       \/ ckt[s].dead /\ ~RxEmpty(rx[s])

\* The end of process_queue: send() if there is something to say.
Proceed(s, c) ==
    IF Pending(s) > 0 \/ (c.upstream_eof /\ ~c.sent_fin)
    THEN CallSend(s, c, "recv")
    ELSE ReturnEof(s, c, "recv")

\* The loop of process_queue is over; `ok' if it met no error.
Drained(s, ok) ==
    /\ ctl.at \in {"recv", "drain"} /\ ctl.side = s /\ Front(rx[s]) = NoRxElt
    /\ ctl.sent_error = ~ok

\* After an error recv() fails, which costs the connection.
RecvFails(s, c) ==
    /\ \E d \in DropOutcomes(s, c) : SetCkt(s, d)
    /\ ctl' = Idle

DrainError ==
    /\ Drained(ctl.side, FALSE)
    /\ RecvFails(ctl.side, ckt[ctl.side])
    /\ NoTraffic /\ UNCHANGED <<tx, rx, buf, out>>

Acked(s) == [ckt[s] EXCEPT !.last_acked = rx[s].next_to_process]

NoAckNeeded ==
    LET s == ctl.side
    IN  /\ Drained(s, TRUE) /\ ~AckDue(s)
        /\ Proceed(s, ckt[s])
        /\ NoTraffic /\ UNCHANGED <<tx, rx, buf, out>>

SendAck ==
    LET s == ctl.side
    IN  /\ Drained(s, TRUE) /\ AckDue(s) /\ ~GenAckAborts(rx[s]) /\ ~Full(s)
        /\ \E wire \in Wires :
              /\ SendSpecial(s, "ACK", GenAck(rx[s]), wire)
              /\ IF wire = "fails" THEN RecvFails(s, Acked(s)) ELSE Proceed(s, Acked(s))
        /\ UNCHANGED <<rx, buf, out>>

\* gen_ack aborts, or the ACK finds the transmit queue full and is forgotten.
AckFails ==
    LET s == ctl.side
    IN  /\ Drained(s, TRUE) /\ AckDue(s)
        /\ \/ GenAckAborts(rx[s]) /\ SetCkt(s, Abort(ckt[s])) /\ ctl' = Idle
           \/ ~GenAckAborts(rx[s]) /\ Full(s) /\ RecvFails(s, Acked(s))
        /\ NoTraffic /\ UNCHANGED <<tx, rx, buf, out>>

(***************************************************************************)
(* send().                                                                 *)
(***************************************************************************)
\* send_all_steg_data: a block of steg data, if a connection has room.
SendSteg ==
    LET s == ctl.side
    IN  /\ ctl.at = "steg" /\ ~Full(s)
        /\ \E k \in 1 .. ckt[s].steg, ok \in BOOLEAN :
              /\ TransmitSteg(s, StegBlock(s, k), ok)
              /\ SetCkt(s, StegSent(s, k, ok))
              /\ IF ok THEN UNCHANGED ctl ELSE Go("send")
        /\ UNCHANGED <<rx, out>>

\* Nothing more to send, no room (a dead cycle unless there is no connection
\* at all), or the transmit queue is full; errors are only logged.
SendStegEnd ==
    LET s == ctl.side
    IN  /\ ctl.at = "steg"
        /\ Go("send")
        /\ \/ UNCHANGED ckt
           \/ ckt[s].steg > 0 /\ SetCkt(s, [ckt[s] EXCEPT !.dead = TRUE])
        /\ NoTraffic /\ UNCHANGED <<tx, rx, buf, out>>

\* With no new data, retransmit one unacknowledged block instead.
SendRetransmit ==
    LET s == ctl.side
    IN  /\ ctl.at = "send" /\ MayRetransmit(s)
        /\ \E i \in TxIteration(tx[s]) :
              IF HeadMissing(s, i)
              THEN SetCkt(s, Abort(ckt[s])) /\ ctl' = Idle /\ NoTraffic /\ UNCHANGED tx
              ELSE \/ Resend(s, i, TRUE) /\ Go("tail") /\ UNCHANGED ckt
                   \/ Resend(s, i, FALSE) /\ Return(s, ckt[s], FALSE)
                   \/ /\ ~CanRetransmit(tx[s], i)
                      /\ Return(s, ckt[s], FALSE)
                      /\ NoTraffic /\ UNCHANGED tx
        /\ UNCHANGED <<rx, buf, out>>

\* A full transmit queue: skip the loop.
SendNothing ==
    /\ ctl.at = "send" /\ Full(ctl.side)
    /\ Go("tail")
    /\ NoTraffic /\ UNCHANGED <<tx, rx, buf, out, ckt>>

\* One round of the loop, which goes on while upstream data is left.
LoopBlock ==
    LET s == ctl.side
    IN  /\ ctl.at \in {"send", "loop"} /\ ~Full(s)
        /\ Pending(s) > 0 \/ FinDue(s) \/ BelowBound(s)
        /\ \E cap \in Capacities(s) :
              LET b == DataBlock(s, cap)
              IN  \/ /\ TransmitData(s, b, TRUE)
                     /\ SetCkt(s, AfterTransmit(ckt[s], b.op, b.n))
                     /\ ctl' = [ctl EXCEPT
                           !.at = IF b.n < Pending(s) THEN "loop" ELSE "tail",
                           !.moved = @ \/ b.n > 0]
                  \/ /\ TransmitData(s, b, FALSE)
                     /\ Return(s, ckt[s], FALSE)
        /\ UNCHANGED <<rx, out>>

\* send_targeted finds the queue full in a later round.
LoopFull ==
    LET s == ctl.side
    IN  /\ ctl.at = "loop" /\ Full(s)
        /\ Return(s, ckt[s], FALSE)
        /\ NoTraffic /\ UNCHANGED <<tx, rx, buf, out>>

\* No downstream at all, or none that pick_connection can use.
SendNoConn ==
    /\ ctl.at \in {"send", "loop"}
    /\ ctl' = [ctl EXCEPT !.at = "tail", !.noconn = TRUE]
    /\ NoTraffic /\ UNCHANGED <<tx, rx, buf, out, ckt>>

\* The rest of send(): count the dead cycle, ask for connections, look for
\* EOF.  A client reopens connections, or is at its connection limit and arms
\* the axe timer like a server; circuit_reopen_downstreams may close the
\* circuit when no connection can be made.
SendTail ==
    LET s == ctl.side
        c == IF ctl.moved THEN ckt[s] ELSE [ckt[s] EXCEPT !.dead = TRUE]
        seeking == ~ctl.moved /\ ctl.noconn
    IN  /\ ctl.at = "tail"
        /\ \/ /\ ~seeking
              /\ ReturnEof(s, c, ctl.caller)
              /\ NoTraffic
           \/ /\ seeking
              /\ ReturnEof(s, ArmAxe(c), ctl.caller)
              /\ NoTraffic
           \/ /\ seeking /\ s = "client"
              /\ ReturnEof(s, [c EXCEPT !.axe_timer = FALSE], ctl.caller)
              /\ NoTraffic
           \/ /\ seeking /\ s = "client"
              /\ Fault("reopen") /\ UNCHANGED <<net, sent, nsent>>
              /\ ReturnEof(s, Close(c), ctl.caller)
        /\ UNCHANGED <<tx, rx, buf, out>>

\* check_for_eof has sent on every connection that owed an answer.
Bye ==
    /\ ctl.at = "bye"
    /\ Return(ctl.side, ckt[ctl.side], TRUE)
    /\ NoTraffic /\ UNCHANGED <<tx, rx, buf, out>>

Step ==
    \/ AckRetransmit \/ DrainData \/ DrainAbort \/ DrainAfterFin \/ DrainSteg
    \/ DrainStegFin \/ SendRst \/ DrainError \/ NoAckNeeded \/ SendAck \/ AckFails
    \/ SendSteg \/ SendStegEnd \/ SendRetransmit \/ SendNothing
    \/ LoopBlock \/ LoopFull \/ SendNoConn \/ SendTail \/ Bye

Event(s) ==
    \/ UpstreamRead(s) \/ UpstreamEof(s) \/ UpstreamError(s) \/ UpstreamFlush(s)
    \/ UpstreamConnect(s) \/ FlushTimer(s) \/ AxeTimer(s) \/ LastConnDrops(s)
    \/ StegData(s) \/ MustSendSteg(s) \/ MustSendRetransmit(s) \/ MustSendNew(s)
    \/ Recv(s) \/ RecvOpenFails(s) \/ RecvStale(s) \/ LoseBlock(s)

Next == Step \/ \E s \in Sides : Event(s)

Spec == Init /\ [][Next]_vars

(***************************************************************************)
(* Fairness.  A callback that has started runs to its end; a block that is *)
(* not lost arrives; an armed flush timer expires; and a circuit that goes *)
(* on asking pick_connection for room is granted it some time, as a client *)
(* asks circuit_reopen_downstreams for new connections whenever it has     *)
(* none.  Nothing is assumed of the upstream programs or of must-send      *)
(* timers.                                                                 *)
(***************************************************************************)
Fairness ==
    /\ WF_vars(Step)
    /\ SF_vars(LoopBlock \/ SendRetransmit)
    /\ WF_vars(FlushTimer("client"))
    /\ \A q \in 0 .. MaxSends["client"] + Offer["client"] :
          SF_vars(\E b \in net["server"] : b.seq = q /\ RecvBlock("server", b))

FairSpec == Spec /\ Fairness

(***************************************************************************)
(* Type correctness.                                                       *)
(***************************************************************************)
NetOK ==
    /\ net \in [Sides -> SUBSET Blocks]
    /\ sent \in [Sides -> SUBSET Blocks]
    /\ nsent \in [Sides -> Nat]
    /\ faults \in Nat

QueuesOK ==
    /\ tx \in [Sides -> TxQueues]
    /\ rx \in [Sides -> RxQueues]

BuffersOK ==
    /\ buf \in [Sides -> [read : Nat, taken : Nat]]
    /\ \A s \in Sides : buf[s].taken <= buf[s].read
    /\ out \in [Sides -> Seq(Nat)]

CircuitsOK ==
    /\ ckt \in [Sides -> Circuits]
    /\ ctl \in Ctls

\* Every variable stays in its type; in particular a circuit never cuts more
\* units into blocks than it has read from upstream (send_targeted takes
\* min(avail, room) from the buffer).
TypeOK == NetOK /\ QueuesOK /\ BuffersOK /\ CircuitsOK

(***************************************************************************)
(* Safety.                                                                 *)
(***************************************************************************)
\* The upstream program reads the peer's stream without gap, repetition or
\* reordering, however blocks are lost, delayed, reordered or sent again
\* (reassembly_queue and process_queue).
InOrder ==
    \A s \in Sides :
        /\ \A i \in 1 .. Len(out[s]) : out[s][i] = i
        /\ Len(out[s]) <= buf[Peer(s)].taken

(***************************************************************************)
(* Why InOrder holds: an inductive invariant.                              *)
(***************************************************************************)
\* The blocks of a side: on the wire at any time, or on its transmit queue.
Known(s) == sent[s] \cup ({tx[s].cbuf[j] : j \in Slots} \ {NoElt})

\* The blocks a side numbers one after the other carry intervals of its stream
\* that follow one another, and the newest ends where the stream was cut last.
SenderInv(s) ==
    /\ \A b \in Known(s) :
          /\ b.seq < tx[s].next_to_send
          /\ b.from + b.n <= buf[s].taken
          /\ b.seq = 0 => b.from = 0
          /\ b.seq + 1 = tx[s].next_to_send => b.from + b.n = buf[s].taken
          /\ b.op \notin {"DAT", "FIN"} => b.n = 0
    /\ \A b, c \in Known(s) : c.seq = b.seq + 1 => c.from = b.from + b.n
    /\ tx[s].next_to_send = 0 => buf[s].taken = 0

\* Every element of the reassembly queue is a block of the peer's, inside the
\* window and in the slot of its number; and until a FIN arrives, the output
\* ends where the last block taken off the queue did.
ReceiverInv(s) ==
    /\ net[s] \subseteq sent[Peer(s)]
    /\ \A j \in Slots : rx[s].cbuf[j] # NoRxElt =>
          \E b \in sent[Peer(s)] :
              InWindow(rx[s], b.seq) /\ Slot(b.seq) = j /\ rx[s].cbuf[j] = RxElt(b)
    /\ \/ ckt[s].received_fin
       \/ rx[s].next_to_process = 0 /\ out[s] = <<>>
       \/ \E b \in sent[Peer(s)] :
             b.seq + 1 = rx[s].next_to_process /\ b.from + b.n = Len(out[s])

\* Number by number, block by block: what a transmit queue cuts a stream into
\* (send_targeted), the peer's reassembly queue puts together again.
StreamInv == InOrder /\ \A s \in Sides : SenderInv(s) /\ ReceiverInv(s)

\* "the sequence number + retransmit count is never repeated" (chop_blk.h):
\* the header is enciphered in ECB mode and is the GCM nonce, so no two
\* transmissions of a side may share both numbers.
NonceFresh ==
    \A s \in Sides : Cardinality({<<b.seq, b.r>> : b \in sent[s]}) = nsent[s]

\* Block i is still on the transmit queue / has reached the reassembly queue.
Held(q, i) == q.next_to_ack <= i /\ q.cbuf[Slot(i)] # NoElt /\ q.cbuf[Slot(i)].seq = i
Received(q, i) ==
    \/ i < q.next_to_process
    \/ InWindow(q, i) /\ q.cbuf[Slot(i)] # NoRxElt

\* Does process_ack release only "blocks that have definitely been received
\* on the far side" (chop_blk.h)?  For block 0 see FirstBlockKept.
ReleasedWasReceived ==
    \A s \in RetransmitSides : \A i \in 1 .. tx[s].next_to_send-1 :
        Held(tx[s], i) \/ Received(rx[Peer(s)], i)

FirstBlockKept ==
    \A s \in RetransmitSides : tx[s].next_to_send > 0 =>
        Held(tx[s], 0) \/ Received(rx[Peer(s)], 0)

\* The sender's window and the receiver's overlap: no more blocks are in use
\* than the ring has slots, and process_ack never takes the peer to be further
\* on than it is.  Block 0 is the one exception, for which see FirstBlockKept:
\* an ACK cannot say that nothing was received, so that next_to_ack may be 1
\* while the peer still waits for block 0.
WindowsOverlap ==
    \A s \in RetransmitSides :
        /\ tx[s].next_to_send - tx[s].next_to_ack <= W
        /\ tx[s].next_to_ack > 1 => tx[s].next_to_ack <= rx[Peer(s)].next_to_process

\* "this block will carry the last byte of real data to be sent in this
\* direction; mark it as such": no data follows a FIN (send_targeted and
\* send_targeted_steg_data choose the opcode).
FinIsLast ==
    \A s \in Sides : \A f, b \in sent[s] :
        f.op \in {"FIN", "STEG_FIN"} /\ b.seq > f.seq => b.n = 0

\* While the steg modules are silent, an EOF is passed on only when it is
\* true: the peer's upstream has ended and all it wrote has been delivered.
\* Covers received_fin and the shutdown of the upstream socket (write_eof).
EofTruthful ==
    \A s \in Sides :
        (ckt[s].received_fin \/ ckt[s].write_eof) =>
            /\ ckt[Peer(s)].upstream_eof
            /\ Len(out[s]) = buf[Peer(s)].read

\* Two chop circuits are one byte stream in each direction, while the steg
\* modules are silent and no axe timer expires (see FinIsLast and
\* NoWriteAfterEof for those): reading upstream (upstream_read_cb) is Write,
\* upstream_eof is the end, process_queue's writes to the upstream buffer are
\* Deliver, and the shutdown of the upstream socket (write_eof) is TellEnd.
Stream == INSTANCE ByteStream WITH
    Ends <- Sides, Other <- Peer,
    written <- [s \in Sides |-> buf[s].read],
    ended <- [s \in Sides |-> ckt[s].upstream_eof],
    delivered <- out,
    told <- [s \in Sides |-> ckt[s].write_eof]

ImplementsByteStream == Stream!Spec

(***************************************************************************)
(* What the code's comments and assertions promise and the code does not   *)
(* keep; each is the subject of a run that ends in a counterexample.       *)
(***************************************************************************)
\* "If the sequence number is outside this window [...] the packet is
\* discarded" (chop_blk.h): no ACK in such a packet is acted on.
OutOfWindowDiscarded ==
    [][\A s \in Sides : \A b \in net[s] :
          b \notin net'[s] /\ ~InWindow(rx[s], b.seq) =>
              tx'[s] = tx[s] /\ ctl'.at # "rexmit"]_vars

\* gen_ack can report every block on the reassembly queue: it never passes
\* set_block_received a number outside "the range [hsn+1, hsn+256]".
GenAckInRange ==
    Drained(ctl.side, TRUE) /\ AckDue(ctl.side) => ~GenAckAborts(rx[ctl.side])

\* process_queue never reaches "writing into upstream buffer after eof?".
NoWriteAfterEof == ~ENABLED DrainAbort

\* "If we're the client we have to keep trying to talk as long as we haven't
\* both sent and received a FIN": between callbacks the flush timer is armed,
\* once upstream data has made the client call send().
ClientKeepsTalking ==
    ctl.at = "idle" /\ ckt["client"].status = "open" /\ buf["client"].read > 0 =>
        \/ ckt["client"].flush_timer
        \/ ckt["client"].sent_fin /\ ckt["client"].received_fin

(***************************************************************************)
(* Liveness.                                                               *)
(***************************************************************************)
\* The client gave up with work left to do: send() fails on a block whose
\* retransmissions are used up (prepare_retransmit), which closes the circuit,
\* while it still holds a block that has retransmissions left.
GaveUp ==
    /\ ckt["client"].status = "closed"
    /\ \E i \in TxIteration(tx["client"]) : CanRetransmit(tx["client"], i)

=============================================================================
