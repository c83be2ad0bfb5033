------------------------- MODULE ChopCircuitProofs -------------------------
(***************************************************************************)
(* Two chop circuits, for every window size, amount of data, retransmission*)
(* setting and bound on faults.  Four parts: the types, the order of the   *)
(* stream, what is on the wire and in the queues, the end of the stream.   *)
(***************************************************************************)
EXTENDS ChopCircuit, SequenceTheorems, FiniteSetTheorems, TLAPS

-----------------------------------------------------------------------------
(***************************************************************************)
(* TYPES.  Lemmas about the queue operators of ChopBlk, and the type       *)
(* correctness of ChopCircuit.                                             *)
(***************************************************************************)

(***************************************************************************)
(* Slots.                                                                  *)
(***************************************************************************)
\* Division with remainder, as the provers need it stated.
LEMMA DivMod ==
    ASSUME NEW a \in Nat, NEW d \in Nat \ {0}
    PROVE  /\ a = d * (a \div d) + (a % d)
           /\ a \div d \in Nat
           /\ a % d \in 0 .. d-1
OBVIOUS

\* Different multiples of d are at least d apart.
LEMMA MultiplesApart ==
    ASSUME NEW d \in Nat \ {0}, NEW x \in Int, NEW y \in Int, x < y
    PROVE  d * y >= d * x + d
<1>1. d * y - d * x = d * (y - x)
  OBVIOUS
<1>2. y - x >= 1
  OBVIOUS
<1>3. d * (y - x) >= d
  BY <1>2
<1> QED
  BY <1>1, <1>3

\* Every sequence number has a slot of the ring (seqno & 0xFF).
LEMMA SlotType == \A q \in Nat : Slot(q) \in Slots
BY WAssumption DEF Slot, Slots

\* Two sequence numbers of one window never share a slot: what makes the two
\* 256-element rings of chop_blk.h sound.
LEMMA SlotInjective ==
    ASSUME NEW a \in Nat, NEW b \in Nat, a <= b, b - a < W, Slot(a) = Slot(b)
    PROVE  a = b
<1> DEFINE x == a \div W
           y == b \div W
<1>1. a = W * x + (a % W) /\ x \in Nat /\ a % W \in 0 .. W-1
  BY DivMod, WAssumption
<1>2. b = W * y + (b % W) /\ y \in Nat /\ b % W \in 0 .. W-1
  BY DivMod, WAssumption
<1>3. a % W = b % W
  BY DEF Slot
<1>4. W \in Nat \ {0}
  BY WAssumption
<1> HIDE DEF x, y
<1>5. CASE x < y
  <2>1. W * y >= W * x + W
    BY <1>1, <1>2, <1>4, <1>5, MultiplesApart
  <2> QED
    BY <2>1, <1>1, <1>2, <1>3, <1>4
<1>6. CASE y < x
  <2>1. W * x >= W * y + W
    BY <1>1, <1>2, <1>4, <1>6, MultiplesApart
  <2> QED
    BY <2>1, <1>1, <1>2, <1>3, <1>4
<1>7. CASE x = y
  BY <1>1, <1>2, <1>3, <1>7
<1> QED
  BY <1>5, <1>6, <1>7, <1>1, <1>2

(***************************************************************************)
(* The transmit queue.                                                     *)
(***************************************************************************)
LEMMA NoAckType == NoAck \in AckPayloads
BY DEF NoAck, AckPayloads

LEMMA EmptyTxType == EmptyTx \in TxQueues
BY DEF EmptyTx, TxQueues

\* enqueue() builds a well-formed block ...
LEMMA NewBlockType ==
    ASSUME NEW q \in TxQueues, NEW op \in Ops, NEW from \in Nat, NEW n \in Nat,
           NEW ack \in AckPayloads
    PROVE  NewBlock(q, op, from, n, ack) \in Blocks
BY DEF NewBlock, Blocks, TxQueues

\* ... and keeps the queue well-formed.
LEMMA EnqueueType ==
    ASSUME NEW q \in TxQueues, NEW b \in Blocks
    PROVE  Enqueue(q, b) \in TxQueues
BY SlotType DEF Enqueue, TxQueues

\* process_ack keeps the queue well-formed, whatever the payload.
LEMMA ProcessAckType ==
    ASSUME NEW q \in TxQueues, NEW ack \in AckPayloads
    PROVE  ProcessAck(q, ack) \in TxQueues
BY DEF ProcessAck, TxQueues, AckPayloads

\* retransmit() changes nothing but the retransmit count of one block.
LEMMA RetransmittedType ==
    ASSUME NEW q \in TxQueues, NEW i \in Nat, q.cbuf[Slot(i)] # NoElt
    PROVE  /\ Retransmitted(q, i) \in TxQueues
           /\ Retransmitted(q, i).cbuf[Slot(i)] \in Blocks
<1> DEFINE b == q.cbuf[Slot(i)]
           c == [b EXCEPT !.r = @ + 1]
<1>1. Slot(i) \in Slots
  BY SlotType
<1>2. b \in Blocks
  BY <1>1 DEF TxQueues
<1>3. c \in Blocks
  BY <1>2 DEF Blocks
<1>4. Retransmitted(q, i) = [cbuf |-> [q.cbuf EXCEPT ![Slot(i)] = c],
                             next_to_ack |-> q.next_to_ack,
                             next_to_send |-> q.next_to_send]
  BY DEF Retransmitted
<1> HIDE DEF b, c
<1> QED
  BY <1>1, <1>3, <1>4 DEF TxQueues

(***************************************************************************)
(* The reassembly queue.                                                   *)
(***************************************************************************)
LEMMA EmptyRxType == EmptyRx \in RxQueues
BY DEF EmptyRx, RxQueues

LEMMA InsertType ==
    ASSUME NEW q \in RxQueues, NEW seq \in Nat, NEW e \in RxElts
    PROVE  Insert(q, seq, e) \in RxQueues
BY SlotType DEF Insert, RxQueues

LEMMA RemoveNextType ==
    ASSUME NEW q \in RxQueues
    PROVE  RemoveNext(q) \in RxQueues
BY SlotType DEF RemoveNext, RxQueues

LEMMA FrontType ==
    ASSUME NEW q \in RxQueues
    PROVE  Front(q) \in RxElts \cup {NoRxElt}
BY SlotType DEF Front, RxQueues

\* An ACK that gen_ack finishes without aborting is well-formed.
LEMMA GenAckType ==
    ASSUME NEW q \in RxQueues, ~GenAckAborts(q)
    PROVE  GenAck(q) \in AckPayloads
<1>1. GenAckHsn(q) \in Nat
  BY DEF GenAckHsn, RxQueues
<1> QED
  BY <1>1 DEF GenAck, GenAckAborts, AckPayloads

(***************************************************************************)
(* What the helpers do to the type of a circuit.                           *)
(***************************************************************************)
LEMMA PeerType == \A s \in Sides : Peer(s) \in Sides /\ Peer(Peer(s)) = s
BY DEF Sides, Peer

LEMMA CircuitOps ==
    ASSUME NEW c \in Circuits, NEW s \in Sides
    PROVE  /\ Close(c) \in Circuits
           /\ Abort(c) \in Circuits
           /\ ArmAxe(c) \in Circuits
           /\ RecvEof(c) \in Circuits
           /\ CheckForEof(s, c) \in Circuits
<1>1. Close(c) \in Circuits
  BY DEF Close, Circuits, Status
<1>2. Abort(c) \in Circuits
  BY DEF Abort, Circuits, Status
<1>3. ArmAxe(c) \in Circuits
  <2>1. \A v \in BOOLEAN : [c EXCEPT !.axe_timer = v] \in Circuits
    BY DEF Circuits
  <2>2. ("axe" \in FaultKinds) \in BOOLEAN
    OBVIOUS
  <2> QED
    BY <2>1, <2>2, Zenon DEF ArmAxe
<1>4. RecvEof(c) \in Circuits
  BY DEF RecvEof, Circuits, Status
<1>5. CheckForEof(s, c) \in Circuits
  BY DEF CheckForEof, BothFins, Circuits, Status
<1> QED
  BY <1>1, <1>2, <1>3, <1>4, <1>5

LEMMA FlushOps ==
    ASSUME NEW c \in Circuits, NEW s \in Sides
    PROVE  /\ FlushCb(c) \in Circuits
           /\ DoFlush(c) \in Circuits
           /\ Dropped(s, c) \in Circuits
           /\ \A ok \in BOOLEAN : AfterSendEof(c, ok) \in Circuits
           /\ \A op \in Ops, n \in Nat : AfterTransmit(c, op, n) \in Circuits
<1>1. ASSUME NEW d \in Circuits PROVE FlushCb(d) \in Circuits
  <2>1. [d EXCEPT !.write_eof = TRUE] \in Circuits
    BY DEF Circuits
  <2> QED
    BY <2>1, CircuitOps DEF FlushCb
<1>2. DoFlush(c) \in Circuits
  <2>1. [c EXCEPT !.pending_write_eof = TRUE] \in Circuits
    BY DEF Circuits
  <2> QED
    BY <2>1, <1>1 DEF DoFlush
<1>3. Dropped(s, c) \in Circuits
  <2>1. [c EXCEPT !.flush_timer = TRUE] \in Circuits
    BY DEF Circuits
  <2> QED
    BY <2>1, <1>2, CircuitOps DEF Dropped
<1>4. \A ok \in BOOLEAN : AfterSendEof(c, ok) \in Circuits
  BY CircuitOps DEF AfterSendEof
<1>5. \A op \in Ops, n \in Nat : AfterTransmit(c, op, n) \in Circuits
  BY DEF AfterTransmit, Circuits
<1> QED
  BY <1>1, <1>2, <1>3, <1>4, <1>5

(***************************************************************************)
(* Types of the network.                                                   *)
(***************************************************************************)
LEMMA EmitType ==
    ASSUME NetOK, NEW s \in Sides, NEW b \in Blocks, Emit(s, b)
    PROVE  NetOK'
BY PeerType DEF NetOK, Emit

LEMMA TransmitFailsType ==
    ASSUME NetOK, NEW s \in Sides, TransmitFails(s)
    PROVE  NetOK'
BY DEF NetOK, TransmitFails, Fault

LEMMA NoTrafficType ==
    ASSUME NetOK, NoTraffic
    PROVE  NetOK'
BY DEF NetOK, NoTraffic

(***************************************************************************)
(* Types of the circuits and of the callback in progress.                  *)
(***************************************************************************)
LEMMA SetCktType ==
    ASSUME CircuitsOK, NEW s \in Sides, NEW c \in Circuits, SetCkt(s, c)
    PROVE  ckt' \in [Sides -> Circuits]
BY DEF CircuitsOK, SetCkt

LEMMA IdleType == Idle \in Ctls
BY DEF Idle, Ctls, Sides, Stages, Callers

LEMMA GoType ==
    ASSUME CircuitsOK, NEW at \in Stages, Go(at)
    PROVE  ctl' \in Ctls
BY DEF CircuitsOK, Go, Ctls

LEMMA DropOutcomesType ==
    ASSUME NEW s \in Sides, NEW c \in Circuits
    PROVE  DropOutcomes(s, c) \subseteq Circuits
BY FlushOps DEF DropOutcomes

LEMMA ReturnType ==
    ASSUME CircuitsOK, NEW s \in Sides, NEW c \in Circuits, NEW ok \in BOOLEAN,
           Return(s, c, ok)
    PROVE  CircuitsOK'
<1>1. Returned(s, c, ok) \subseteq Circuits
  BY FlushOps, CircuitOps, DropOutcomesType DEF Returned
<1>2. PICK d \in Returned(s, c, ok) : SetCkt(s, d)
  BY DEF Return
<1>3. ckt' \in [Sides -> Circuits]
  BY <1>1, <1>2, SetCktType
<1>4. ctl' \in Ctls
  BY IdleType DEF Return, CircuitsOK, Ctls, Stages
<1> QED
  BY <1>3, <1>4 DEF CircuitsOK

LEMMA ReturnEofType ==
    ASSUME CircuitsOK, NEW s \in Sides, NEW c \in Circuits, NEW caller \in Callers,
           ReturnEof(s, c, caller)
    PROVE  CircuitsOK'
<1> DEFINE d == CheckForEof(s, c)
<1>1. d \in Circuits
  BY CircuitOps
<1> HIDE DEF d
<1>2. CASE SetCkt(s, d) /\ ctl' = [ctl EXCEPT !.at = "bye", !.caller = caller]
  BY <1>1, <1>2, SetCktType DEF CircuitsOK, Ctls, Stages
<1>3. CASE SetCkt(s, d) /\ ctl' = Idle
  BY <1>1, <1>3, SetCktType, IdleType DEF CircuitsOK
<1>4. CASE Return(s, d, TRUE)
  BY <1>1, <1>4, ReturnType
<1> QED
  BY <1>2, <1>3, <1>4 DEF ReturnEof, d

LEMMA CallSendType ==
    ASSUME CircuitsOK, NEW s \in Sides, NEW c \in Circuits, NEW caller \in Callers,
           CallSend(s, c, caller)
    PROVE  CircuitsOK'
<1>1. [c EXCEPT !.flush_timer = FALSE] \in Circuits
  BY DEF Circuits
<1>2. ckt' \in [Sides -> Circuits]
  BY <1>1, SetCktType DEF CallSend
<1>3. ctl' \in Ctls
  BY DEF CallSend, CircuitsOK, Ctls, Stages
<1> QED
  BY <1>2, <1>3 DEF CircuitsOK

LEMMA ProceedType ==
    ASSUME CircuitsOK, NEW s \in Sides, NEW c \in Circuits, Proceed(s, c)
    PROVE  CircuitsOK'
BY CallSendType, ReturnEofType DEF Proceed, Callers

LEMMA RecvFailsType ==
    ASSUME CircuitsOK, NEW s \in Sides, NEW c \in Circuits, RecvFails(s, c)
    PROVE  CircuitsOK'
<1>1. PICK d \in DropOutcomes(s, c) : SetCkt(s, d)
  BY DEF RecvFails
<1>2. ckt' \in [Sides -> Circuits]
  BY <1>1, DropOutcomesType, SetCktType
<1> QED
  BY <1>2, IdleType DEF RecvFails, CircuitsOK

LEMMA SetSpokenType ==
    ASSUME CircuitsOK, NEW s \in Sides, NEW c \in Circuits, NEW ok \in BOOLEAN,
           SetSpoken(s, c, ok)
    PROVE  ckt' \in [Sides -> Circuits]
<1>1. PICK d \in {c} \cup DropOutcomes(s, c) : SetCkt(s, d)
  BY DEF SetSpoken
<1> QED
  BY <1>1, DropOutcomesType, SetCktType

(***************************************************************************)
(* Types of transmissions.                                                 *)
(***************************************************************************)
\* What a transmission of block b on side s adds to the network.
LEMMA WireType ==
    ASSUME NetOK, NEW s \in Sides, NEW b \in Blocks, NEW ok \in BOOLEAN,
           IF ok THEN Emit(s, b) ELSE TransmitFails(s)
    PROVE  NetOK'
BY EmitType, TransmitFailsType

LEMMA EnqueueTxType ==
    ASSUME QueuesOK, NEW s \in Sides, NEW b \in Blocks,
           tx' = [tx EXCEPT ![s] = Enqueue(@, b)], rx' = rx
    PROVE  QueuesOK'
BY EnqueueType DEF QueuesOK

LEMMA PendingType ==
    ASSUME BuffersOK, NEW s \in Sides
    PROVE  /\ Pending(s) \in Nat
           /\ buf[s].taken \in Nat /\ buf[s].read \in Nat
           /\ buf[s].taken + Pending(s) = buf[s].read
BY DEF BuffersOK, Pending

LEMMA DataBlockType ==
    ASSUME QueuesOK, BuffersOK, NEW s \in Sides, NEW cap \in Nat
    PROVE  /\ DataBlock(s, cap) \in Blocks
           /\ DataBlock(s, cap).seq = tx[s].next_to_send
           /\ DataBlock(s, cap).from = buf[s].taken
           /\ DataBlock(s, cap).n <= Pending(s)
           /\ DataBlock(s, cap).op \in {"DAT", "FIN"}
<1> DEFINE n == IF Pending(s) > cap THEN cap ELSE Pending(s)
           op == IF Pending(s) <= cap /\ FinDue(s) THEN "FIN" ELSE "DAT"
<1>1. n \in Nat /\ n <= Pending(s)
  BY PendingType
<1>2. op \in Ops /\ op \in {"DAT", "FIN"}
  BY DEF Ops
<1>3. DataBlock(s, cap) = NewBlock(tx[s], op, buf[s].taken, n, NoAck)
  BY DEF DataBlock
<1>4. tx[s] \in TxQueues
  BY DEF QueuesOK
<1> HIDE DEF n, op
<1>5. NewBlock(tx[s], op, buf[s].taken, n, NoAck) \in Blocks
  BY <1>1, <1>2, <1>4, PendingType, NewBlockType, NoAckType
<1> QED
  BY <1>1, <1>2, <1>3, <1>5 DEF NewBlock

LEMMA StegBlockType ==
    ASSUME QueuesOK, BuffersOK, NEW s \in Sides, NEW k \in Nat
    PROVE  /\ StegBlock(s, k) \in Blocks
           /\ StegBlock(s, k).seq = tx[s].next_to_send
           /\ StegBlock(s, k).from = buf[s].taken
           /\ StegBlock(s, k).n = 0
<1> DEFINE op == IF k = ckt[s].steg /\ FinDue(s) THEN "STEG_FIN" ELSE "STEG0"
<1>1. op \in Ops
  BY DEF Ops
<1>2. StegBlock(s, k) = NewBlock(tx[s], op, buf[s].taken, 0, NoAck)
  BY DEF StegBlock
<1>3. tx[s] \in TxQueues
  BY DEF QueuesOK
<1> HIDE DEF op
<1>4. NewBlock(tx[s], op, buf[s].taken, 0, NoAck) \in Blocks
  BY <1>1, <1>3, PendingType, NewBlockType, NoAckType
<1> QED
  BY <1>2, <1>4 DEF NewBlock

LEMMA TransmitDataType ==
    ASSUME TypeOK, NEW s \in Sides, NEW cap \in Nat, NEW ok \in BOOLEAN,
           TransmitData(s, DataBlock(s, cap), ok), rx' = rx, out' = out
    PROVE  NetOK' /\ QueuesOK' /\ BuffersOK'
<1> DEFINE b == DataBlock(s, cap)
<1>1. b \in Blocks /\ b.n <= Pending(s)
  BY DataBlockType DEF TypeOK
<1> HIDE DEF b
<1>2. TransmitData(s, b, ok)
  BY DEF b
<1>3. NetOK'
  BY <1>1, <1>2, WireType DEF TypeOK, TransmitData
<1>4. QueuesOK'
  BY <1>1, <1>2, EnqueueTxType DEF TypeOK, TransmitData
<1>5. BuffersOK'
  BY <1>1, <1>2, PendingType DEF TypeOK, BuffersOK, TransmitData, Blocks
<1> QED
  BY <1>3, <1>4, <1>5

LEMMA TransmitStegType ==
    ASSUME TypeOK, NEW s \in Sides, NEW k \in Nat, NEW ok \in BOOLEAN,
           TransmitSteg(s, StegBlock(s, k), ok), rx' = rx, out' = out
    PROVE  NetOK' /\ QueuesOK' /\ BuffersOK'
<1> DEFINE b == StegBlock(s, k)
<1>1. b \in Blocks
  BY StegBlockType DEF TypeOK
<1> HIDE DEF b
<1>2. TransmitSteg(s, b, ok)
  BY DEF b
<1>3. NetOK'
  BY <1>1, <1>2, WireType DEF TypeOK, TransmitSteg
<1>4. QueuesOK'
  BY <1>1, <1>2, EnqueueTxType DEF TypeOK, TransmitSteg
<1>5. BuffersOK'
  BY <1>2 DEF TypeOK, BuffersOK, TransmitSteg
<1> QED
  BY <1>3, <1>4, <1>5

LEMMA StegSentType ==
    ASSUME TypeOK, NEW s \in Sides, NEW k \in 1 .. ckt[s].steg, NEW ok \in BOOLEAN
    PROVE  StegSent(s, k, ok) \in Circuits
<1>1. ckt[s] \in Circuits /\ k \in Nat
  BY DEF TypeOK, CircuitsOK, Circuits
<1>2. [ckt[s] EXCEPT !.steg = @ - k] \in Circuits
  BY <1>1 DEF Circuits
<1>3. StegBlock(s, k).op \in Ops
  BY <1>1, StegBlockType DEF TypeOK, Blocks
<1> QED
  BY <1>2, <1>3, FlushOps DEF StegSent

LEMMA SendSpecialType ==
    ASSUME TypeOK, NEW s \in Sides, NEW op \in Ops, NEW ack \in AckPayloads,
           NEW wire \in Wires, SendSpecial(s, op, ack, wire), rx' = rx
    PROVE  NetOK' /\ QueuesOK'
<1> DEFINE b == NewBlock(tx[s], op, buf[s].taken, 0, ack)
<1>1. b \in Blocks
  BY NewBlockType, PendingType DEF TypeOK, QueuesOK
<1> HIDE DEF b
<1>2. tx' = [tx EXCEPT ![s] = Enqueue(@, b)]
  BY DEF SendSpecial, b
<1>3. Emit(s, b) \/ NoTraffic \/ TransmitFails(s)
  BY DEF SendSpecial, Wires, b
<1> QED
  BY <1>1, <1>2, <1>3, EmitType, NoTrafficType, TransmitFailsType, EnqueueTxType DEF TypeOK

LEMMA ResendType ==
    ASSUME TypeOK, NEW s \in Sides, NEW i \in Nat, NEW ok \in BOOLEAN,
           ~HeadMissing(s, i), Resend(s, i, ok), rx' = rx
    PROVE  NetOK' /\ QueuesOK'
<1>1. tx[s] \in TxQueues
  BY DEF TypeOK, QueuesOK
<1>2. /\ Retransmitted(tx[s], i) \in TxQueues
      /\ Retransmitted(tx[s], i).cbuf[Slot(i)] \in Blocks
  BY <1>1, RetransmittedType DEF HeadMissing
<1>3. NetOK'
  BY <1>2, WireType DEF Resend, TypeOK
<1>4. QueuesOK'
  BY <1>2 DEF Resend, TypeOK, QueuesOK
<1> QED
  BY <1>3, <1>4

LEMMA TxIterationType ==
    ASSUME TypeOK, NEW s \in Sides
    PROVE  TxIteration(tx[s]) \subseteq Nat
BY DEF TypeOK, QueuesOK, TxQueues, TxIteration

LEMMA CapacityType == \A s : Capacities(s) \subseteq Nat
BY CircuitAssumption DEF Capacities

\* A side without a callback, or the side the callback runs on, has a circuit
\* of the right type.
LEMMA CircuitOf ==
    ASSUME TypeOK
    PROVE  /\ \A s \in Sides : ckt[s] \in Circuits
           /\ ctl.side \in Sides /\ ctl.caller \in Callers
           /\ \A s \in Sides : tx[s] \in TxQueues /\ rx[s] \in RxQueues
BY DEF TypeOK, CircuitsOK, QueuesOK, Ctls

LEMMA DequeueType ==
    ASSUME TypeOK, NEW s \in Sides, Dequeue(s), tx' = tx
    PROVE  QueuesOK'
BY RemoveNextType DEF TypeOK, QueuesOK, Dequeue

\* What comes out of a queue element is a sequence of units.
LEMMA UnitsType ==
    ASSUME NEW e \in RxElts
    PROVE  /\ Units(e) \in Seq(Nat) /\ Len(Units(e)) = e.n
           /\ \A k \in 1 .. e.n : Units(e)[k] = e.from + k
<1>1. e.n \in Nat /\ e.from \in Nat
  BY DEF RxElts
<1>2. \A k \in 1 .. e.n : e.from + k \in Nat
  BY <1>1
<1>3. Units(e) \in [1 .. e.n -> Nat]
  BY <1>2 DEF Units
<1> QED
  BY <1>1, <1>3, LenProperties, SeqDef DEF Units

\* Appending them to an output.
LEMMA Appended ==
    ASSUME NEW u \in Seq(Nat), NEW e \in RxElts
    PROVE  /\ u \o Units(e) \in Seq(Nat)
           /\ Len(u \o Units(e)) = Len(u) + e.n
           /\ \A i \in 1 .. Len(u) + e.n :
                 (u \o Units(e))[i] = IF i <= Len(u) THEN u[i]
                                      ELSE Units(e)[i - Len(u)]
<1> DEFINE v == Units(e)
<1>1. v \in Seq(Nat) /\ Len(v) = e.n
  BY UnitsType
<1> HIDE DEF v
<1>2. /\ u \o v \in Seq(Nat)
      /\ Len(u \o v) = Len(u) + Len(v)
      /\ \A i \in 1 .. Len(u) + Len(v) :
            (u \o v)[i] = IF i <= Len(u) THEN u[i] ELSE v[i - Len(u)]
  BY <1>1, ConcatProperties, Zenon
<1> QED
  BY <1>1, <1>2, Zenon DEF v

(***************************************************************************)
(* Type correctness, action by action.                                     *)
(***************************************************************************)
\* The start of the callbacks that leave the queues alone.
LEMMA TypeUpstream ==
    ASSUME TypeOK, NEW s \in Sides,
           \/ UpstreamRead(s) \/ UpstreamEof(s) \/ UpstreamError(s)
           \/ UpstreamFlush(s) \/ UpstreamConnect(s) \/ FlushTimer(s) \/ AxeTimer(s)
           \/ LastConnDrops(s) \/ StegData(s)
    PROVE  TypeOK'
<1>0. ckt[s] \in Circuits
  BY CircuitOf
<1>1. CASE UpstreamRead(s)
  <2>1. NetOK' /\ QueuesOK'
    BY <1>1, NoTrafficType DEF UpstreamRead, TypeOK, QueuesOK
  <2>2. PICK k \in 1 .. Offer[s] - buf[s].read : buf' = [buf EXCEPT ![s].read = @ + k]
    BY <1>1 DEF UpstreamRead
  <2>3. Offer[s] \in Nat /\ k \in Nat
    BY CircuitAssumption DEF TypeOK, BuffersOK
  <2>4. BuffersOK'
    BY <1>1, <2>2, <2>3 DEF UpstreamRead, TypeOK, BuffersOK
  <2>5. CircuitsOK'
    BY <1>1, <1>0, CallSendType DEF UpstreamRead, TypeOK, Callers
  <2> QED
    BY <2>1, <2>4, <2>5 DEF TypeOK
<1>2. CASE UpstreamEof(s)
  <2>1. NetOK' /\ QueuesOK' /\ BuffersOK'
    BY <1>2, NoTrafficType DEF UpstreamEof, TypeOK, QueuesOK, BuffersOK
  <2>2. [ckt[s] EXCEPT !.upstream_eof = TRUE] \in Circuits
    BY <1>0 DEF Circuits
  <2>3. CircuitsOK'
    BY <1>2, <2>2, CallSendType DEF UpstreamEof, TypeOK, Callers
  <2> QED
    BY <2>1, <2>3 DEF TypeOK
<1>3. CASE UpstreamError(s)
  <2>1. NetOK' /\ QueuesOK' /\ BuffersOK'
    BY <1>3 DEF UpstreamError, Fault, TypeOK, NetOK, QueuesOK, BuffersOK
  <2>2. CircuitsOK'
    BY <1>3, <1>0, CircuitOps, SetCktType DEF UpstreamError, TypeOK, CircuitsOK
  <2> QED
    BY <2>1, <2>2 DEF TypeOK
<1>4. CASE UpstreamFlush(s)
  <2>1. NetOK' /\ QueuesOK' /\ BuffersOK'
    BY <1>4, NoTrafficType DEF UpstreamFlush, TypeOK, QueuesOK, BuffersOK
  <2>2. [ckt[s] EXCEPT !.outbuf = FALSE] \in Circuits
    BY <1>0 DEF Circuits
  <2>3. CircuitsOK'
    BY <1>4, <2>2, FlushOps, SetCktType DEF UpstreamFlush, TypeOK, CircuitsOK
  <2> QED
    BY <2>1, <2>3 DEF TypeOK
<1>5. CASE UpstreamConnect(s)
  <2>1. NetOK' /\ QueuesOK' /\ BuffersOK'
    BY <1>5, NoTrafficType DEF UpstreamConnect, TypeOK, QueuesOK, BuffersOK
  <2> DEFINE c == [ckt[s] EXCEPT !.connected = TRUE]
  <2>2. c \in Circuits
    BY <1>0 DEF Circuits
  <2>3. SetCkt(s, IF c.pending_write_eof THEN RecvEof(c) ELSE c) /\ ctl' = ctl
    BY <1>5 DEF UpstreamConnect
  <2> HIDE DEF c
  <2>4. CircuitsOK'
    BY <2>2, <2>3, CircuitOps, SetCktType DEF TypeOK, CircuitsOK
  <2> QED
    BY <2>1, <2>4 DEF TypeOK
<1>6. CASE FlushTimer(s)
  <2>1. NetOK' /\ QueuesOK' /\ BuffersOK'
    BY <1>6, NoTrafficType DEF FlushTimer, TypeOK, QueuesOK, BuffersOK
  <2>2. CircuitsOK'
    BY <1>6, <1>0, CallSendType DEF FlushTimer, TypeOK, Callers
  <2> QED
    BY <2>1, <2>2 DEF TypeOK
<1>7. CASE AxeTimer(s)
  <2>1. NetOK' /\ QueuesOK' /\ BuffersOK'
    BY <1>7 DEF AxeTimer, Fault, TypeOK, NetOK, QueuesOK, BuffersOK
  <2>2. [ckt[s] EXCEPT !.axe_timer = FALSE] \in Circuits
    BY <1>0 DEF Circuits
  <2>3. CircuitsOK'
    BY <1>7, <2>2, FlushOps, SetCktType DEF AxeTimer, TypeOK, CircuitsOK
  <2> QED
    BY <2>1, <2>3 DEF TypeOK
<1>8. CASE LastConnDrops(s)
  <2>1. NetOK' /\ QueuesOK' /\ BuffersOK'
    BY <1>8, NoTrafficType DEF LastConnDrops, TypeOK, QueuesOK, BuffersOK
  <2>2. CircuitsOK'
    BY <1>8, <1>0, FlushOps, SetCktType DEF LastConnDrops, TypeOK, CircuitsOK
  <2> QED
    BY <2>1, <2>2 DEF TypeOK
<1>9. CASE StegData(s)
  <2>1. NetOK' /\ QueuesOK' /\ BuffersOK'
    BY <1>9, NoTrafficType DEF StegData, TypeOK, QueuesOK, BuffersOK
  <2>2. [ckt[s] EXCEPT !.steg = @ + 1, !.stegleft = @ - 1] \in Circuits
    <3>1. \A c \in Circuits, x, y \in Nat : [c EXCEPT !.steg = x, !.stegleft = y] \in Circuits
      BY DEF Circuits
    <3>2. ckt[s].steg + 1 \in Nat /\ ckt[s].stegleft - 1 \in Nat
      BY <1>9, <1>0 DEF StegData, Circuits
    <3> QED
      BY <1>0, <3>1, <3>2
  <2>3. CircuitsOK'
    BY <1>9, <2>2, SetCktType DEF StegData, TypeOK, CircuitsOK
  <2> QED
    BY <2>1, <2>3 DEF TypeOK
<1> QED
  BY <1>1, <1>2, <1>3, <1>4, <1>5, <1>6, <1>7, <1>8, <1>9

\* chop_conn_t::send.
LEMMA TypeMustSend ==
    ASSUME TypeOK, NEW s \in Sides,
           MustSendSteg(s) \/ MustSendRetransmit(s) \/ MustSendNew(s)
    PROVE  TypeOK'
<1>0. ckt[s] \in Circuits /\ ckt[s].steg \in Nat
  BY CircuitOf DEF Circuits
<1>1. CASE MustSendSteg(s)
  <2>1. PICK k \in 1 .. ckt[s].steg, ok \in BOOLEAN :
            /\ TransmitSteg(s, StegBlock(s, k), ok)
            /\ SetSpoken(s, StegSent(s, k, ok), ok)
    BY <1>1 DEF MustSendSteg
  <2>2. k \in Nat /\ UNCHANGED <<rx, out, ctl>>
    BY <1>0, <1>1 DEF MustSendSteg
  <2>3. NetOK' /\ QueuesOK' /\ BuffersOK'
    BY <2>1, <2>2, TransmitStegType
  <2>4. ckt' \in [Sides -> Circuits]
    BY <2>1, StegSentType, SetSpokenType DEF TypeOK
  <2> QED
    BY <2>2, <2>3, <2>4 DEF TypeOK, CircuitsOK
<1>2. CASE MustSendRetransmit(s)
  <2>1. PICK i \in TxIteration(tx[s]), ok \in BOOLEAN :
            IF HeadMissing(s, i)
            THEN SetCkt(s, Abort(ckt[s])) /\ NoTraffic /\ UNCHANGED tx
            ELSE Resend(s, i, ok) /\ SetSpoken(s, ckt[s], ok)
    BY <1>2 DEF MustSendRetransmit
  <2>2. i \in Nat /\ UNCHANGED <<rx, buf, out, ctl>>
    BY <1>2, TxIterationType DEF MustSendRetransmit
  <2>3. NetOK' /\ QueuesOK'
    BY <2>1, <2>2, ResendType, NoTrafficType DEF TypeOK, QueuesOK
  <2>4. BuffersOK'
    BY <2>2 DEF TypeOK, BuffersOK
  <2>5. ckt' \in [Sides -> Circuits]
    BY <1>0, <2>1, CircuitOps, SetCktType, SetSpokenType DEF TypeOK
  <2> QED
    BY <2>2, <2>3, <2>4, <2>5 DEF TypeOK, CircuitsOK
<1>3. CASE MustSendNew(s)
  <2>1. PICK cap \in Capacities(s), ok \in BOOLEAN :
            /\ TransmitData(s, DataBlock(s, cap), ok)
            /\ SetSpoken(s, IF ok THEN AfterTransmit(ckt[s], DataBlock(s, cap).op,
                                                     DataBlock(s, cap).n)
                            ELSE ckt[s], ok)
    BY <1>3 DEF MustSendNew
  <2>2. cap \in Nat /\ UNCHANGED <<rx, out, ctl>>
    BY <1>3, CapacityType DEF MustSendNew
  <2>3. NetOK' /\ QueuesOK' /\ BuffersOK'
    BY <2>1, <2>2, TransmitDataType
  <2>4. DataBlock(s, cap).op \in Ops /\ DataBlock(s, cap).n \in Nat
    BY <2>2, DataBlockType DEF TypeOK, Blocks
  <2>5. ckt' \in [Sides -> Circuits]
    BY <1>0, <2>1, <2>4, FlushOps, SetSpokenType DEF TypeOK
  <2> QED
    BY <2>2, <2>3, <2>5 DEF TypeOK, CircuitsOK
<1> QED
  BY <1>1, <1>2, <1>3

\* Arrivals and losses.
LEMMA TypeArrival ==
    ASSUME TypeOK, NEW s \in Sides,
           Recv(s) \/ RecvOpenFails(s) \/ RecvStale(s) \/ LoseBlock(s)
    PROVE  TypeOK'
<1>0. ckt[s] \in Circuits /\ tx[s] \in TxQueues /\ rx[s] \in RxQueues
  BY CircuitOf
<1>1. CASE Recv(s)
  <2>1. PICK b \in net[s] : RecvBlock(s, b)
    BY <1>1 DEF Recv
  <2>2. b \in Blocks
    BY DEF TypeOK, NetOK
  <2>3. NetOK' /\ BuffersOK'
    BY <2>1 DEF RecvBlock, TypeOK, NetOK, BuffersOK
  <2>4. RxElt(b) \in RxElts /\ b.seq \in Nat /\ b.ack \in AckPayloads
    BY <2>2 DEF RxElt, RxElts, Blocks, Ops
  <2>5. QueuesOK'
    <3>1. Insert(rx[s], b.seq, RxElt(b)) \in RxQueues
      BY <1>0, <2>4, InsertType
    <3>2. ProcessAck(tx[s], b.ack) \in TxQueues
      BY <1>0, <2>4, ProcessAckType
    <3> QED
      BY <2>1, <3>1, <3>2 DEF RecvBlock, TypeOK, QueuesOK
  <2>6. Opened(s) \subseteq Circuits
    <3>1. \A axe \in BOOLEAN :
             [ckt[s] EXCEPT !.status = "open", !.axe_timer = axe] \in Circuits
      BY <1>0 DEF Circuits, Status
    <3>2. ckt[s].axe_timer \in BOOLEAN
      BY <1>0 DEF Circuits
    <3> QED
      BY <3>1, <3>2 DEF Opened
  <2>7. ckt' \in [Sides -> Circuits]
    BY <2>1, <2>6, CircuitOps, SetCktType DEF RecvBlock, TypeOK
  <2>8. ctl' \in Ctls
    BY <2>1 DEF RecvBlock, Idle, Ctls, Stages, Callers
  <2> QED
    BY <2>3, <2>5, <2>7, <2>8 DEF TypeOK, CircuitsOK
<1>2. CASE RecvOpenFails(s)
  <2>1. NetOK' /\ QueuesOK' /\ BuffersOK'
    BY <1>2 DEF RecvOpenFails, Fault, TypeOK, NetOK, QueuesOK, BuffersOK
  <2>2. CircuitsOK'
    BY <1>2, <1>0, CircuitOps, SetCktType DEF RecvOpenFails, TypeOK, CircuitsOK
  <2> QED
    BY <2>1, <2>2 DEF TypeOK
<1>3. CASE RecvStale(s)
  BY <1>3 DEF RecvStale, TypeOK, NetOK, QueuesOK, BuffersOK, CircuitsOK
<1>4. CASE LoseBlock(s)
  BY <1>4 DEF LoseBlock, Fault, TypeOK, NetOK, QueuesOK, BuffersOK, CircuitsOK
<1> QED
  BY <1>1, <1>2, <1>3, <1>4

\* process_queue, and the retransmission an ACK triggers.
LEMMA TypeReceive ==
    ASSUME TypeOK,
           \/ AckRetransmit \/ DrainData \/ DrainAbort \/ DrainAfterFin \/ DrainSteg
           \/ DrainStegFin \/ SendRst \/ DrainError \/ NoAckNeeded \/ SendAck \/ AckFails
    PROVE  TypeOK'
<1> DEFINE s == ctl.side
           e == Front(rx[s])
<1>0. /\ s \in Sides /\ ckt[s] \in Circuits
      /\ tx[s] \in TxQueues /\ rx[s] \in RxQueues
      /\ e \in RxElts \cup {NoRxElt}
  BY CircuitOf, FrontType
<1> HIDE DEF s, e
<1>1. CASE AckRetransmit
  <2>1. UNCHANGED <<rx, buf, out>>
    BY <1>1 DEF AckRetransmit
  <2>2. CASE Go("recv") /\ NoTraffic /\ UNCHANGED <<tx, ckt>>
    BY <2>1, <2>2, NoTrafficType, GoType DEF TypeOK, QueuesOK, BuffersOK, CircuitsOK, Stages
  <2>3. CASE \E i \in TxIteration(tx[s]), ok \in BOOLEAN :
                 IF HeadMissing(s, i)
                 THEN SetCkt(s, Abort(ckt[s])) /\ ctl' = Idle /\ NoTraffic /\ UNCHANGED tx
                 ELSE Resend(s, i, ok) /\ Go("recv") /\ UNCHANGED ckt
    <3>1. PICK i \in TxIteration(tx[s]), ok \in BOOLEAN :
                 IF HeadMissing(s, i)
                 THEN SetCkt(s, Abort(ckt[s])) /\ ctl' = Idle /\ NoTraffic /\ UNCHANGED tx
                 ELSE Resend(s, i, ok) /\ Go("recv") /\ UNCHANGED ckt
      BY <2>3
    <3>2. i \in Nat
      BY <1>0, TxIterationType
    <3>3. NetOK' /\ QueuesOK'
      BY <1>0, <2>1, <3>1, <3>2, ResendType, NoTrafficType DEF TypeOK, QueuesOK
    <3>4. CircuitsOK'
      BY <1>0, <3>1, CircuitOps, SetCktType, IdleType, GoType DEF TypeOK, CircuitsOK, Stages
    <3> QED
      BY <2>1, <3>3, <3>4 DEF TypeOK, BuffersOK
  <2> QED
    BY <1>1, <2>2, <2>3 DEF AckRetransmit, s
<1>2. CASE DrainData
  <2> DEFINE c == IF e.n > 0 THEN [ckt[s] EXCEPT !.dead = FALSE, !.outbuf = TRUE]
                  ELSE ckt[s]
  <2>1. /\ Draining(s) /\ Dequeue(s) /\ out' = [out EXCEPT ![s] = @ \o Units(e)]
        /\ SetCkt(s, IF e.op = "FIN"
                     THEN [RecvEof(c) EXCEPT !.received_fin = TRUE] ELSE c)
        /\ Go("drain") /\ NoTraffic /\ UNCHANGED <<tx, buf>>
    BY <1>2 DEF DrainData, s, e
  <2>2. e \in RxElts
    BY <1>0, <2>1 DEF Draining, e
  <2>3. c \in Circuits
    BY <1>0 DEF Circuits
  <2> HIDE DEF c
  <2>4. [RecvEof(c) EXCEPT !.received_fin = TRUE] \in Circuits
    <3>1. RecvEof(c) \in Circuits
      BY <1>0, <2>3, CircuitOps
    <3> QED
      BY <3>1 DEF Circuits
  <2>5. CircuitsOK'
    BY <1>0, <2>1, <2>3, <2>4, SetCktType, GoType DEF TypeOK, CircuitsOK, Stages
  <2>6. out' \in [Sides -> Seq(Nat)]
    <3>1. out[s] \in Seq(Nat)
      BY <1>0 DEF TypeOK, BuffersOK
    <3>2. out[s] \o Units(e) \in Seq(Nat)
      BY <2>2, <3>1, Appended
    <3> QED
      BY <2>1, <3>2 DEF TypeOK, BuffersOK
  <2>7. NetOK' /\ QueuesOK'
    BY <1>0, <2>1, NoTrafficType, DequeueType DEF TypeOK
  <2> QED
    BY <2>1, <2>5, <2>6, <2>7 DEF TypeOK, BuffersOK
<1>3. CASE DrainAbort
  BY <1>0, <1>3, CircuitOps, SetCktType, IdleType, NoTrafficType
  DEF DrainAbort, TypeOK, QueuesOK, BuffersOK, CircuitsOK, s
<1>4. CASE DrainAfterFin
  <2>1. QueuesOK'
    BY <1>0, <1>4, DequeueType DEF DrainAfterFin, s
  <2>2. ctl' \in Ctls
    BY <1>4 DEF DrainAfterFin, TypeOK, CircuitsOK, Ctls, Stages
  <2> QED
    BY <1>4, <2>1, <2>2, NoTrafficType DEF DrainAfterFin, TypeOK, BuffersOK, CircuitsOK
<1>5. CASE DrainSteg
  <2>1. QueuesOK'
    BY <1>0, <1>5, DequeueType DEF DrainSteg, s
  <2>2. ctl' \in Ctls
    BY <1>5 DEF DrainSteg, TypeOK, CircuitsOK, Ctls, Stages, Callers
  <2>3. [ckt[s] EXCEPT !.flush_timer = FALSE] \in Circuits
    BY <1>0 DEF Circuits
  <2>4. ckt' \in [Sides -> Circuits]
    BY <1>0, <1>5, <2>3, SetCktType DEF DrainSteg, TypeOK, s
  <2> QED
    BY <1>5, <2>1, <2>2, <2>4, NoTrafficType DEF DrainSteg, TypeOK, BuffersOK, CircuitsOK
<1>6. CASE DrainStegFin
  <2>1. [RecvEof(ckt[s]) EXCEPT !.received_fin = TRUE] \in Circuits
    <3>1. RecvEof(ckt[s]) \in Circuits
      BY <1>0, CircuitOps
    <3> QED
      BY <3>1 DEF Circuits
  <2>2. ckt' \in [Sides -> Circuits]
    BY <1>0, <1>6, <2>1, SetCktType DEF DrainStegFin, TypeOK, s
  <2>3. ctl' \in Ctls
    BY <1>6 DEF DrainStegFin, TypeOK, CircuitsOK, Ctls, Stages
  <2> QED
    BY <1>6, <2>2, <2>3, NoTrafficType DEF DrainStegFin, TypeOK, QueuesOK, BuffersOK, CircuitsOK
<1>7. CASE SendRst
  <2>1. CASE \E wire \in Wires : SendSpecial(s, "RST", NoAck, wire)
    <3>1. NetOK' /\ QueuesOK'
      BY <1>0, <1>7, <2>1, NoAckType, SendSpecialType DEF SendRst, Ops
    <3> QED
      BY <1>7, <3>1, GoType DEF SendRst, TypeOK, BuffersOK, CircuitsOK, Stages
  <2>2. CASE NoTraffic /\ UNCHANGED tx
    BY <1>7, <2>2, NoTrafficType, GoType
    DEF SendRst, TypeOK, QueuesOK, BuffersOK, CircuitsOK, Stages
  <2> QED
    BY <1>7, <2>1, <2>2 DEF SendRst, s
<1>8. CASE DrainError
  BY <1>0, <1>8, RecvFailsType, NoTrafficType DEF DrainError, TypeOK, QueuesOK, BuffersOK, s
<1>9. CASE NoAckNeeded
  BY <1>0, <1>9, ProceedType, NoTrafficType DEF NoAckNeeded, TypeOK, QueuesOK, BuffersOK, s
<1>10. Acked(s) \in Circuits
  BY <1>0 DEF Acked, Circuits, RxQueues
<1>11. CASE SendAck
  <2>1. PICK wire \in Wires :
            /\ SendSpecial(s, "ACK", GenAck(rx[s]), wire)
            /\ IF wire = "fails" THEN RecvFails(s, Acked(s)) ELSE Proceed(s, Acked(s))
    BY <1>11 DEF SendAck, s
  <2>2. GenAck(rx[s]) \in AckPayloads
    BY <1>0, <1>11, GenAckType DEF SendAck, s
  <2>3. NetOK' /\ QueuesOK'
    BY <1>0, <1>11, <2>1, <2>2, SendSpecialType DEF SendAck, Ops
  <2>4. CircuitsOK'
    BY <1>0, <1>10, <2>1, RecvFailsType, ProceedType DEF TypeOK
  <2> QED
    BY <1>11, <2>3, <2>4 DEF SendAck, TypeOK, BuffersOK
<1>12. CASE AckFails
  <2>1. CircuitsOK'
    BY <1>0, <1>10, <1>12, RecvFailsType, CircuitOps, SetCktType, IdleType
    DEF AckFails, TypeOK, CircuitsOK, s
  <2> QED
    BY <1>12, <2>1, NoTrafficType DEF AckFails, TypeOK, QueuesOK, BuffersOK
<1> QED
  BY <1>1, <1>2, <1>3, <1>4, <1>5, <1>6, <1>7, <1>8, <1>9, <1>11, <1>12

\* send().
LEMMA TypeSend ==
    ASSUME TypeOK,
           \/ SendSteg \/ SendStegEnd \/ SendRetransmit \/ SendNothing
           \/ LoopBlock \/ LoopFull \/ SendNoConn \/ SendTail \/ Bye
    PROVE  TypeOK'
<1> DEFINE s == ctl.side
<1>0. /\ s \in Sides /\ ckt[s] \in Circuits /\ ckt[s].steg \in Nat
      /\ ctl.caller \in Callers
  BY CircuitOf DEF Circuits
<1> HIDE DEF s
<1>1. CASE SendSteg
  <2>1. PICK k \in 1 .. ckt[s].steg, ok \in BOOLEAN :
            /\ TransmitSteg(s, StegBlock(s, k), ok)
            /\ SetCkt(s, StegSent(s, k, ok))
            /\ IF ok THEN UNCHANGED ctl ELSE Go("send")
    BY <1>1 DEF SendSteg, s
  <2>2. k \in Nat /\ UNCHANGED <<rx, out>>
    BY <1>0, <1>1 DEF SendSteg
  <2>3. NetOK' /\ QueuesOK' /\ BuffersOK'
    BY <1>0, <2>1, <2>2, TransmitStegType
  <2>4. ckt' \in [Sides -> Circuits]
    BY <1>0, <2>1, StegSentType, SetCktType DEF TypeOK
  <2>5. ctl' \in Ctls
    BY <2>1, GoType DEF TypeOK, CircuitsOK, Stages
  <2> QED
    BY <2>3, <2>4, <2>5 DEF TypeOK, CircuitsOK
<1>2. CASE SendStegEnd
  <2>1. [ckt[s] EXCEPT !.dead = TRUE] \in Circuits
    BY <1>0 DEF Circuits
  <2>2. CircuitsOK'
    BY <1>0, <1>2, <2>1, SetCktType, GoType DEF SendStegEnd, TypeOK, CircuitsOK, Stages, s
  <2> QED
    BY <1>2, <2>2, NoTrafficType DEF SendStegEnd, TypeOK, QueuesOK, BuffersOK
<1>3. CASE SendRetransmit
  <2>1. PICK i \in TxIteration(tx[s]) :
            IF HeadMissing(s, i)
            THEN SetCkt(s, Abort(ckt[s])) /\ ctl' = Idle /\ NoTraffic /\ UNCHANGED tx
            ELSE \/ Resend(s, i, TRUE) /\ Go("tail") /\ UNCHANGED ckt
                 \/ Resend(s, i, FALSE) /\ Return(s, ckt[s], FALSE)
                 \/ /\ ~CanRetransmit(tx[s], i)
                    /\ Return(s, ckt[s], FALSE)
                    /\ NoTraffic /\ UNCHANGED tx
    BY <1>3 DEF SendRetransmit, s
  <2>2. i \in Nat /\ UNCHANGED <<rx, buf, out>>
    BY <1>0, <1>3, TxIterationType DEF SendRetransmit
  <2>3. NetOK' /\ QueuesOK'
    BY <1>0, <2>1, <2>2, ResendType, NoTrafficType DEF TypeOK, QueuesOK
  <2>4. CircuitsOK'
    BY <1>0, <2>1, CircuitOps, SetCktType, IdleType, GoType, ReturnType
    DEF TypeOK, CircuitsOK, Stages
  <2> QED
    BY <2>2, <2>3, <2>4 DEF TypeOK, BuffersOK
<1>4. CASE SendNothing
  BY <1>4, NoTrafficType, GoType DEF SendNothing, TypeOK, QueuesOK, BuffersOK, CircuitsOK, Stages
<1>5. CASE LoopBlock
  <2>1. PICK cap \in Capacities(s) :
            LET b == DataBlock(s, cap)
            IN  \/ /\ TransmitData(s, b, TRUE)
                   /\ SetCkt(s, AfterTransmit(ckt[s], b.op, b.n))
                   /\ ctl' = [ctl EXCEPT
                         !.at = IF b.n < Pending(s) THEN "loop" ELSE "tail",
                         !.moved = @ \/ b.n > 0]
                \/ /\ TransmitData(s, b, FALSE)
                   /\ Return(s, ckt[s], FALSE)
    BY <1>5 DEF LoopBlock, s
  <2>2. cap \in Nat /\ UNCHANGED <<rx, out>>
    BY <1>5, CapacityType DEF LoopBlock
  <2> DEFINE b == DataBlock(s, cap)
  <2>3. b.op \in Ops /\ b.n \in Nat
    BY <1>0, <2>2, DataBlockType DEF TypeOK, Blocks
  <2>4. NetOK' /\ QueuesOK' /\ BuffersOK'
    BY <1>0, <2>1, <2>2, TransmitDataType
  <2> HIDE DEF b
  <2>5. CASE /\ SetCkt(s, AfterTransmit(ckt[s], b.op, b.n))
             /\ ctl' = [ctl EXCEPT
                         !.at = IF b.n < Pending(s) THEN "loop" ELSE "tail",
                         !.moved = @ \/ b.n > 0]
    <3>1. ckt' \in [Sides -> Circuits]
      BY <1>0, <2>3, <2>5, FlushOps, SetCktType DEF TypeOK
    <3>2. ctl' \in Ctls
      BY <2>5 DEF TypeOK, CircuitsOK, Ctls, Stages
    <3> QED
      BY <2>4, <3>1, <3>2 DEF TypeOK, CircuitsOK
  <2>6. CASE Return(s, ckt[s], FALSE)
    BY <1>0, <2>4, <2>6, ReturnType DEF TypeOK
  <2> QED
    BY <2>1, <2>5, <2>6 DEF b
<1>6. CASE LoopFull
  BY <1>0, <1>6, ReturnType, NoTrafficType DEF LoopFull, TypeOK, QueuesOK, BuffersOK, s
<1>7. CASE SendNoConn
  <2>1. ctl' \in Ctls
    BY <1>7 DEF SendNoConn, TypeOK, CircuitsOK, Ctls, Stages
  <2> QED
    BY <1>7, <2>1, NoTrafficType DEF SendNoConn, TypeOK, QueuesOK, BuffersOK, CircuitsOK
<1>8. CASE SendTail
  <2> DEFINE c == IF ctl.moved THEN ckt[s] ELSE [ckt[s] EXCEPT !.dead = TRUE]
  <2>1. c \in Circuits
    BY <1>0 DEF Circuits
  <2>2. /\ [c EXCEPT !.axe_timer = FALSE] \in Circuits
        /\ ArmAxe(c) \in Circuits /\ Close(c) \in Circuits
    <3> HIDE DEF c
    <3>1. [c EXCEPT !.axe_timer = FALSE] \in Circuits
      BY <2>1 DEF Circuits
    <3> QED
      BY <1>0, <2>1, <3>1, CircuitOps
  <2>3. /\ UNCHANGED <<tx, rx, buf, out>>
        /\ NoTraffic \/ (Fault("reopen") /\ UNCHANGED <<net, sent, nsent>>)
        /\ \/ ReturnEof(s, c, ctl.caller)
           \/ ReturnEof(s, ArmAxe(c), ctl.caller)
           \/ ReturnEof(s, [c EXCEPT !.axe_timer = FALSE], ctl.caller)
           \/ ReturnEof(s, Close(c), ctl.caller)
    BY <1>8 DEF SendTail, s
  <2> HIDE DEF c
  <2>4. CircuitsOK'
    BY <1>0, <2>1, <2>2, <2>3, ReturnEofType DEF TypeOK
  <2>5. NetOK'
    BY <2>3, NoTrafficType DEF TypeOK, NetOK, Fault
  <2> QED
    BY <2>3, <2>4, <2>5 DEF TypeOK, QueuesOK, BuffersOK
<1>9. CASE Bye
  BY <1>0, <1>9, ReturnType, NoTrafficType DEF Bye, TypeOK, QueuesOK, BuffersOK, s
<1> QED
  BY <1>1, <1>2, <1>3, <1>4, <1>5, <1>6, <1>7, <1>8, <1>9

LEMMA TypeInit == Init => TypeOK
<1> SUFFICES ASSUME Init PROVE TypeOK
  OBVIOUS
<1>1. \A s \in Sides : InitialCircuit(s) \in Circuits
  BY CircuitAssumption DEF InitialCircuit, Circuits, Status
<1>2. NetOK
  BY DEF Init, NetOK
<1>3. QueuesOK
  BY EmptyTxType, EmptyRxType DEF Init, QueuesOK
<1>4. BuffersOK
  BY EmptySeq DEF Init, BuffersOK
<1>5. CircuitsOK
  BY <1>1, IdleType DEF Init, CircuitsOK
<1> QED
  BY <1>2, <1>3, <1>4, <1>5 DEF TypeOK

LEMMA TypeNext == TypeOK /\ [Next]_vars => TypeOK'
<1> SUFFICES ASSUME TypeOK, [Next]_vars PROVE TypeOK'
  OBVIOUS
<1>1. CASE Step
  BY <1>1, TypeReceive, TypeSend DEF Step
<1>2. ASSUME NEW s \in Sides, Event(s) PROVE TypeOK'
  BY <1>2, TypeUpstream, TypeMustSend, TypeArrival DEF Event
<1>3. CASE UNCHANGED vars
  BY <1>3 DEF vars, TypeOK, NetOK, QueuesOK, BuffersOK, CircuitsOK
<1> QED
  BY <1>1, <1>2, <1>3 DEF Next

\* Every reachable state is well-typed, for every window size, amount of data
\* and number of faults: no handler of chop.cc takes more from the upstream
\* buffer than is there or files a block outside the rings.
THEOREM TypeCorrect == Spec => []TypeOK
<1>1. Init => TypeOK
  BY TypeInit
<1>2. TypeOK /\ [Next]_vars => TypeOK'
  BY TypeNext
<1> QED
  BY <1>1, <1>2, PTL DEF Spec

-----------------------------------------------------------------------------
(***************************************************************************)
(* ORDER.  Two chop circuits keep each upstream byte stream in order: the  *)
(* proof that StreamInv is inductive.                                      *)
(*                                                                         *)
(* What a step does to the data of a side comes in few shapes, whichever   *)
(* of the 36 actions takes it.  DataStep lists them; StreamKeeps shows     *)
(* that each keeps the invariant, and DataNext that every action has one.  *)
(***************************************************************************)

(***************************************************************************)
(* The order of the stream.  What a step does to the data of one side:     *)
(* SendStep for the blocks it has cut, WireStep for the blocks on their    *)
(* way to it, QueueStep for what it has received.                          *)
(***************************************************************************)
SamePiece(b, c) == b.seq = c.seq /\ b.op = c.op /\ b.from = c.from /\ b.n = c.n

\* No new block; blocks may be released, sent, or sent again.
SendsOld(s) ==
    /\ tx'[s].next_to_send = tx[s].next_to_send
    /\ buf'[s].taken = buf[s].taken
    /\ \A b \in Known(s)' : \E c \in Known(s) : SamePiece(b, c)

\* One new block, cut from the stream where the last cut was made.
SendsNew(s) ==
    \E new \in Blocks :
        /\ new.seq = tx[s].next_to_send /\ new.from = buf[s].taken
        /\ new.op \notin {"DAT", "FIN"} => new.n = 0
        /\ tx'[s].next_to_send = tx[s].next_to_send + 1
        /\ buf'[s].taken = buf[s].taken + new.n
        /\ \A b \in Known(s)' : b = new \/ b \in Known(s)

SendStep(s) == sent[s] \subseteq sent'[s] /\ (SendsOld(s) \/ SendsNew(s))

WireStep(s) == net'[s] \subseteq net[s] \cup sent'[Peer(s)]

QueueStep(s) ==
    \/ rx'[s] = rx[s] /\ out'[s] = out[s]
    \/ \E b \in net[s] : rx'[s] = Insert(rx[s], b.seq, RxElt(b)) /\ out'[s] = out[s]
    \/ /\ Front(rx[s]) # NoRxElt /\ rx'[s] = RemoveNext(rx[s])
       /\ \/ ~ckt[s].received_fin /\ out'[s] = out[s] \o Units(Front(rx[s]))
          \/ /\ out'[s] = out[s]
             /\ ckt[s].received_fin \/ Front(rx[s]).op \notin {"DAT", "FIN"}

FinKept(s) == ckt[s].received_fin => ckt'[s].received_fin

DataStep == \A s \in Sides : SendStep(s) /\ WireStep(s) /\ QueueStep(s) /\ FinKept(s)

(***************************************************************************)
(* A DataStep keeps the invariant.                                         *)
(***************************************************************************)
LEMMA KnownType ==
    ASSUME TypeOK, NEW s \in Sides
    PROVE  /\ Known(s) \subseteq Blocks /\ sent[s] \subseteq Known(s)
           /\ tx[s].next_to_send \in Nat /\ buf[s].taken \in Nat
<1>1. tx[s] \in TxQueues /\ sent[s] \subseteq Blocks
  BY DEF TypeOK, QueuesOK, NetOK
<1>2. \A j \in Slots : tx[s].cbuf[j] \in Blocks \cup {NoElt}
  BY <1>1 DEF TxQueues
<1>3. Known(s) \subseteq Blocks /\ sent[s] \subseteq Known(s)
  BY <1>1, <1>2 DEF Known
<1> QED
  BY <1>1, <1>3, PendingType DEF TxQueues, TypeOK

KnownOK == \A s \in Sides :
    /\ Known(s) \subseteq Blocks
    /\ tx[s].next_to_send \in Nat /\ buf[s].taken \in Nat

LEMMA KnownTypes == TypeOK => KnownOK
BY KnownType DEF KnownOK

LEMMA KnownTypesNext == TypeOK' => KnownOK'
BY KnownTypes, PTL

LEMMA SenderKeeps ==
    ASSUME TypeOK, TypeOK', NEW s \in Sides, SenderInv(s), SendStep(s)
    PROVE  SenderInv(s)'
<1>0. /\ Known(s) \subseteq Blocks /\ Known(s)' \subseteq Blocks
      /\ tx[s].next_to_send \in Nat /\ buf[s].taken \in Nat
  BY KnownTypes, KnownTypesNext DEF KnownOK
<1>1. CASE SendsOld(s)
  <2>1. \A b \in Known(s)' : \E c \in Known(s) : SamePiece(b, c)
    BY <1>1 DEF SendsOld
  <2>2. ASSUME NEW b \in Known(s)'
        PROVE  /\ b.seq < tx'[s].next_to_send
               /\ b.from + b.n <= buf'[s].taken
               /\ b.seq = 0 => b.from = 0
               /\ b.seq + 1 = tx'[s].next_to_send => b.from + b.n = buf'[s].taken
               /\ b.op \notin {"DAT", "FIN"} => b.n = 0
    <3>1. PICK c \in Known(s) : SamePiece(b, c)
      BY <2>1
    <3> QED
      BY <1>1, <3>1 DEF SenderInv, SendsOld, SamePiece
  <2>3. ASSUME NEW b \in Known(s)', NEW c \in Known(s)', c.seq = b.seq + 1
        PROVE  c.from = b.from + b.n
    <3>1. PICK d \in Known(s) : SamePiece(b, d)
      BY <2>1
    <3>2. PICK e \in Known(s) : SamePiece(c, e)
      BY <2>1
    <3> QED
      BY <2>3, <3>1, <3>2 DEF SenderInv, SamePiece
  <2> QED
    BY <1>1, <2>2, <2>3 DEF SenderInv, SendsOld
<1>2. CASE SendsNew(s)
  <2>1. PICK new \in Blocks :
            /\ new.seq = tx[s].next_to_send /\ new.from = buf[s].taken
            /\ new.op \notin {"DAT", "FIN"} => new.n = 0
            /\ tx'[s].next_to_send = tx[s].next_to_send + 1
            /\ buf'[s].taken = buf[s].taken + new.n
            /\ \A b \in Known(s)' : b = new \/ b \in Known(s)
    BY <1>2 DEF SendsNew
  <2>2. new.n \in Nat
    BY DEF Blocks
  <2>3. ASSUME NEW b \in Known(s)'
        PROVE  /\ b.seq < tx'[s].next_to_send
               /\ b.from + b.n <= buf'[s].taken
               /\ b.seq = 0 => b.from = 0
               /\ b.seq + 1 = tx'[s].next_to_send => b.from + b.n = buf'[s].taken
               /\ b.op \notin {"DAT", "FIN"} => b.n = 0
    <3>1. b.seq \in Nat /\ b.from \in Nat /\ b.n \in Nat
      BY <1>0 DEF Blocks
    <3>2. CASE b = new
      BY <1>0, <2>1, <2>2, <3>2 DEF SenderInv
    <3>3. CASE b \in Known(s)
      BY <1>0, <2>1, <2>2, <3>1, <3>3 DEF SenderInv
    <3> QED
      BY <2>1, <3>2, <3>3
  <2>4. ASSUME NEW b \in Known(s)', NEW c \in Known(s)', c.seq = b.seq + 1
        PROVE  c.from = b.from + b.n
    <3>1. b.seq \in Nat /\ c.seq \in Nat
      BY <1>0 DEF Blocks
    <3>2. \A d \in Known(s) : d.seq < new.seq
      BY <2>1 DEF SenderInv
    <3>3. CASE c = new
      BY <1>0, <2>1, <2>4, <3>1, <3>2, <3>3 DEF SenderInv
    <3>4. CASE c # new
      BY <1>0, <2>1, <2>4, <3>1, <3>2, <3>4 DEF SenderInv
    <3> QED
      BY <3>3, <3>4
  <2>5. tx'[s].next_to_send # 0
    BY <1>0, <2>1
  <2> QED
    BY <2>3, <2>4, <2>5 DEF SenderInv
<1> QED
  BY <1>1, <1>2 DEF SendStep

\* The element at the head of the reassembly queue is the peer's block number
\* next_to_process, and continues the output.
LEMMA FrontContinues ==
    ASSUME TypeOK, StreamInv, NEW s \in Sides, Front(rx[s]) # NoRxElt
    PROVE  \E b \in sent[Peer(s)] :
               /\ b.seq = rx[s].next_to_process /\ Front(rx[s]) = RxElt(b)
               /\ Front(rx[s]).from = b.from /\ Front(rx[s]).n = b.n
               /\ Front(rx[s]).op \notin {"DAT", "FIN"} => b.n = 0
               /\ ~ckt[s].received_fin => b.from = Len(out[s])
               /\ b.from + b.n <= buf[Peer(s)].taken
<1> DEFINE q == rx[s]
           j == Slot(q.next_to_process)
<1>1. q \in RxQueues /\ q.next_to_process \in Nat
  BY DEF TypeOK, QueuesOK, RxQueues
<1>2. j \in Slots
  BY <1>1, SlotType
<1>3. PICK b \in sent[Peer(s)] :
          InWindow(q, b.seq) /\ Slot(b.seq) = j /\ q.cbuf[j] = RxElt(b)
  BY <1>2 DEF StreamInv, ReceiverInv, Front
<1>4. Peer(s) \in Sides
  BY PeerType
<1>5. b \in Known(Peer(s)) /\ b \in Blocks
  BY <1>4, KnownType
<1>6. b.seq \in Nat /\ b.from \in Nat /\ b.n \in Nat /\ b.op \in Ops
  BY <1>5 DEF Blocks
<1>7. b.seq = q.next_to_process
  <2>1. q.next_to_process <= b.seq /\ b.seq - q.next_to_process < W
    BY <1>1, <1>3, <1>6, WAssumption DEF InWindow, Slots
  <2> QED
    BY <1>1, <1>3, <1>6, <2>1, SlotInjective
<1>8. SenderInv(Peer(s))
  BY <1>4 DEF StreamInv
<1>9. b.op \notin {"DAT", "FIN"} => b.n = 0
  BY <1>5, <1>8 DEF SenderInv
<1>10. b.from + b.n <= buf[Peer(s)].taken
  BY <1>5, <1>8 DEF SenderInv
<1>11. ~ckt[s].received_fin => b.from = Len(out[s])
  <2> SUFFICES ASSUME ~ckt[s].received_fin PROVE b.from = Len(out[s])
    OBVIOUS
  <2>1. CASE q.next_to_process = 0 /\ out[s] = <<>>
    BY <1>5, <1>7, <1>8, <2>1, EmptySeq DEF SenderInv
  <2>2. CASE \E p \in sent[Peer(s)] :
                p.seq + 1 = q.next_to_process /\ p.from + p.n = Len(out[s])
    <3>1. PICK p \in sent[Peer(s)] :
                p.seq + 1 = q.next_to_process /\ p.from + p.n = Len(out[s])
      BY <2>2
    <3>2. p \in Known(Peer(s))
      BY <1>4, KnownType
    <3> QED
      BY <1>5, <1>7, <1>8, <3>1, <3>2 DEF SenderInv
  <2> QED
    BY <2>1, <2>2 DEF StreamInv, ReceiverInv
<1>12. Front(q).from = b.from /\ Front(q).n = b.n
  BY <1>3, <1>6, <1>9 DEF Front, RxElt
<1>13. Front(q).op \notin {"DAT", "FIN"} => b.n = 0
  BY <1>3, <1>9 DEF Front, RxElt
<1>14. Front(q) = RxElt(b)
  BY <1>3 DEF Front
<1> QED
  BY <1>7, <1>10, <1>11, <1>12, <1>13, <1>14

\* Passing the head of the queue on keeps the output in order.
LEMMA OutputKeeps ==
    ASSUME TypeOK, TypeOK', StreamInv, NEW s \in Sides,
           QueueStep(s), SendStep(Peer(s))
    PROVE  /\ \A i \in 1 .. Len(out'[s]) : out'[s][i] = i
           /\ Len(out'[s]) <= buf'[Peer(s)].taken
<1>1. Peer(s) \in Sides
  BY PeerType
<1>2. /\ buf[Peer(s)].taken \in Nat /\ buf'[Peer(s)].taken \in Nat
      /\ buf[Peer(s)].taken <= buf'[Peer(s)].taken
  <2>1. buf[Peer(s)].taken \in Nat /\ buf'[Peer(s)].taken \in Nat
    BY <1>1, KnownTypes, KnownTypesNext DEF KnownOK
  <2> QED
    BY <2>1 DEF SendStep, SendsOld, SendsNew, Blocks
<1>3. /\ out[s] \in Seq(Nat) /\ Len(out[s]) \in Nat
      /\ \A i \in 1 .. Len(out[s]) : out[s][i] = i
      /\ Len(out[s]) <= buf[Peer(s)].taken
  BY LenProperties DEF TypeOK, BuffersOK, StreamInv, InOrder
<1>4. CASE out'[s] = out[s]
  BY <1>2, <1>3, <1>4
<1>5. CASE out'[s] # out[s]
  <2> DEFINE e == Front(rx[s])
  <2>1. ~ckt[s].received_fin /\ e # NoRxElt /\ out'[s] = out[s] \o Units(e)
    BY <1>5 DEF QueueStep
  <2>2. PICK b \in sent[Peer(s)] :
            /\ e.from = b.from /\ e.n = b.n /\ b.from = Len(out[s])
            /\ b.from + b.n <= buf[Peer(s)].taken
    BY <2>1, FrontContinues
  <2>3. e \in RxElts
    BY <2>1, FrontType DEF TypeOK, QueuesOK
  <2> HIDE DEF e
  <2>4. e.n \in Nat /\ e.from \in Nat
    BY <2>3 DEF RxElts
  <2>5. /\ Units(e) \in Seq(Nat) /\ Len(Units(e)) = e.n
        /\ \A k \in 1 .. e.n : Units(e)[k] = e.from + k
    BY <2>3, UnitsType
  <2>6. /\ Len(out'[s]) = Len(out[s]) + e.n
        /\ \A i \in 1 .. Len(out[s]) + e.n :
              out'[s][i] = IF i <= Len(out[s]) THEN out[s][i]
                           ELSE Units(e)[i - Len(out[s])]
    BY <1>3, <2>1, <2>3, Appended DEF e
  <2>7. ASSUME NEW i \in 1 .. Len(out[s]) + e.n PROVE out'[s][i] = i
    <3>1. CASE i <= Len(out[s])
      <4>1. i \in 1 .. Len(out[s])
        BY <1>3, <2>4, <3>1
      <4>2. out'[s][i] = out[s][i]
        BY <2>6, <3>1
      <4> QED
        BY <1>3, <4>1, <4>2
    <3>2. CASE ~(i <= Len(out[s]))
      <4>1. i - Len(out[s]) \in 1 .. e.n
        BY <1>3, <2>4, <3>2
      <4>2. out'[s][i] = e.from + (i - Len(out[s]))
        BY <2>5, <2>6, <3>2, <4>1
      <4> QED
        BY <1>3, <2>2, <4>2
    <3> QED
      BY <3>1, <3>2
  <2> QED
    BY <1>2, <1>3, <2>2, <2>4, <2>6, <2>7
<1> QED
  BY <1>4, <1>5

\* A filled slot of the reassembly queue stands for a block of the peer's.
LEMMA SlotsKeep ==
    ASSUME TypeOK, StreamInv, NEW s \in Sides, QueueStep(s), SendStep(Peer(s)),
           NEW j \in Slots, rx'[s].cbuf[j] # NoRxElt
    PROVE  \E b \in sent'[Peer(s)] :
              InWindow(rx'[s], b.seq) /\ Slot(b.seq) = j /\ rx'[s].cbuf[j] = RxElt(b)
<1> DEFINE Stands(q, b) == InWindow(q, b.seq) /\ Slot(b.seq) = j /\ q.cbuf[j] = RxElt(b)
<1>1. sent[Peer(s)] \subseteq sent'[Peer(s)] /\ Peer(s) \in Sides
  BY PeerType DEF SendStep
<1>2. /\ rx[s] \in RxQueues /\ rx[s].next_to_process \in Nat
      /\ rx[s].cbuf \in [Slots -> RxElts \cup {NoRxElt}]
  BY DEF TypeOK, QueuesOK, RxQueues
<1>3. \A b \in sent[Peer(s)] : b.seq \in Nat
  BY <1>1 DEF TypeOK, NetOK, Blocks
<1>4. rx[s].cbuf[j] # NoRxElt => \E b \in sent[Peer(s)] : Stands(rx[s], b)
  BY DEF StreamInv, ReceiverInv
<1>5. CASE rx'[s] = rx[s]
  BY <1>1, <1>4, <1>5
<1>6. CASE \E b \in net[s] : rx'[s] = Insert(rx[s], b.seq, RxElt(b))
  <2>1. PICK b \in net[s] : rx'[s] = Insert(rx[s], b.seq, RxElt(b))
    BY <1>6
  <2>2. b \in sent[Peer(s)]
    BY DEF StreamInv, ReceiverInv
  <2>3. CASE rx'[s] = rx[s]
    BY <1>5, <2>3
  <2>4. CASE rx'[s] # rx[s]
    <3>1. /\ InWindow(rx[s], b.seq)
          /\ rx'[s] = [cbuf |-> [rx[s].cbuf EXCEPT ![Slot(b.seq)] = RxElt(b)],
                       next_to_process |-> rx[s].next_to_process]
      BY <2>1, <2>4 DEF Insert
    <3>2. /\ rx'[s].next_to_process = rx[s].next_to_process
          /\ rx'[s].cbuf[j] = IF j = Slot(b.seq) THEN RxElt(b) ELSE rx[s].cbuf[j]
      BY <1>2, <3>1
    <3>3. CASE j = Slot(b.seq)
      <4>1. InWindow(rx'[s], b.seq) /\ rx'[s].cbuf[j] = RxElt(b)
        BY <3>1, <3>2, <3>3 DEF InWindow
      <4> QED
        BY <1>1, <2>2, <3>3, <4>1
    <3>4. CASE j # Slot(b.seq)
      <4>1. PICK c \in sent[Peer(s)] : Stands(rx[s], c)
        BY <1>4, <3>2, <3>4
      <4>2. Stands(rx'[s], c)
        BY <3>2, <3>4, <4>1 DEF InWindow
      <4> QED
        BY <1>1, <4>2
    <3> QED
      BY <3>3, <3>4
  <2> QED
    BY <2>3, <2>4
<1>7. CASE rx'[s] = RemoveNext(rx[s])
  <2> DEFINE p == rx[s].next_to_process
  <2>1. /\ rx'[s].next_to_process = p + 1
        /\ rx'[s].cbuf[j] = IF j = Slot(p) THEN NoRxElt ELSE rx[s].cbuf[j]
    BY <1>2, <1>7 DEF RemoveNext
  <2>2. PICK b \in sent[Peer(s)] : Stands(rx[s], b)
    BY <1>4, <2>1
  <2>3. b.seq # p /\ b.seq \in Nat
    BY <1>3, <2>1, <2>2
  <2>4. InWindow(rx'[s], b.seq)
    BY <1>2, <2>1, <2>2, <2>3, WAssumption DEF InWindow, Slots
  <2> QED
    BY <1>1, <2>1, <2>2, <2>4
<1> QED
  BY <1>5, <1>6, <1>7 DEF QueueStep

\* Until a FIN arrives, the output ends where the last processed block does.
LEMMA PositionKeeps ==
    ASSUME TypeOK, StreamInv, NEW s \in Sides, QueueStep(s), SendStep(Peer(s)),
           FinKept(s), ~ckt'[s].received_fin
    PROVE  \/ rx'[s].next_to_process = 0 /\ out'[s] = <<>>
           \/ \E b \in sent'[Peer(s)] :
                 b.seq + 1 = rx'[s].next_to_process /\ b.from + b.n = Len(out'[s])
<1>1. sent[Peer(s)] \subseteq sent'[Peer(s)] /\ ~ckt[s].received_fin
  BY DEF SendStep, FinKept
<1>2. CASE rx'[s].next_to_process = rx[s].next_to_process /\ out'[s] = out[s]
  BY <1>1, <1>2 DEF StreamInv, ReceiverInv
<1>3. CASE /\ Front(rx[s]) # NoRxElt /\ rx'[s] = RemoveNext(rx[s])
           /\ \/ out'[s] = out[s] \o Units(Front(rx[s]))
              \/ out'[s] = out[s] /\ Front(rx[s]).op \notin {"DAT", "FIN"}
  <2> DEFINE e == Front(rx[s])
  <2>1. PICK b \in sent[Peer(s)] :
            /\ b.seq = rx[s].next_to_process
            /\ e.n = b.n /\ b.from = Len(out[s])
            /\ e.op \notin {"DAT", "FIN"} => b.n = 0
    BY <1>1, <1>3, FrontContinues
  <2>2. b.seq + 1 = rx'[s].next_to_process
    BY <1>3, <2>1 DEF RemoveNext
  <2>3. e \in RxElts /\ out[s] \in Seq(Nat)
    BY <1>3, FrontType DEF TypeOK, QueuesOK, BuffersOK
  <2>4. Len(out[s]) \in Nat /\ e.n \in Nat
    BY <2>3, LenProperties DEF RxElts
  <2>5. Len(out[s] \o Units(e)) = Len(out[s]) + e.n
    BY <2>3, Appended
  <2> HIDE DEF e
  <2>6. b.from + b.n = Len(out'[s])
    <3>1. CASE out'[s] = out[s] \o Units(e)
      BY <2>1, <2>5, <3>1
    <3>2. CASE out'[s] = out[s] /\ e.op \notin {"DAT", "FIN"}
      BY <2>1, <2>4, <3>2
    <3> QED
      BY <1>3, <3>1, <3>2 DEF e
  <2> QED
    BY <1>1, <2>2, <2>6
<1>4. \A seq, elt : Insert(rx[s], seq, elt).next_to_process = rx[s].next_to_process
  BY DEF Insert
<1> QED
  BY <1>1, <1>2, <1>3, <1>4 DEF QueueStep

LEMMA ReceiverKeeps ==
    ASSUME TypeOK, StreamInv, NEW s \in Sides, QueueStep(s), WireStep(s),
           SendStep(Peer(s)), FinKept(s)
    PROVE  ReceiverInv(s)'
<1>1. net'[s] \subseteq sent'[Peer(s)]
  BY DEF StreamInv, ReceiverInv, WireStep, SendStep
<1> QED
  BY <1>1, SlotsKeep, PositionKeeps DEF ReceiverInv

LEMMA StreamKeeps ==
    ASSUME TypeOK, TypeOK', StreamInv, DataStep
    PROVE  StreamInv'
<1>1. ASSUME NEW s \in Sides
      PROVE  /\ SenderInv(s)' /\ ReceiverInv(s)'
             /\ \A i \in 1 .. Len(out'[s]) : out'[s][i] = i
             /\ Len(out'[s]) <= buf'[Peer(s)].taken
  <2>1. SendStep(s) /\ WireStep(s) /\ QueueStep(s) /\ FinKept(s) /\ SendStep(Peer(s))
    BY PeerType DEF DataStep
  <2> QED
    BY <2>1, SenderKeeps, ReceiverKeeps, OutputKeeps DEF StreamInv
<1> QED
  BY <1>1 DEF StreamInv, InOrder

(***************************************************************************)
(* A received FIN is never forgotten: what the helpers do to received_fin. *)
(***************************************************************************)
LEMMA FinOps ==
    ASSUME NEW c \in Circuits, NEW s \in Sides, c.received_fin
    PROVE  /\ Close(c).received_fin /\ Abort(c).received_fin
           /\ ArmAxe(c).received_fin /\ RecvEof(c).received_fin
           /\ CheckForEof(s, c).received_fin
           /\ FlushCb(c).received_fin /\ DoFlush(c).received_fin
           /\ Dropped(s, c).received_fin
           /\ \A ok \in BOOLEAN : AfterSendEof(c, ok).received_fin
           /\ \A op, n : AfterTransmit(c, op, n).received_fin
<1>1. \A d \in Circuits : d.received_fin => Close(d).received_fin
  BY DEF Close, Circuits
<1>2. Abort(c).received_fin
  BY DEF Abort, Circuits
<1>3. ArmAxe(c).received_fin
  <2>1. \A v : [c EXCEPT !.axe_timer = v].received_fin
    BY DEF Circuits
  <2> QED
    BY <2>1, Zenon DEF ArmAxe
<1>4. RecvEof(c).received_fin
  BY DEF RecvEof, Circuits
<1>5. CheckForEof(s, c).received_fin
  BY DEF CheckForEof, Circuits
<1>6. \A d \in Circuits : d.received_fin => FlushCb(d).received_fin
  <2> SUFFICES ASSUME NEW d \in Circuits, d.received_fin PROVE FlushCb(d).received_fin
    OBVIOUS
  <2>1. [d EXCEPT !.write_eof = TRUE] \in Circuits
    BY DEF Circuits
  <2>2. [d EXCEPT !.write_eof = TRUE].received_fin
    BY DEF Circuits
  <2> QED
    BY <1>1, <2>1, <2>2 DEF FlushCb
<1>7. DoFlush(c).received_fin
  <2>1. [c EXCEPT !.pending_write_eof = TRUE] \in Circuits
    BY DEF Circuits
  <2>2. [c EXCEPT !.pending_write_eof = TRUE].received_fin
    BY DEF Circuits
  <2> QED
    BY <1>6, <2>1, <2>2 DEF DoFlush
<1>8. Dropped(s, c).received_fin
  <2>1. [c EXCEPT !.flush_timer = TRUE].received_fin
    BY DEF Circuits
  <2> QED
    BY <1>3, <1>7, <2>1 DEF Dropped
<1>9. \A ok \in BOOLEAN : AfterSendEof(c, ok).received_fin
  BY <1>1, CircuitOps DEF AfterSendEof
<1>10. \A op, n : AfterTransmit(c, op, n).received_fin
  BY DEF AfterTransmit, Circuits
<1> QED
  BY <1>1, <1>2, <1>3, <1>4, <1>5, <1>6, <1>7, <1>8, <1>9, <1>10

FinsKept == \A s \in Sides : FinKept(s)

LEMMA FinStill ==
    ASSUME ckt' = ckt
    PROVE  FinsKept
BY DEF FinsKept, FinKept

LEMMA FinSet ==
    ASSUME CircuitsOK, NEW s \in Sides, NEW c, SetCkt(s, c),
           ckt[s].received_fin => c.received_fin
    PROVE  FinsKept
BY DEF CircuitsOK, SetCkt, FinsKept, FinKept

LEMMA FinDrop ==
    ASSUME NEW s \in Sides, NEW c \in Circuits, c.received_fin,
           NEW d \in DropOutcomes(s, c)
    PROVE  d.received_fin
BY FinOps DEF DropOutcomes

LEMMA FinReturn ==
    ASSUME CircuitsOK, NEW s \in Sides, NEW c \in Circuits, NEW ok \in BOOLEAN,
           Return(s, c, ok), ckt[s].received_fin => c.received_fin
    PROVE  FinsKept
<1>1. PICK d \in Returned(s, c, ok) : SetCkt(s, d)
  BY DEF Return
<1>2. c.received_fin => d.received_fin
  BY FinOps, FinDrop DEF Returned
<1> QED
  BY <1>1, <1>2, FinSet

LEMMA FinReturnEof ==
    ASSUME CircuitsOK, NEW s \in Sides, NEW c \in Circuits, NEW caller \in Callers,
           ReturnEof(s, c, caller), ckt[s].received_fin => c.received_fin
    PROVE  FinsKept
<1> DEFINE d == CheckForEof(s, c)
<1>1. d \in Circuits /\ (ckt[s].received_fin => d.received_fin)
  BY CircuitOps, FinOps
<1> HIDE DEF d
<1>2. SetCkt(s, d) \/ Return(s, d, TRUE)
  BY DEF ReturnEof, d
<1> QED
  BY <1>1, <1>2, FinSet, FinReturn

LEMMA FinCallSend ==
    ASSUME CircuitsOK, NEW s \in Sides, NEW c \in Circuits, NEW caller,
           CallSend(s, c, caller), ckt[s].received_fin => c.received_fin
    PROVE  FinsKept
<1>1. c.received_fin => [c EXCEPT !.flush_timer = FALSE].received_fin
  BY DEF Circuits
<1> QED
  BY <1>1, FinSet DEF CallSend

LEMMA FinProceed ==
    ASSUME CircuitsOK, NEW s \in Sides, NEW c \in Circuits, Proceed(s, c),
           ckt[s].received_fin => c.received_fin
    PROVE  FinsKept
BY FinCallSend, FinReturnEof DEF Proceed, Callers

LEMMA FinRecvFails ==
    ASSUME CircuitsOK, NEW s \in Sides, NEW c \in Circuits, RecvFails(s, c),
           ckt[s].received_fin => c.received_fin
    PROVE  FinsKept
BY FinDrop, FinSet DEF RecvFails

LEMMA FinSpoken ==
    ASSUME CircuitsOK, NEW s \in Sides, NEW c \in Circuits, NEW ok \in BOOLEAN,
           SetSpoken(s, c, ok), ckt[s].received_fin => c.received_fin
    PROVE  FinsKept
BY FinDrop, FinSet DEF SetSpoken

LEMMA FinStegSent ==
    ASSUME TypeOK, NEW s \in Sides, NEW k \in 1 .. ckt[s].steg, NEW ok \in BOOLEAN,
           ckt[s].received_fin
    PROVE  StegSent(s, k, ok).received_fin
<1>1. ckt[s] \in Circuits
  BY CircuitOf
<1>2. [ckt[s] EXCEPT !.steg = @ - k] \in Circuits
  BY <1>1 DEF Circuits
<1>3. [ckt[s] EXCEPT !.steg = @ - k].received_fin
  BY <1>1 DEF Circuits
<1> QED
  BY <1>2, <1>3, FinOps DEF StegSent

(***************************************************************************)
(* Every action is a DataStep.                                             *)
(***************************************************************************)
SendsOK == \A s \in Sides : SendStep(s) /\ WireStep(s)
QueuesStep == \A s \in Sides : QueueStep(s)

LEMMA QueuesStill ==
    ASSUME rx' = rx, out' = out
    PROVE  QueuesStep
BY DEF QueuesStep, QueueStep

\* Nothing is cut, sent or acknowledged; blocks may be lost.
LEMMA SendsStill ==
    ASSUME tx' = tx, sent' = sent, \A s \in Sides : buf'[s].taken = buf[s].taken,
           \A s \in Sides : net'[s] \subseteq net[s]
    PROVE  SendsOK
<1>1. \A s \in Sides : Known(s)' = Known(s)
  BY DEF Known
<1> QED
  BY <1>1 DEF SendsOK, SendStep, WireStep, SendsOld, SamePiece

\* A new block is filed, and sent or not.
LEMMA SendsCut ==
    ASSUME TypeOK, NEW s \in Sides, NEW b \in Blocks,
           b.seq = tx[s].next_to_send, b.from = buf[s].taken,
           b.op \notin {"DAT", "FIN"} => b.n = 0,
           tx' = [tx EXCEPT ![s] = Enqueue(@, b)],
           \A t \in Sides : buf'[t].taken = IF t = s THEN buf[t].taken + b.n
                                            ELSE buf[t].taken,
           Emit(s, b) \/ TransmitFails(s) \/ NoTraffic
    PROVE  SendsOK
<1>1. /\ sent'[s] = sent[s] \/ sent'[s] = sent[s] \cup {b}
      /\ \A t \in Sides \ {s} : sent'[t] = sent[t]
  BY DEF TypeOK, NetOK, Emit, TransmitFails, NoTraffic
<1>2. /\ \A t \in Sides \ {s} : tx'[t] = tx[t]
      /\ tx'[s] = Enqueue(tx[s], b)
  BY DEF TypeOK, QueuesOK
<1>3. \A j \in Slots : tx'[s].cbuf[j] = b \/ tx'[s].cbuf[j] = tx[s].cbuf[j]
  BY <1>2 DEF Enqueue, TypeOK, QueuesOK, TxQueues
<1>4. \A c \in Known(s)' : c = b \/ c \in Known(s)
  BY <1>1, <1>3 DEF Known
<1>5. tx'[s].next_to_send = tx[s].next_to_send + 1
  BY <1>2 DEF Enqueue
<1>6. SendStep(s)
  BY <1>1, <1>4, <1>5 DEF SendStep, SendsNew
<1>7. \A t \in Sides \ {s} : SendStep(t)
  <2>1. \A t \in Sides \ {s} : Known(t)' = Known(t)
    BY <1>1, <1>2 DEF Known
  <2> QED
    BY <1>1, <1>2, <2>1 DEF SendStep, SendsOld, SamePiece
<1>8. \A t \in Sides : WireStep(t)
  BY PeerType DEF WireStep, Emit, TransmitFails, NoTraffic, TypeOK, NetOK
<1> QED
  BY <1>6, <1>7, <1>8 DEF SendsOK

\* A block is sent again.
LEMMA SendsAgain ==
    ASSUME TypeOK, NEW s \in Sides, NEW i \in Nat, NEW ok \in BOOLEAN,
           ~HeadMissing(s, i), Resend(s, i, ok), buf' = buf
    PROVE  SendsOK
<1> DEFINE q == Retransmitted(tx[s], i)
           b == q.cbuf[Slot(i)]
           old == tx[s].cbuf[Slot(i)]
<1>1. Slot(i) \in Slots /\ tx[s] \in TxQueues
  BY SlotType DEF TypeOK, QueuesOK
<1>2. old \in Known(s) /\ old \in Blocks
  BY <1>1, KnownType DEF Known, HeadMissing
<1>3. /\ q.next_to_send = tx[s].next_to_send
      /\ b = [old EXCEPT !.r = @ + 1]
      /\ \A j \in Slots \ {Slot(i)} : q.cbuf[j] = tx[s].cbuf[j]
  BY <1>1 DEF Retransmitted, TxQueues
<1>4. SamePiece(b, old)
  BY <1>2, <1>3 DEF SamePiece, Blocks
<1>5. tx'[s] = q /\ \A t \in Sides \ {s} : tx'[t] = tx[t]
  BY DEF Resend, TypeOK, QueuesOK
<1>6. Emit(s, b) \/ TransmitFails(s)
  BY DEF Resend
<1> HIDE DEF q, b, old
<1>7. /\ sent'[s] = sent[s] \/ sent'[s] = sent[s] \cup {b}
      /\ \A t \in Sides \ {s} : sent'[t] = sent[t]
  BY <1>6 DEF TypeOK, NetOK, Emit, TransmitFails
<1>8. \A c \in Known(s)' : c = b \/ c \in Known(s)
  <2>1. \A j \in Slots : tx'[s].cbuf[j] = b \/ tx'[s].cbuf[j] = tx[s].cbuf[j]
    BY <1>3, <1>5 DEF b
  <2> QED
    BY <1>7, <2>1 DEF Known
<1>9. SendStep(s)
  BY <1>2, <1>3, <1>4, <1>5, <1>7, <1>8 DEF SendStep, SendsOld, SamePiece
<1>10. \A t \in Sides \ {s} : SendStep(t)
  <2>1. \A t \in Sides \ {s} : Known(t)' = Known(t)
    BY <1>5, <1>7 DEF Known
  <2> QED
    BY <1>5, <1>7, <2>1 DEF SendStep, SendsOld, SamePiece
<1>11. \A t \in Sides : WireStep(t)
  BY <1>6, PeerType DEF WireStep, Emit, TransmitFails, TypeOK, NetOK
<1> QED
  BY <1>9, <1>10, <1>11 DEF SendsOK

LEMMA DataStepParts ==
    ASSUME SendsOK, QueuesStep, FinsKept
    PROVE  DataStep
BY DEF SendsOK, QueuesStep, FinsKept, DataStep

LEMMA DataSteg ==
    ASSUME TypeOK, NEW s \in Sides, NEW k \in Nat, NEW ok \in BOOLEAN,
           TransmitSteg(s, StegBlock(s, k), ok)
    PROVE  SendsOK
<1> DEFINE b == StegBlock(s, k)
<1>1. b \in Blocks /\ b.seq = tx[s].next_to_send /\ b.from = buf[s].taken /\ b.n = 0
  BY StegBlockType DEF TypeOK
<1> HIDE DEF b
<1>2. /\ tx' = [tx EXCEPT ![s] = Enqueue(@, b)] /\ buf' = buf
      /\ Emit(s, b) \/ TransmitFails(s)
  BY DEF TransmitSteg, b
<1>3. \A t \in Sides : buf'[t].taken = IF t = s THEN buf[t].taken + b.n ELSE buf[t].taken
  BY <1>1, <1>2, PendingType DEF TypeOK
<1> QED
  BY <1>1, <1>2, <1>3, SendsCut

LEMMA DataData ==
    ASSUME TypeOK, NEW s \in Sides, NEW cap \in Nat, NEW ok \in BOOLEAN,
           TransmitData(s, DataBlock(s, cap), ok)
    PROVE  SendsOK
<1> DEFINE b == DataBlock(s, cap)
<1>1. /\ b \in Blocks /\ b.seq = tx[s].next_to_send /\ b.from = buf[s].taken
      /\ b.op \in {"DAT", "FIN"}
  BY DataBlockType DEF TypeOK
<1> HIDE DEF b
<1>2. /\ tx' = [tx EXCEPT ![s] = Enqueue(@, b)]
      /\ buf' = [buf EXCEPT ![s].taken = @ + b.n]
      /\ Emit(s, b) \/ TransmitFails(s)
  BY DEF TransmitData, b
<1>3. \A t \in Sides : buf'[t].taken = IF t = s THEN buf[t].taken + b.n ELSE buf[t].taken
  BY <1>2 DEF TypeOK, BuffersOK
<1> QED
  BY <1>1, <1>2, <1>3, SendsCut

LEMMA DataSpecial ==
    ASSUME TypeOK, NEW s \in Sides, NEW op \in {"ACK", "RST"}, NEW ack \in AckPayloads,
           NEW wire \in Wires, SendSpecial(s, op, ack, wire), buf' = buf
    PROVE  SendsOK
<1> DEFINE b == NewBlock(tx[s], op, buf[s].taken, 0, ack)
<1>1. b \in Blocks
  BY NewBlockType, PendingType DEF TypeOK, QueuesOK, Ops
<1>2. b.seq = tx[s].next_to_send /\ b.from = buf[s].taken /\ b.n = 0
  BY DEF NewBlock
<1> HIDE DEF b
<1>3. /\ tx' = [tx EXCEPT ![s] = Enqueue(@, b)]
      /\ Emit(s, b) \/ NoTraffic \/ TransmitFails(s)
  BY DEF SendSpecial, Wires, b
<1>4. \A t \in Sides : buf'[t].taken = IF t = s THEN buf[t].taken + b.n ELSE buf[t].taken
  BY <1>2, PendingType DEF TypeOK
<1> QED
  BY <1>1, <1>2, <1>3, <1>4, SendsCut

\* The queues and the network stand still.
LEMMA DataIdle ==
    ASSUME UNCHANGED <<net, sent, tx, rx, buf, out>>, FinsKept
    PROVE  DataStep
BY SendsStill, QueuesStill, DataStepParts

LEMMA DataUpstream ==
    ASSUME TypeOK, NEW s \in Sides,
           \/ UpstreamRead(s) \/ UpstreamEof(s) \/ UpstreamError(s)
           \/ UpstreamFlush(s) \/ UpstreamConnect(s) \/ FlushTimer(s) \/ AxeTimer(s)
           \/ LastConnDrops(s) \/ StegData(s)
    PROVE  DataStep
<1>0. CircuitsOK /\ ckt[s] \in Circuits
  BY CircuitOf DEF TypeOK
<1>1. CASE UpstreamRead(s)
  <2>1. FinsKept
    BY <1>0, <1>1, FinCallSend DEF UpstreamRead
  <2>2. PICK k \in 1 .. Offer[s] - buf[s].read : buf' = [buf EXCEPT ![s].read = @ + k]
    BY <1>1 DEF UpstreamRead
  <2>3. \A t \in Sides : buf'[t].taken = buf[t].taken
    BY <2>2 DEF TypeOK, BuffersOK
  <2> QED
    BY <1>1, <2>1, <2>3, SendsStill, QueuesStill, DataStepParts DEF UpstreamRead, NoTraffic
<1>2. CASE UpstreamEof(s)
  <2> DEFINE c == [ckt[s] EXCEPT !.upstream_eof = TRUE]
  <2>1. c \in Circuits /\ (ckt[s].received_fin => c.received_fin)
    BY <1>0 DEF Circuits
  <2>2. CallSend(s, c, "eof")
    BY <1>2 DEF UpstreamEof
  <2> HIDE DEF c
  <2>3. FinsKept
    BY <1>0, <2>1, <2>2, FinCallSend
  <2> QED
    BY <1>2, <2>3, DataIdle DEF UpstreamEof, NoTraffic
<1>3. CASE UpstreamError(s)
  BY <1>0, <1>3, FinOps, FinSet, DataIdle DEF UpstreamError
<1>4. CASE UpstreamFlush(s)
  <2> DEFINE c == [ckt[s] EXCEPT !.outbuf = FALSE]
  <2>1. c \in Circuits /\ (ckt[s].received_fin => c.received_fin)
    BY <1>0 DEF Circuits
  <2>2. SetCkt(s, FlushCb(c))
    BY <1>4 DEF UpstreamFlush
  <2> HIDE DEF c
  <2>3. FinsKept
    BY <1>0, <2>1, <2>2, FinOps, FinSet
  <2> QED
    BY <1>4, <2>3, DataIdle DEF UpstreamFlush, NoTraffic
<1>5. CASE UpstreamConnect(s)
  <2> DEFINE c == [ckt[s] EXCEPT !.connected = TRUE]
  <2>1. c \in Circuits /\ (ckt[s].received_fin => c.received_fin)
    BY <1>0 DEF Circuits
  <2>2. SetCkt(s, IF c.pending_write_eof THEN RecvEof(c) ELSE c)
    BY <1>5 DEF UpstreamConnect
  <2> HIDE DEF c
  <2>3. FinsKept
    BY <1>0, <2>1, <2>2, FinOps, FinSet
  <2> QED
    BY <1>5, <2>3, DataIdle DEF UpstreamConnect, NoTraffic
<1>6. CASE FlushTimer(s)
  BY <1>0, <1>6, FinCallSend, DataIdle DEF FlushTimer, NoTraffic
<1>7. CASE AxeTimer(s)
  <2> DEFINE c == [ckt[s] EXCEPT !.axe_timer = FALSE]
  <2>1. c \in Circuits /\ (ckt[s].received_fin => c.received_fin)
    BY <1>0 DEF Circuits
  <2>2. SetCkt(s, DoFlush(c))
    BY <1>7 DEF AxeTimer
  <2> HIDE DEF c
  <2>3. FinsKept
    BY <1>0, <2>1, <2>2, FinOps, FinSet
  <2> QED
    BY <1>7, <2>3, DataIdle DEF AxeTimer
<1>8. CASE LastConnDrops(s)
  BY <1>0, <1>8, FinOps, FinSet, DataIdle DEF LastConnDrops, NoTraffic
<1>9. CASE StegData(s)
  <2> DEFINE c == [ckt[s] EXCEPT !.steg = @ + 1, !.stegleft = @ - 1]
  <2>1. ckt[s].received_fin => c.received_fin
    BY <1>0 DEF Circuits
  <2>2. SetCkt(s, c)
    BY <1>9 DEF StegData
  <2> HIDE DEF c
  <2>3. FinsKept
    BY <1>0, <2>1, <2>2, FinSet
  <2> QED
    BY <1>9, <2>3, DataIdle DEF StegData, NoTraffic
<1> QED
  BY <1>1, <1>2, <1>3, <1>4, <1>5, <1>6, <1>7, <1>8, <1>9

LEMMA DataMustSend ==
    ASSUME TypeOK, NEW s \in Sides,
           MustSendSteg(s) \/ MustSendRetransmit(s) \/ MustSendNew(s)
    PROVE  DataStep
<1>0. CircuitsOK /\ ckt[s] \in Circuits /\ ckt[s].steg \in Nat
  BY CircuitOf DEF TypeOK, Circuits
<1>1. CASE MustSendSteg(s)
  <2>1. PICK k \in 1 .. ckt[s].steg, ok \in BOOLEAN :
            /\ TransmitSteg(s, StegBlock(s, k), ok)
            /\ SetSpoken(s, StegSent(s, k, ok), ok)
    BY <1>1 DEF MustSendSteg
  <2>2. k \in Nat
    BY <1>0
  <2>3. FinsKept
    BY <1>0, <2>1, StegSentType, FinStegSent, FinSpoken
  <2> QED
    BY <1>1, <2>1, <2>2, <2>3, DataSteg, QueuesStill, DataStepParts DEF MustSendSteg
<1>2. CASE MustSendRetransmit(s)
  <2>1. PICK i \in TxIteration(tx[s]), ok \in BOOLEAN :
            IF HeadMissing(s, i)
            THEN SetCkt(s, Abort(ckt[s])) /\ NoTraffic /\ UNCHANGED tx
            ELSE Resend(s, i, ok) /\ SetSpoken(s, ckt[s], ok)
    BY <1>2 DEF MustSendRetransmit
  <2>2. i \in Nat /\ UNCHANGED <<rx, buf, out>>
    BY <1>2, TxIterationType DEF MustSendRetransmit
  <2>3. FinsKept
    BY <1>0, <2>1, FinOps, FinSet, FinSpoken
  <2>4. SendsOK
    BY <2>1, <2>2, SendsStill, SendsAgain DEF NoTraffic
  <2> QED
    BY <2>2, <2>3, <2>4, QueuesStill, DataStepParts
<1>3. CASE MustSendNew(s)
  <2>1. PICK cap \in Capacities(s), ok \in BOOLEAN :
            /\ TransmitData(s, DataBlock(s, cap), ok)
            /\ SetSpoken(s, IF ok THEN AfterTransmit(ckt[s], DataBlock(s, cap).op,
                                                     DataBlock(s, cap).n)
                            ELSE ckt[s], ok)
    BY <1>3 DEF MustSendNew
  <2>2. cap \in Nat
    BY CapacityType
  <2>3. DataBlock(s, cap).op \in Ops /\ DataBlock(s, cap).n \in Nat
    BY <2>2, DataBlockType DEF TypeOK, Blocks
  <2>4. FinsKept
    <3> DEFINE c == IF ok THEN AfterTransmit(ckt[s], DataBlock(s, cap).op,
                                             DataBlock(s, cap).n)
                    ELSE ckt[s]
    <3>1. c \in Circuits /\ (ckt[s].received_fin => c.received_fin)
      BY <1>0, <2>3, FlushOps, FinOps
    <3>2. SetSpoken(s, c, ok)
      BY <2>1
    <3> HIDE DEF c
    <3> QED
      BY <1>0, <3>1, <3>2, FinSpoken
  <2> QED
    BY <1>3, <2>1, <2>2, <2>4, DataData, QueuesStill, DataStepParts DEF MustSendNew
<1> QED
  BY <1>1, <1>2, <1>3

LEMMA DataArrival ==
    ASSUME TypeOK, NEW s \in Sides,
           Recv(s) \/ RecvOpenFails(s) \/ RecvStale(s) \/ LoseBlock(s)
    PROVE  DataStep
<1>0. CircuitsOK /\ ckt[s] \in Circuits /\ tx[s] \in TxQueues
  BY CircuitOf DEF TypeOK
<1>1. CASE Recv(s)
  <2>1. PICK b \in net[s] : RecvBlock(s, b)
    BY <1>1 DEF Recv
  <2>2. /\ \A t \in Sides : net'[t] \subseteq net[t]
        /\ sent' = sent /\ buf' = buf /\ out' = out
        /\ \A t \in Sides \ {s} : tx'[t] = tx[t] /\ rx'[t] = rx[t]
        /\ rx'[s] = Insert(rx[s], b.seq, RxElt(b))
        /\ tx'[s] = tx[s] \/ tx'[s] = ProcessAck(tx[s], b.ack)
    BY <2>1 DEF RecvBlock, TypeOK, NetOK, QueuesOK
  <2>3. \A t \in Sides : Known(t)' \subseteq Known(t)
    <3>1. \A j \in Slots : \/ ProcessAck(tx[s], b.ack).cbuf[j] = tx[s].cbuf[j]
                           \/ ProcessAck(tx[s], b.ack).cbuf[j] = NoElt
      BY <1>0 DEF ProcessAck
    <3> QED
      BY <2>2, <3>1 DEF Known
  <2>4. \A t \in Sides : tx'[t].next_to_send = tx[t].next_to_send
    BY <2>2 DEF ProcessAck
  <2>5. SendsOK
    BY <2>2, <2>3, <2>4 DEF SendsOK, SendStep, SendsOld, SamePiece, WireStep
  <2>6. QueuesStep
    BY <2>2 DEF QueuesStep, QueueStep
  <2>7. PICK c \in Opened(s) : SetCkt(s, IF b.op = "RST" THEN RecvEof(c) ELSE c)
    BY <2>1 DEF RecvBlock
  <2>8. c \in Circuits /\ (ckt[s].received_fin => c.received_fin)
    <3>1. \A axe \in BOOLEAN :
             LET d == [ckt[s] EXCEPT !.status = "open", !.axe_timer = axe]
             IN  d \in Circuits /\ d.received_fin = ckt[s].received_fin
      BY <1>0 DEF Circuits, Status
    <3>2. ckt[s].axe_timer \in BOOLEAN
      BY <1>0 DEF Circuits
    <3>3. PICK axe \in BOOLEAN : c = [ckt[s] EXCEPT !.status = "open", !.axe_timer = axe]
      BY <3>2 DEF Opened
    <3> QED
      BY <3>1, <3>3
  <2>9. FinsKept
    BY <1>0, <2>7, <2>8, FinOps, FinSet
  <2> QED
    BY <2>5, <2>6, <2>9, DataStepParts
<1>2. CASE RecvOpenFails(s)
  BY <1>0, <1>2, FinOps, FinSet, DataIdle DEF RecvOpenFails
<1>3. CASE RecvStale(s)
  <2>1. \A t \in Sides : net'[t] \subseteq net[t]
    BY <1>3 DEF RecvStale, TypeOK, NetOK
  <2> QED
    BY <1>3, <2>1, SendsStill, QueuesStill, FinStill, DataStepParts DEF RecvStale
<1>4. CASE LoseBlock(s)
  <2>1. \A t \in Sides : net'[t] \subseteq net[t]
    BY <1>4 DEF LoseBlock, TypeOK, NetOK
  <2> QED
    BY <1>4, <2>1, SendsStill, QueuesStill, FinStill, DataStepParts DEF LoseBlock
<1> QED
  BY <1>1, <1>2, <1>3, <1>4

LEMMA DataReceive ==
    ASSUME TypeOK,
           \/ AckRetransmit \/ DrainData \/ DrainAbort \/ DrainAfterFin \/ DrainSteg
           \/ DrainStegFin \/ SendRst \/ DrainError \/ NoAckNeeded \/ SendAck \/ AckFails
    PROVE  DataStep
<1> DEFINE s == ctl.side
           e == Front(rx[s])
<1>0. /\ s \in Sides /\ CircuitsOK /\ ckt[s] \in Circuits
      /\ rx[s] \in RxQueues /\ rx \in [Sides -> RxQueues]
      /\ out \in [Sides -> Seq(Nat)]
  BY CircuitOf DEF TypeOK, QueuesOK, BuffersOK
<1> HIDE DEF s, e
<1>1. CASE AckRetransmit
  <2>1. UNCHANGED <<rx, buf, out>>
    BY <1>1 DEF AckRetransmit
  <2>2. CASE NoTraffic /\ UNCHANGED <<tx, ckt>>
    BY <2>1, <2>2, FinStill, DataIdle DEF NoTraffic
  <2>3. CASE \E i \in TxIteration(tx[s]), ok \in BOOLEAN :
                 IF HeadMissing(s, i)
                 THEN SetCkt(s, Abort(ckt[s])) /\ ctl' = Idle /\ NoTraffic /\ UNCHANGED tx
                 ELSE Resend(s, i, ok) /\ Go("recv") /\ UNCHANGED ckt
    <3>1. PICK i \in TxIteration(tx[s]), ok \in BOOLEAN :
                 IF HeadMissing(s, i)
                 THEN SetCkt(s, Abort(ckt[s])) /\ ctl' = Idle /\ NoTraffic /\ UNCHANGED tx
                 ELSE Resend(s, i, ok) /\ Go("recv") /\ UNCHANGED ckt
      BY <2>3
    <3>2. i \in Nat
      BY <1>0, TxIterationType
    <3>3. SendsOK
      BY <1>0, <2>1, <3>1, <3>2, SendsAgain, SendsStill DEF NoTraffic
    <3>4. FinsKept
      BY <1>0, <3>1, FinOps, FinSet, FinStill
    <3> QED
      BY <2>1, <3>3, <3>4, QueuesStill, DataStepParts
  <2> QED
    BY <1>1, <2>2, <2>3 DEF AckRetransmit, s
<1>2. CASE DrainData
  <2> DEFINE c == IF e.n > 0 THEN [ckt[s] EXCEPT !.dead = FALSE, !.outbuf = TRUE]
                  ELSE ckt[s]
  <2>1. /\ Draining(s) /\ Dequeue(s) /\ ~ckt[s].received_fin
        /\ out' = [out EXCEPT ![s] = @ \o Units(e)]
        /\ SetCkt(s, IF e.op = "FIN"
                     THEN [RecvEof(c) EXCEPT !.received_fin = TRUE] ELSE c)
        /\ NoTraffic /\ UNCHANGED <<tx, buf>>
    BY <1>2 DEF DrainData, s, e
  <2>2. FinsKept
    BY <1>0, <2>1, FinSet
  <2>3. SendsOK
    BY <2>1, SendsStill DEF NoTraffic
  <2>4. QueueStep(s)
    BY <1>0, <2>1 DEF QueueStep, Draining, Dequeue, e
  <2>5. \A t \in Sides \ {s} : QueueStep(t)
    BY <1>0, <2>1 DEF QueueStep, Dequeue
  <2> QED
    BY <2>2, <2>3, <2>4, <2>5, DataStepParts DEF QueuesStep
<1>3. CASE DrainAbort
  <2>1. FinsKept
    BY <1>0, <1>3, FinOps, FinSet DEF DrainAbort, s
  <2> QED
    BY <1>3, <2>1, DataIdle DEF DrainAbort, NoTraffic
<1>4. CASE DrainAfterFin
  <2>1. /\ Draining(s) /\ Dequeue(s) /\ ckt[s].received_fin
        /\ NoTraffic /\ UNCHANGED <<tx, buf, out, ckt>>
    BY <1>4 DEF DrainAfterFin, s
  <2>2. QueuesStep
    BY <1>0, <2>1 DEF QueuesStep, QueueStep, Draining, Dequeue
  <2> QED
    BY <2>1, <2>2, SendsStill, FinStill, DataStepParts DEF NoTraffic
<1>5. CASE DrainSteg
  <2>1. /\ Draining(s) /\ Dequeue(s) /\ Front(rx[s]).op \in {"STEG0", "STEG_FIN"}
        /\ SetCkt(s, [ckt[s] EXCEPT !.flush_timer = FALSE])
        /\ NoTraffic /\ UNCHANGED <<tx, buf, out>>
    BY <1>5 DEF DrainSteg, s
  <2>2. QueuesStep
    BY <1>0, <2>1 DEF QueuesStep, QueueStep, Draining, Dequeue
  <2>3. ckt[s].received_fin => [ckt[s] EXCEPT !.flush_timer = FALSE].received_fin
    BY <1>0 DEF Circuits
  <2>4. FinsKept
    BY <1>0, <2>1, <2>3, FinSet
  <2> QED
    BY <2>1, <2>2, <2>4, SendsStill, DataStepParts DEF NoTraffic
<1>6. CASE DrainStegFin
  <2> DEFINE c == IF ctl.fin /\ ~ckt[s].received_fin
                  THEN [RecvEof(ckt[s]) EXCEPT !.received_fin = TRUE] ELSE ckt[s]
  <2>1. ckt[s].received_fin => c.received_fin
    OBVIOUS
  <2>2. SetCkt(s, c)
    BY <1>6 DEF DrainStegFin, s
  <2> HIDE DEF c
  <2>3. FinsKept
    BY <1>0, <2>1, <2>2, FinSet
  <2> QED
    BY <1>6, <2>3, DataIdle DEF DrainStegFin, NoTraffic
<1>7. CASE SendRst
  <2>1. SendsOK
    <3>1. CASE \E wire \in Wires : SendSpecial(s, "RST", NoAck, wire)
      BY <1>0, <1>7, <3>1, NoAckType, DataSpecial DEF SendRst
    <3>2. CASE NoTraffic /\ UNCHANGED tx
      BY <1>7, <3>2, SendsStill DEF SendRst, NoTraffic
    <3> QED
      BY <1>7, <3>1, <3>2 DEF SendRst, s
  <2> QED
    BY <1>7, <2>1, QueuesStill, FinStill, DataStepParts DEF SendRst
<1>8. CASE DrainError
  <2>1. FinsKept
    BY <1>0, <1>8, FinRecvFails DEF DrainError, s
  <2> QED
    BY <1>8, <2>1, DataIdle DEF DrainError, NoTraffic
<1>9. CASE NoAckNeeded
  <2>1. FinsKept
    BY <1>0, <1>9, FinProceed DEF NoAckNeeded, s
  <2> QED
    BY <1>9, <2>1, DataIdle DEF NoAckNeeded, NoTraffic
<1>10. Acked(s) \in Circuits /\ (ckt[s].received_fin => Acked(s).received_fin)
  BY <1>0 DEF Acked, Circuits, RxQueues
<1>11. CASE SendAck
  <2>1. PICK wire \in Wires :
            /\ SendSpecial(s, "ACK", GenAck(rx[s]), wire)
            /\ IF wire = "fails" THEN RecvFails(s, Acked(s)) ELSE Proceed(s, Acked(s))
    BY <1>11 DEF SendAck, s
  <2>2. GenAck(rx[s]) \in AckPayloads
    BY <1>0, <1>11, GenAckType DEF SendAck, s
  <2>3. SendsOK
    BY <1>0, <1>11, <2>1, <2>2, DataSpecial DEF SendAck
  <2>4. FinsKept
    BY <1>0, <1>10, <2>1, FinRecvFails, FinProceed
  <2> QED
    BY <1>11, <2>3, <2>4, QueuesStill, DataStepParts DEF SendAck
<1>12. CASE AckFails
  <2>1. FinsKept
    BY <1>0, <1>10, <1>12, FinRecvFails, FinOps, FinSet DEF AckFails, s
  <2> QED
    BY <1>12, <2>1, DataIdle DEF AckFails, NoTraffic
<1> QED
  BY <1>1, <1>2, <1>3, <1>4, <1>5, <1>6, <1>7, <1>8, <1>9, <1>11, <1>12

LEMMA DataSend ==
    ASSUME TypeOK,
           \/ SendSteg \/ SendStegEnd \/ SendRetransmit \/ SendNothing
           \/ LoopBlock \/ LoopFull \/ SendNoConn \/ SendTail \/ Bye
    PROVE  DataStep
<1> DEFINE s == ctl.side
<1>0. /\ s \in Sides /\ CircuitsOK /\ ckt[s] \in Circuits /\ ckt[s].steg \in Nat
      /\ ctl.caller \in Callers
  BY CircuitOf DEF TypeOK, Circuits
<1> HIDE DEF s
<1>1. CASE SendSteg
  <2>1. PICK k \in 1 .. ckt[s].steg, ok \in BOOLEAN :
            /\ TransmitSteg(s, StegBlock(s, k), ok)
            /\ SetCkt(s, StegSent(s, k, ok))
    BY <1>1 DEF SendSteg, s
  <2>2. k \in Nat
    BY <1>0
  <2>3. FinsKept
    BY <1>0, <2>1, FinStegSent, FinSet
  <2> QED
    BY <1>0, <1>1, <2>1, <2>2, <2>3, DataSteg, QueuesStill, DataStepParts DEF SendSteg
<1>2. CASE SendStegEnd
  <2>1. ckt[s].received_fin => [ckt[s] EXCEPT !.dead = TRUE].received_fin
    BY <1>0 DEF Circuits
  <2>2. FinsKept
    BY <1>0, <1>2, <2>1, FinStill, FinSet DEF SendStegEnd, s
  <2> QED
    BY <1>2, <2>2, DataIdle DEF SendStegEnd, NoTraffic
<1>3. CASE SendRetransmit
  <2>1. PICK i \in TxIteration(tx[s]) :
            IF HeadMissing(s, i)
            THEN SetCkt(s, Abort(ckt[s])) /\ ctl' = Idle /\ NoTraffic /\ UNCHANGED tx
            ELSE \/ Resend(s, i, TRUE) /\ Go("tail") /\ UNCHANGED ckt
                 \/ Resend(s, i, FALSE) /\ Return(s, ckt[s], FALSE)
                 \/ /\ ~CanRetransmit(tx[s], i)
                    /\ Return(s, ckt[s], FALSE)
                    /\ NoTraffic /\ UNCHANGED tx
    BY <1>3 DEF SendRetransmit, s
  <2>2. i \in Nat /\ UNCHANGED <<rx, buf, out>>
    BY <1>0, <1>3, TxIterationType DEF SendRetransmit
  <2>3. SendsOK
    BY <1>0, <2>1, <2>2, SendsAgain, SendsStill DEF NoTraffic
  <2>4. FinsKept
    BY <1>0, <2>1, FinOps, FinSet, FinStill, FinReturn
  <2> QED
    BY <2>2, <2>3, <2>4, QueuesStill, DataStepParts
<1>4. CASE SendNothing
  BY <1>4, FinStill, DataIdle DEF SendNothing, NoTraffic
<1>5. CASE LoopBlock
  <2>1. PICK cap \in Capacities(s) :
            LET b == DataBlock(s, cap)
            IN  \/ /\ TransmitData(s, b, TRUE)
                   /\ SetCkt(s, AfterTransmit(ckt[s], b.op, b.n))
                \/ /\ TransmitData(s, b, FALSE)
                   /\ Return(s, ckt[s], FALSE)
    BY <1>5 DEF LoopBlock, s
  <2>2. cap \in Nat
    BY CapacityType
  <2>3. SendsOK
    BY <1>0, <2>1, <2>2, DataData
  <2>4. FinsKept
    BY <1>0, <2>1, FinOps, FinSet, FinReturn
  <2> QED
    BY <1>5, <2>3, <2>4, QueuesStill, DataStepParts DEF LoopBlock
<1>6. CASE LoopFull
  <2>1. FinsKept
    BY <1>0, <1>6, FinReturn DEF LoopFull, s
  <2> QED
    BY <1>6, <2>1, DataIdle DEF LoopFull, NoTraffic
<1>7. CASE SendNoConn
  BY <1>7, FinStill, DataIdle DEF SendNoConn, NoTraffic
<1>8. CASE SendTail
  <2> DEFINE c == IF ctl.moved THEN ckt[s] ELSE [ckt[s] EXCEPT !.dead = TRUE]
  <2>1. c \in Circuits /\ (ckt[s].received_fin => c.received_fin)
    BY <1>0 DEF Circuits
  <2>2. /\ UNCHANGED <<net, sent, tx, rx, buf, out>>
        /\ \/ ReturnEof(s, c, ctl.caller)
           \/ ReturnEof(s, ArmAxe(c), ctl.caller)
           \/ ReturnEof(s, [c EXCEPT !.axe_timer = FALSE], ctl.caller)
           \/ ReturnEof(s, Close(c), ctl.caller)
    BY <1>8 DEF SendTail, NoTraffic, s
  <2> HIDE DEF c
  <2>3. /\ [c EXCEPT !.axe_timer = FALSE] \in Circuits
        /\ c.received_fin => [c EXCEPT !.axe_timer = FALSE].received_fin
    BY <2>1 DEF Circuits
  <2>4. ArmAxe(c) \in Circuits /\ Close(c) \in Circuits
    BY <1>0, <2>1, CircuitOps
  <2>5. FinsKept
    BY <1>0, <2>1, <2>2, <2>3, <2>4, FinOps, FinReturnEof
  <2> QED
    BY <2>2, <2>5, DataIdle
<1>9. CASE Bye
  <2>1. FinsKept
    BY <1>0, <1>9, FinReturn DEF Bye, s
  <2> QED
    BY <1>9, <2>1, DataIdle DEF Bye, NoTraffic
<1> QED
  BY <1>1, <1>2, <1>3, <1>4, <1>5, <1>6, <1>7, <1>8, <1>9

LEMMA DataNext == TypeOK /\ [Next]_vars => DataStep
<1> SUFFICES ASSUME TypeOK, [Next]_vars PROVE DataStep
  OBVIOUS
<1>1. CASE Step
  BY <1>1, DataReceive, DataSend DEF Step
<1>2. ASSUME NEW s \in Sides, Event(s) PROVE DataStep
  BY <1>2, DataUpstream, DataMustSend, DataArrival DEF Event
<1>3. CASE UNCHANGED vars
  BY <1>3, FinStill, DataIdle DEF vars
<1> QED
  BY <1>1, <1>2, <1>3 DEF Next

LEMMA StreamInit == Init => StreamInv
<1> SUFFICES ASSUME Init PROVE StreamInv
  OBVIOUS
<1>1. \A s \in Sides : Known(s) = {}
  BY DEF Init, Known, EmptyTx
<1>2. \A s \in Sides : SenderInv(s)
  BY <1>1 DEF Init, SenderInv, EmptyTx
<1>3. \A s \in Sides : ReceiverInv(s)
  BY DEF Init, ReceiverInv, EmptyRx
<1>4. InOrder
  BY PeerType, EmptySeq DEF Init, InOrder
<1> QED
  BY <1>2, <1>3, <1>4 DEF StreamInv

\* Whatever is lost, delayed, reordered or sent again, and whatever the window
\* size, the retransmission setting and the amount of data, the upstream program
\* reads a prefix of what its peer's wrote: in order, without gap, and never
\* more than was cut into blocks (reassembly_queue::insert and process_queue).
THEOREM StreamInOrder == Spec => []InOrder
<1>1. Init => TypeOK /\ StreamInv
  BY TypeInit, StreamInit
<1>2. TypeOK /\ StreamInv /\ [Next]_vars => TypeOK' /\ StreamInv'
  BY TypeNext, DataNext, StreamKeeps
<1>3. StreamInv => InOrder
  BY DEF StreamInv
<1> QED
  BY <1>1, <1>2, <1>3, PTL DEF Spec

-----------------------------------------------------------------------------
(***************************************************************************)
(* THE WIRE.  What two chop circuits put on the wire and keep in their     *)
(* queues: no header is ever repeated, the windows of sender and receiver  *)
(* overlap, and an acknowledgment releases only what has arrived.          *)
(*                                                                         *)
(* As for the stream, few things can happen to a transmit queue, whichever *)
(* action does it: TxStep lists them, TxNext shows that every action is    *)
(* one of them, and the lemmas in between that each keeps the invariants.  *)
(***************************************************************************)

(***************************************************************************)
(* The invariants.                                                         *)
(***************************************************************************)
\* The numbers that make a header unique.
Pairs(S) == {<<b.seq, b.r>> : b \in S}

\* A block is queued in the slot of its number, with the highest retransmit
\* count it has been sent with; every transmission had a header of its own.
NonceInv(s) ==
    /\ IsFiniteSet(Pairs(sent[s]))
    /\ \A j \in Slots : tx[s].cbuf[j] # NoElt =>
          /\ Slot(tx[s].cbuf[j].seq) = j
          /\ \A b \in sent[s] : b.seq = tx[s].cbuf[j].seq => b.r <= tx[s].cbuf[j].r
    /\ Cardinality(Pairs(sent[s])) = nsent[s]

\* What an ACK says was received, was, and still is when the ACK arrives,
\* however late.  Block 0 is the exception: hsn is unsigned, so that the ACK
\* of an empty queue says that block 0 was received (see FirstBlockKept).
AckInv(s) ==
    \A b \in Known(s) : b.op = "ACK" =>
        /\ b.ack.hsn > 0 => b.ack.hsn < rx[s].next_to_process
        /\ \A i \in Nat \ {0} : BlockReceived(b.ack, i) => Received(rx[s], i)

\* The blocks in use are no more than the ring has slots; process_ack does not
\* run ahead of the peer, block 0 excepted; and every other block is still held,
\* or has arrived.
WindowInv(s) ==
    /\ tx[s].next_to_ack <= tx[s].next_to_send
    /\ tx[s].next_to_send - tx[s].next_to_ack <= W
    /\ tx[s].next_to_ack > 1 => tx[s].next_to_ack <= rx[Peer(s)].next_to_process
    /\ \A i \in 1 .. tx[s].next_to_send-1 :
          Held(tx[s], i) \/ Received(rx[Peer(s)], i)

WireInv ==
    /\ \A s \in Sides : NonceInv(s) /\ AckInv(s)
    /\ \A s \in RetransmitSides : WindowInv(s)

(***************************************************************************)
(* What a step does to the transmit queue of a side.                       *)
(***************************************************************************)
\* Block b is put on the wire, or nothing is.
OnWire(s, b) ==
    \/ sent'[s] = sent[s] \cup {b} /\ nsent'[s] = nsent[s] + 1
    \/ sent'[s] = sent[s] /\ nsent'[s] = nsent[s]

Rests(s) == tx'[s] = tx[s] /\ sent'[s] = sent[s] /\ nsent'[s] = nsent[s]

\* What is true of a block when it is made.
Made(s, b) ==
    /\ b.seq = tx[s].next_to_send /\ b.r = 0
    /\ b.from = buf[s].taken
    /\ \A t \in Sides : buf'[t].taken = IF t = s THEN buf[t].taken + b.n ELSE buf[t].taken
    /\ b.op = "FIN" => ckt[s].upstream_eof /\ b.n = Pending(s)
    /\ b.op = "ACK" => b.ack = GenAck(rx[s]) /\ ~GenAckAborts(rx[s])
    /\ b.op = "RST" => ctl.at = "rst"
    /\ b.op \in {"STEG0", "STEG_FIN"} => ckt[s].steg > 0

Files(s) ==
    \E new \in Blocks :
        /\ ~Full(s)
        /\ Made(s, new)
        /\ tx'[s] = Enqueue(tx[s], new)
        /\ OnWire(s, new)

Repeats(s) ==
    \E i \in Nat :
        /\ tx[s].cbuf[Slot(i)] # NoElt
        /\ tx'[s] = Retransmitted(tx[s], i)
        /\ OnWire(s, Retransmitted(tx[s], i).cbuf[Slot(i)])

Releases(s) ==
    \E b \in net[s] :
        /\ b.op = "ACK"
        /\ tx'[s] = ProcessAck(tx[s], b.ack)
        /\ sent'[s] = sent[s] /\ nsent'[s] = nsent[s]

TxStep(s) == Rests(s) \/ Files(s) \/ Repeats(s) \/ Releases(s)

TxSteps == \A s \in Sides : TxStep(s)

(***************************************************************************)
(* Every action is one of these.                                           *)
(***************************************************************************)
LEMMA TxRests ==
    ASSUME UNCHANGED <<tx, sent, nsent>>
    PROVE  TxSteps
BY DEF TxSteps, TxStep, Rests

\* What a transmission, or a failed one, does to the history of each side.
LEMMA WireCases ==
    ASSUME TypeOK, NEW s \in Sides, NEW b,
           Emit(s, b) \/ TransmitFails(s) \/ NoTraffic
    PROVE  /\ OnWire(s, b)
           /\ \A t \in Sides \ {s} : sent'[t] = sent[t] /\ nsent'[t] = nsent[t]
BY DEF TypeOK, NetOK, Emit, TransmitFails, NoTraffic, OnWire

LEMMA TxFiles ==
    ASSUME TypeOK, NEW s \in Sides, NEW b \in Blocks, ~Full(s),
           Made(s, b),
           tx' = [tx EXCEPT ![s] = Enqueue(@, b)],
           Emit(s, b) \/ TransmitFails(s) \/ NoTraffic
    PROVE  TxSteps
<1>1. tx'[s] = Enqueue(tx[s], b) /\ \A t \in Sides \ {s} : tx'[t] = tx[t]
  BY DEF TypeOK, QueuesOK
<1>2. Files(s)
  BY <1>1, WireCases DEF Files
<1>3. \A t \in Sides \ {s} : Rests(t)
  BY <1>1, WireCases DEF Rests
<1> QED
  BY <1>2, <1>3 DEF TxSteps, TxStep

LEMMA TxRepeats ==
    ASSUME TypeOK, NEW s \in Sides, NEW i \in TxIteration(tx[s]), NEW ok \in BOOLEAN,
           ~HeadMissing(s, i), Resend(s, i, ok)
    PROVE  TxSteps
<1>1. i \in Nat
  BY TxIterationType
<1>2. /\ tx'[s] = Retransmitted(tx[s], i) /\ \A t \in Sides \ {s} : tx'[t] = tx[t]
  BY DEF TypeOK, QueuesOK, Resend
<1>3. Emit(s, Retransmitted(tx[s], i).cbuf[Slot(i)]) \/ TransmitFails(s)
  BY DEF Resend
<1>4. Repeats(s)
  BY <1>1, <1>2, <1>3, WireCases DEF Repeats, HeadMissing
<1>5. \A t \in Sides \ {s} : Rests(t)
  BY <1>2, <1>3, WireCases DEF Rests
<1> QED
  BY <1>4, <1>5 DEF TxSteps, TxStep

LEMMA TxData ==
    ASSUME TypeOK, NEW s \in Sides, NEW cap \in Capacities(s), NEW ok \in BOOLEAN,
           ~Full(s), TransmitData(s, DataBlock(s, cap), ok)
    PROVE  TxSteps
<1> DEFINE b == DataBlock(s, cap)
<1>1. /\ b \in Blocks /\ b.seq = tx[s].next_to_send /\ b.op \in {"DAT", "FIN"}
      /\ b.from = buf[s].taken /\ b.r = 0
  <2>1. cap \in Nat
    BY CapacityType
  <2> QED
    BY <2>1, DataBlockType DEF TypeOK, DataBlock, NewBlock
<1>2. b.op = "FIN" => ckt[s].upstream_eof /\ b.n = Pending(s)
  <2>1. cap \in Nat /\ Pending(s) \in Nat
    BY CapacityType, PendingType DEF TypeOK
  <2> QED
    BY <2>1 DEF DataBlock, NewBlock, FinDue
<1> HIDE DEF b
<1>3. /\ tx' = [tx EXCEPT ![s] = Enqueue(@, b)]
      /\ buf' = [buf EXCEPT ![s].taken = @ + b.n]
      /\ Emit(s, b) \/ TransmitFails(s)
  BY DEF TransmitData, b
<1>4. \A t \in Sides : buf'[t].taken = IF t = s THEN buf[t].taken + b.n ELSE buf[t].taken
  BY <1>3 DEF TypeOK, BuffersOK
<1>5. Made(s, b)
  BY <1>1, <1>2, <1>4 DEF Made
<1> QED
  BY <1>1, <1>3, <1>5, TxFiles

LEMMA TxSteg ==
    ASSUME TypeOK, NEW s \in Sides, NEW k \in 1 .. ckt[s].steg, NEW ok \in BOOLEAN,
           ~Full(s), TransmitSteg(s, StegBlock(s, k), ok)
    PROVE  TxSteps
<1> DEFINE b == StegBlock(s, k)
<1>0. k \in Nat /\ ckt[s].steg \in Nat /\ ckt[s].steg > 0
  BY CircuitOf DEF Circuits
<1>1. b \in Blocks /\ b.seq = tx[s].next_to_send /\ b.from = buf[s].taken /\ b.n = 0
  BY <1>0, StegBlockType DEF TypeOK
<1>2. b.op \in {"STEG0", "STEG_FIN"} /\ b.r = 0
  BY DEF StegBlock, NewBlock
<1> HIDE DEF b
<1>3. /\ tx' = [tx EXCEPT ![s] = Enqueue(@, b)]
      /\ buf' = buf
      /\ Emit(s, b) \/ TransmitFails(s)
  BY DEF TransmitSteg, b
<1>4. \A t \in Sides : buf'[t].taken = IF t = s THEN buf[t].taken + b.n ELSE buf[t].taken
  BY <1>1, <1>3, PendingType DEF TypeOK
<1>5. Made(s, b)
  BY <1>0, <1>1, <1>2, <1>4 DEF Made
<1> QED
  BY <1>1, <1>3, <1>5, TxFiles

LEMMA TxSpecial ==
    ASSUME TypeOK, NEW s \in Sides, NEW op \in {"ACK", "RST"}, NEW ack \in AckPayloads,
           NEW wire \in Wires, SendSpecial(s, op, ack, wire), ~Full(s), buf' = buf,
           op = "ACK" => ack = GenAck(rx[s]) /\ ~GenAckAborts(rx[s]),
           op = "RST" => ctl.at = "rst"
    PROVE  TxSteps
<1> DEFINE b == NewBlock(tx[s], op, buf[s].taken, 0, ack)
<1>1. b \in Blocks
  BY NewBlockType, PendingType DEF TypeOK, QueuesOK, Ops
<1>2. /\ b.seq = tx[s].next_to_send /\ b.r = 0 /\ b.op = op /\ b.ack = ack
      /\ b.from = buf[s].taken /\ b.n = 0
  BY DEF NewBlock
<1> HIDE DEF b
<1>3. /\ tx' = [tx EXCEPT ![s] = Enqueue(@, b)]
      /\ Emit(s, b) \/ NoTraffic \/ TransmitFails(s)
  BY DEF SendSpecial, Wires, b
<1>4. \A t \in Sides : buf'[t].taken = IF t = s THEN buf[t].taken + b.n ELSE buf[t].taken
  BY <1>2, PendingType DEF TypeOK
<1>5. Made(s, b)
  BY <1>2, <1>4 DEF Made
<1> QED
  BY <1>1, <1>3, <1>5, TxFiles

LEMMA TxReceive ==
    ASSUME TypeOK, NEW s \in Sides, NEW b \in net[s], RecvBlock(s, b)
    PROVE  TxSteps
<1>1. /\ tx' = [tx EXCEPT ![s] = IF b.op = "ACK" THEN ProcessAck(@, b.ack) ELSE @]
      /\ sent' = sent /\ nsent' = nsent
  BY DEF RecvBlock
<1>2. TxStep(s)
  BY <1>1 DEF TypeOK, QueuesOK, TxStep, Releases, Rests
<1>3. \A t \in Sides \ {s} : TxStep(t)
  BY <1>1 DEF TypeOK, QueuesOK, TxStep, Rests
<1> QED
  BY <1>2, <1>3 DEF TxSteps

LEMMA TxEvent ==
    ASSUME TypeOK, NEW s \in Sides, Event(s)
    PROVE  TxSteps
<1>1. CASE \/ UpstreamRead(s) \/ UpstreamEof(s) \/ UpstreamError(s) \/ UpstreamFlush(s)
           \/ UpstreamConnect(s) \/ FlushTimer(s) \/ AxeTimer(s) \/ LastConnDrops(s)
           \/ StegData(s) \/ RecvOpenFails(s) \/ RecvStale(s) \/ LoseBlock(s)
  <2>1. UNCHANGED <<tx, sent, nsent>>
    BY <1>1 DEF UpstreamRead, UpstreamEof, UpstreamError, UpstreamFlush, UpstreamConnect,
                FlushTimer, AxeTimer, LastConnDrops, StegData, RecvOpenFails, RecvStale,
                LoseBlock, NoTraffic
  <2> QED
    BY <2>1, TxRests
<1>2. CASE MustSendSteg(s)
  BY <1>2, TxSteg DEF MustSendSteg
<1>3. CASE MustSendRetransmit(s)
  <2>1. PICK i \in TxIteration(tx[s]), ok \in BOOLEAN :
            IF HeadMissing(s, i) THEN NoTraffic /\ UNCHANGED tx ELSE Resend(s, i, ok)
    BY <1>3 DEF MustSendRetransmit
  <2>2. CASE HeadMissing(s, i)
    BY <2>1, <2>2, TxRests DEF NoTraffic
  <2>3. CASE ~HeadMissing(s, i)
    BY <2>1, <2>3, TxRepeats
  <2> QED
    BY <2>2, <2>3
<1>4. CASE MustSendNew(s)
  BY <1>4, TxData DEF MustSendNew
<1>5. CASE Recv(s)
  BY <1>5, TxReceive DEF Recv
<1> QED
  BY <1>1, <1>2, <1>3, <1>4, <1>5 DEF Event

LEMMA TxCallback ==
    ASSUME TypeOK, Step
    PROVE  TxSteps
<1> DEFINE s == ctl.side
<1>0. s \in Sides /\ rx[s] \in RxQueues
  BY DEF TypeOK, CircuitsOK, Ctls, QueuesOK
<1>1. CASE \/ DrainData \/ DrainAbort \/ DrainAfterFin \/ DrainSteg \/ DrainStegFin
           \/ DrainError \/ NoAckNeeded \/ AckFails \/ SendStegEnd \/ SendNothing
           \/ LoopFull \/ SendNoConn \/ SendTail \/ Bye
  <2>1. UNCHANGED <<tx, sent, nsent>>
    BY <1>1 DEF DrainData, DrainAbort, DrainAfterFin, DrainSteg, DrainStegFin, DrainError,
                NoAckNeeded, AckFails, SendStegEnd, SendNothing, LoopFull, SendNoConn,
                SendTail, Bye, NoTraffic
  <2> QED
    BY <2>1, TxRests
<1>2. CASE AckRetransmit
  <2>1. CASE NoTraffic /\ UNCHANGED tx
    BY <2>1, TxRests DEF NoTraffic
  <2>2. CASE ~(NoTraffic /\ UNCHANGED tx)
    <3>1. PICK i \in TxIteration(tx[s]), ok \in BOOLEAN :
              ~HeadMissing(s, i) /\ Resend(s, i, ok)
      BY <1>2, <2>2 DEF AckRetransmit
    <3> QED
      BY <1>0, <3>1, TxRepeats
  <2> QED
    BY <2>1, <2>2
<1>3. CASE SendRst
  <2>1. CASE NoTraffic /\ UNCHANGED tx
    BY <2>1, TxRests DEF NoTraffic
  <2>2. CASE ~Full(s) /\ \E wire \in Wires : SendSpecial(s, "RST", NoAck, wire)
    BY <1>0, <1>3, <2>2, TxSpecial, NoAckType DEF SendRst
  <2> QED
    BY <1>3, <2>1, <2>2 DEF SendRst
<1>4. CASE SendAck
  <2>1. PICK wire \in Wires : SendSpecial(s, "ACK", GenAck(rx[s]), wire)
    BY <1>4 DEF SendAck
  <2>2. ~GenAckAborts(rx[s]) /\ ~Full(s) /\ buf' = buf
    BY <1>4 DEF SendAck
  <2> QED
    BY <1>0, <2>1, <2>2, GenAckType, TxSpecial
<1>5. CASE SendSteg
  BY <1>0, <1>5, TxSteg DEF SendSteg
<1>6. CASE SendRetransmit
  <2>1. CASE NoTraffic /\ UNCHANGED tx
    BY <2>1, TxRests DEF NoTraffic
  <2>2. CASE ~(NoTraffic /\ UNCHANGED tx)
    <3>1. PICK i \in TxIteration(tx[s]) :
              ~HeadMissing(s, i) /\ \E ok \in BOOLEAN : Resend(s, i, ok)
      BY <1>6, <2>2 DEF SendRetransmit
    <3> QED
      BY <1>0, <3>1, TxRepeats
  <2> QED
    BY <2>1, <2>2
<1>7. CASE LoopBlock
  <2>1. PICK cap \in Capacities(s) :
            \E ok \in BOOLEAN : TransmitData(s, DataBlock(s, cap), ok)
    BY <1>7 DEF LoopBlock
  <2>2. ~Full(s)
    BY <1>7 DEF LoopBlock
  <2> QED
    BY <1>0, <2>1, <2>2, TxData
<1> QED
  BY <1>1, <1>2, <1>3, <1>4, <1>5, <1>6, <1>7 DEF Step

LEMMA TxNext == TypeOK /\ [Next]_vars => TxSteps
<1> SUFFICES ASSUME TypeOK, [Next]_vars PROVE TxSteps
  OBVIOUS
<1>1. CASE UNCHANGED vars
  BY <1>1, TxRests DEF vars
<1> QED
  BY <1>1, TxEvent, TxCallback DEF Next

(***************************************************************************)
(* Headers.                                                                *)
(***************************************************************************)
\* What the queue operators do to a slot.
LEMMA EnqueueSlots ==
    ASSUME NEW q \in TxQueues, NEW b
    PROVE  /\ Slot(q.next_to_send) \in Slots
           /\ Enqueue(q, b).next_to_send = q.next_to_send + 1
           /\ Enqueue(q, b).next_to_ack = q.next_to_ack
           /\ \A j \in Slots : Enqueue(q, b).cbuf[j] =
                 IF j = Slot(q.next_to_send) THEN b ELSE q.cbuf[j]
BY SlotType DEF Enqueue, TxQueues

LEMMA RepeatSlots ==
    ASSUME NEW q \in TxQueues, NEW i \in Nat, q.cbuf[Slot(i)] # NoElt
    PROVE  /\ Slot(i) \in Slots /\ q.cbuf[Slot(i)] \in Blocks
           /\ Retransmitted(q, i).next_to_send = q.next_to_send
           /\ Retransmitted(q, i).next_to_ack = q.next_to_ack
           /\ Retransmitted(q, i).cbuf[Slot(i)] \in Blocks
           /\ LET b == Retransmitted(q, i).cbuf[Slot(i)]
                  c == q.cbuf[Slot(i)]
              IN  SamePiece(b, c) /\ b.ack = c.ack /\ b.r = c.r + 1
           /\ \A j \in Slots \ {Slot(i)} : Retransmitted(q, i).cbuf[j] = q.cbuf[j]
<1> DEFINE c == q.cbuf[Slot(i)]
           b == [c EXCEPT !.r = @ + 1]
<1>1. Slot(i) \in Slots /\ c \in Blocks
  BY SlotType DEF TxQueues
<1>2. b \in Blocks /\ SamePiece(b, c) /\ b.ack = c.ack /\ b.r = c.r + 1
  BY <1>1 DEF Blocks, SamePiece
<1>3. Retransmitted(q, i) = [cbuf |-> [q.cbuf EXCEPT ![Slot(i)] = b],
                             next_to_ack |-> q.next_to_ack,
                             next_to_send |-> q.next_to_send]
  BY DEF Retransmitted
<1> HIDE DEF b
<1>4. Retransmitted(q, i).cbuf[Slot(i)] = b
  BY <1>1, <1>3 DEF TxQueues
<1> QED
  BY <1>1, <1>2, <1>3, <1>4 DEF TxQueues

\* process_ack empties slots, and touches no block.
LEMMA ReleaseSlots ==
    ASSUME NEW q \in TxQueues, NEW ack
    PROVE  /\ ProcessAck(q, ack).next_to_send = q.next_to_send
           /\ \A j \in Slots : ProcessAck(q, ack).cbuf[j] \in {NoElt, q.cbuf[j]}
BY DEF ProcessAck, TxQueues

\* One more header.
LEMMA PairsGrow ==
    ASSUME NEW S, NEW b, IsFiniteSet(Pairs(S)), <<b.seq, b.r>> \notin Pairs(S)
    PROVE  /\ IsFiniteSet(Pairs(S \cup {b}))
           /\ Cardinality(Pairs(S \cup {b})) = Cardinality(Pairs(S)) + 1
<1>1. Pairs(S \cup {b}) = Pairs(S) \cup {<<b.seq, b.r>>}
  BY DEF Pairs
<1> QED
  BY <1>1, FS_AddElement

\* Only a block of the same number and count has the same header.
LEMMA PairsFresh ==
    ASSUME NEW S, NEW b, \A c \in S : c.seq = b.seq => c.r # b.r
    PROVE  <<b.seq, b.r>> \notin Pairs(S)
BY DEF Pairs

\* The history counts on when a block with a fresh header may be sent.
LEMMA PairsCount ==
    ASSUME NEW s \in Sides, NonceInv(s), NEW b, OnWire(s, b),
           \A c \in sent[s] : c.seq = b.seq => c.r # b.r
    PROVE  IsFiniteSet(Pairs(sent'[s])) /\ Cardinality(Pairs(sent'[s])) = nsent'[s]
<1>1. <<b.seq, b.r>> \notin Pairs(sent[s])
  BY PairsFresh
<1>2. CASE sent'[s] = sent[s] \cup {b} /\ nsent'[s] = nsent[s] + 1
  BY <1>1, <1>2, PairsGrow DEF NonceInv
<1>3. CASE sent'[s] = sent[s] /\ nsent'[s] = nsent[s]
  BY <1>3 DEF NonceInv
<1> QED
  BY <1>2, <1>3 DEF OnWire

LEMMA NonceKeeps ==
    ASSUME TypeOK, NEW s \in Sides, SenderInv(s), NonceInv(s), TxStep(s)
    PROVE  NonceInv(s)'
<1> DEFINE Newest(q, S) ==
        \A j \in Slots : q.cbuf[j] # NoElt =>
            /\ Slot(q.cbuf[j].seq) = j
            /\ \A b \in S : b.seq = q.cbuf[j].seq => b.r <= q.cbuf[j].r
<1>1. /\ tx[s] \in TxQueues /\ sent[s] \subseteq Blocks
      /\ \A b \in sent[s] : b.seq < tx[s].next_to_send
      /\ \A j \in Slots : tx[s].cbuf[j] # NoElt => tx[s].cbuf[j].seq < tx[s].next_to_send
  BY DEF TypeOK, QueuesOK, NetOK, SenderInv, Known
<1>2. Newest(tx[s], sent[s])
  BY DEF NonceInv
<1>3. /\ tx[s].next_to_send \in Nat
      /\ \A j \in Slots : tx[s].cbuf[j] # NoElt => tx[s].cbuf[j] \in Blocks
  BY <1>1 DEF TxQueues
<1>4. CASE Rests(s)
  BY <1>4 DEF Rests, NonceInv
<1>5. CASE Files(s)
  <2>1. PICK new \in Blocks :
            /\ new.seq = tx[s].next_to_send /\ new.r = 0
            /\ tx'[s] = Enqueue(tx[s], new) /\ OnWire(s, new)
    BY <1>5 DEF Files, Made
  <2>2. \A b \in sent[s] : b.seq # new.seq
    BY <1>1, <1>3, <2>1 DEF Blocks
  <2>3. IsFiniteSet(Pairs(sent'[s])) /\ Cardinality(Pairs(sent'[s])) = nsent'[s]
    BY <2>1, <2>2, PairsCount
  <2>4. Newest(tx'[s], sent'[s])
    <3> SUFFICES ASSUME NEW j \in Slots, tx'[s].cbuf[j] # NoElt
                 PROVE  /\ Slot(tx'[s].cbuf[j].seq) = j
                        /\ \A b \in sent'[s] : b.seq = tx'[s].cbuf[j].seq
                              => b.r <= tx'[s].cbuf[j].r
      OBVIOUS
    <3>1. \A b \in sent'[s] : b \in sent[s] \/ b = new
      BY <2>1 DEF OnWire
    <3>2. CASE j = Slot(tx[s].next_to_send)
      <4>1. tx'[s].cbuf[j] = new
        BY <1>1, <2>1, <3>2, EnqueueSlots
      <4> QED
        BY <2>1, <2>2, <3>1, <3>2, <4>1
    <3>3. CASE j # Slot(tx[s].next_to_send)
      <4>1. tx'[s].cbuf[j] = tx[s].cbuf[j]
        BY <1>1, <2>1, <3>3, EnqueueSlots
      <4>2. tx[s].cbuf[j].seq # new.seq
        BY <1>1, <1>3, <2>1, <4>1 DEF Blocks
      <4> QED
        BY <1>2, <3>1, <4>1, <4>2
    <3> QED
      BY <3>2, <3>3
  <2> QED
    BY <2>3, <2>4 DEF NonceInv
<1>6. CASE Repeats(s)
  <2>1. PICK i \in Nat :
            /\ tx[s].cbuf[Slot(i)] # NoElt
            /\ tx'[s] = Retransmitted(tx[s], i)
            /\ OnWire(s, Retransmitted(tx[s], i).cbuf[Slot(i)])
    BY <1>6 DEF Repeats
  <2> DEFINE old == tx[s].cbuf[Slot(i)]
             new == Retransmitted(tx[s], i).cbuf[Slot(i)]
  <2>2. /\ Slot(i) \in Slots /\ old \in Blocks /\ new \in Blocks
        /\ new.seq = old.seq /\ new.r = old.r + 1
        /\ \A j \in Slots \ {Slot(i)} : tx'[s].cbuf[j] = tx[s].cbuf[j]
    BY <1>1, <2>1, RepeatSlots DEF SamePiece
  <2>3. tx'[s].cbuf[Slot(i)] = new /\ OnWire(s, new)
    BY <2>1
  <2>4. old # NoElt
    BY <2>1
  <2> HIDE DEF new, old
  <2>5. \A b \in sent[s] : b.seq = new.seq => b.r <= old.r
    BY <1>2, <2>2, <2>4 DEF old
  <2>6. \A b \in sent[s] : b.seq = new.seq => b.r < new.r
    BY <1>1, <2>2, <2>5 DEF Blocks
  <2>7. IsFiniteSet(Pairs(sent'[s])) /\ Cardinality(Pairs(sent'[s])) = nsent'[s]
    <3>1. \A b \in sent[s] : b.seq = new.seq => b.r # new.r
      BY <1>1, <2>2, <2>6 DEF Blocks
    <3> QED
      BY <2>3, <3>1, PairsCount
  <2>8. Newest(tx'[s], sent'[s])
    <3> SUFFICES ASSUME NEW j \in Slots, tx'[s].cbuf[j] # NoElt
                 PROVE  /\ Slot(tx'[s].cbuf[j].seq) = j
                        /\ \A b \in sent'[s] : b.seq = tx'[s].cbuf[j].seq
                              => b.r <= tx'[s].cbuf[j].r
      OBVIOUS
    <3>1. \A b \in sent'[s] : b \in sent[s] \/ b = new
      BY <2>3 DEF OnWire
    <3>2. Slot(new.seq) = Slot(i)
      BY <1>2, <2>2, <2>4 DEF old
    <3>3. CASE j = Slot(i)
      <4>1. \A b \in sent[s] : b.seq = new.seq => b.r <= new.r
        BY <1>1, <2>2, <2>6 DEF Blocks
      <4>2. new.r <= new.r
        BY <2>2 DEF Blocks
      <4> QED
        BY <2>3, <3>1, <3>2, <3>3, <4>1, <4>2
    <3>4. CASE j # Slot(i)
      <4>1. tx'[s].cbuf[j] = tx[s].cbuf[j] /\ Slot(tx[s].cbuf[j].seq) = j
        BY <1>2, <2>2, <3>4
      <4>2. tx[s].cbuf[j].seq # new.seq
        BY <3>2, <3>4, <4>1
      <4> QED
        BY <1>2, <3>1, <4>1, <4>2
    <3> QED
      BY <3>3, <3>4
  <2> QED
    BY <2>7, <2>8 DEF NonceInv
<1>7. CASE Releases(s)
  <2>1. /\ sent'[s] = sent[s] /\ nsent'[s] = nsent[s]
        /\ \A j \in Slots : tx'[s].cbuf[j] \in {NoElt, tx[s].cbuf[j]}
    BY <1>1, <1>7, ReleaseSlots DEF Releases
  <2> QED
    BY <2>1 DEF NonceInv
<1> QED
  BY <1>4, <1>5, <1>6, <1>7 DEF TxStep

(***************************************************************************)
(* Acknowledgments.                                                        *)
(***************************************************************************)
\* The slot that lies as far behind the front slot as a block lies behind the
\* front block is the block's.
LEMMA SlotShift ==
    ASSUME NEW p \in Nat, NEW pos \in Slots, pos >= Slot(p)
    PROVE  /\ p + (pos - Slot(p)) \in Nat
           /\ Slot(p + (pos - Slot(p))) = pos
<1> DEFINE d == p \div W
           m == p + (pos - Slot(p))
           x == m \div W
<1>1. W \in Nat \ {0} /\ pos \in 0 .. W-1
  BY WAssumption DEF Slots
<1>2. p = W * d + Slot(p) /\ d \in Nat /\ Slot(p) \in 0 .. W-1
  BY <1>1, DivMod DEF Slot
<1>3. m \in Nat /\ m = W * d + pos
  BY <1>1, <1>2
<1>4. m = W * x + (m % W) /\ x \in Nat /\ m % W \in 0 .. W-1
  BY <1>1, <1>3, DivMod
<1> HIDE DEF d, m, x
<1>5. CASE x < d
  <2>1. W * d >= W * x + W
    BY <1>1, <1>2, <1>4, <1>5, MultiplesApart
  <2> QED
    BY <2>1, <1>1, <1>2, <1>3, <1>4
<1>6. CASE d < x
  <2>1. W * x >= W * d + W
    BY <1>1, <1>2, <1>4, <1>6, MultiplesApart
  <2> QED
    BY <2>1, <1>1, <1>2, <1>3, <1>4
<1>7. CASE x = d
  <2>1. m % W = pos
    BY <1>1, <1>2, <1>3, <1>4, <1>7
  <2> QED
    BY <1>3, <2>1 DEF Slot, m
<1> QED
  BY <1>2, <1>4, <1>5, <1>6, <1>7

\* gen_ack reports only blocks that are on the queue or were taken off it,
\* block 0 excepted.
LEMMA GenAckTruthful ==
    ASSUME NEW q \in RxQueues, ~GenAckAborts(q), NEW i \in Nat \ {0},
           BlockReceived(GenAck(q), i)
    PROVE  Received(q, i)
<1> DEFINE p == q.next_to_process
           h == GenAckHsn(q)
<1>1. p \in Nat /\ Slot(p) \in Slots
  BY SlotType DEF RxQueues
<1>2. h \in Nat /\ (p = 0 => h = 0) /\ (p # 0 => h = p - 1)
  BY <1>1 DEF GenAckHsn
<1>3. GenAck(q).hsn = h /\ GenAck(q).window = GenAckBits(q)
  BY DEF GenAck
<1>4. GenAckBits(q) \subseteq Slots
  BY DEF GenAckAborts
<1>5. CASE i <= h
  BY <1>1, <1>2, <1>5 DEF Received
<1>6. CASE (i - h) - 1 \in GenAckBits(q)
  <2>1. PICK pos \in {j \in Slots : q.cbuf[j] # NoRxElt} :
            (i - h) - 1 = (p + (pos - Slot(p))) - h - 1
    BY <1>6 DEF GenAckBits
  <2>2. pos \in Slots /\ q.cbuf[pos] # NoRxElt /\ pos \in Int /\ Slot(p) \in Int
    BY <1>1, <2>1, WAssumption DEF Slots
  <2> HIDE DEF p, h
  <2>3. i = p + (pos - Slot(p))
    BY <1>1, <1>2, <2>1, <2>2
  <2>4. (i - h) - 1 >= 0
    BY <1>4, <1>6, WAssumption DEF Slots
  <2>5. pos >= Slot(p)
    <3>1. CASE p = 0
      <4>1. Slot(p) = 0
        BY <3>1, WAssumption DEF Slot
      <4> QED
        BY <2>2, <4>1, WAssumption DEF Slots
    <3>2. CASE p # 0
      BY <1>1, <1>2, <2>2, <2>3, <2>4, <3>2
    <3> QED
      BY <3>1, <3>2
  <2>6. Slot(i) = pos
    BY <1>1, <2>2, <2>3, <2>5, SlotShift
  <2>7. i - p \in Slots
    BY <1>1, <2>2, <2>3, <2>5, WAssumption DEF Slots
  <2> QED
    BY <2>2, <2>6, <2>7 DEF Received, InWindow, p
<1> QED
  BY <1>3, <1>5, <1>6 DEF BlockReceived

\* What was received stays received, when a block is inserted ...
LEMMA ReceivedInsert ==
    ASSUME NEW q \in RxQueues, NEW i \in Nat, Received(q, i),
           NEW seq \in Nat, NEW e \in RxElts
    PROVE  Received(Insert(q, seq, e), i)
<1>1. Slot(i) \in Slots /\ Slot(seq) \in Slots
  BY SlotType
<1>2. e # NoRxElt
  BY DEF RxElts, NoRxElt, Ops
<1> QED
  BY <1>1, <1>2 DEF Received, Insert, InWindow, RxQueues

\* ... and when the front one is taken off.
LEMMA ReceivedRemove ==
    ASSUME NEW q \in RxQueues, NEW i \in Nat, Received(q, i)
    PROVE  Received(RemoveNext(q), i)
<1> DEFINE p == q.next_to_process
           r == RemoveNext(q)
<1>1. p \in Nat /\ Slot(i) \in Slots /\ Slot(p) \in Slots
  BY SlotType DEF RxQueues
<1>2. /\ r.next_to_process = p + 1
      /\ \A j \in Slots : r.cbuf[j] = IF j = Slot(p) THEN NoRxElt ELSE q.cbuf[j]
  BY <1>1 DEF RemoveNext, RxQueues
<1> HIDE DEF r, p
<1>3. CASE i < p \/ i = p
  BY <1>1, <1>2, <1>3 DEF Received, r
<1>4. CASE ~(i < p \/ i = p)
  <2>1. i - p \in Slots /\ q.cbuf[Slot(i)] # NoRxElt
    BY <1>4 DEF Received, InWindow, p
  <2>2. Slot(i) # Slot(p)
    BY <1>1, <1>4, <2>1, SlotInjective, WAssumption DEF Slots
  <2>3. i - (p + 1) \in Slots
    BY <1>1, <1>4, <2>1, WAssumption DEF Slots
  <2> QED
    BY <1>1, <1>2, <2>1, <2>2, <2>3 DEF Received, InWindow, r
<1> QED
  BY <1>3, <1>4

\* The element recv_block makes of a block.
LEMMA RxEltType == \A b \in Blocks : RxElt(b) \in RxElts
BY DEF RxElt, RxElts, Blocks, Ops

LEMMA ReceivedKept ==
    ASSUME TypeOK, NEW s \in Sides, QueueStep(s)
    PROVE  /\ rx[s].next_to_process \in Nat /\ rx'[s].next_to_process \in Nat
           /\ rx[s].next_to_process <= rx'[s].next_to_process
           /\ \A i \in Nat : Received(rx[s], i) => Received(rx'[s], i)
<1>1. rx[s] \in RxQueues /\ rx[s].next_to_process \in Nat
  BY DEF TypeOK, QueuesOK, RxQueues
<1>2. CASE rx'[s] = rx[s]
  BY <1>1, <1>2
<1>3. CASE \E b \in net[s] : rx'[s] = Insert(rx[s], b.seq, RxElt(b))
  <2>1. PICK b \in net[s] : rx'[s] = Insert(rx[s], b.seq, RxElt(b))
    BY <1>3
  <2>2. b.seq \in Nat /\ RxElt(b) \in RxElts
    BY RxEltType DEF TypeOK, NetOK, Blocks
  <2>3. rx'[s].next_to_process = rx[s].next_to_process
    BY <2>1 DEF Insert
  <2> QED
    BY <1>1, <2>1, <2>2, <2>3, ReceivedInsert
<1>4. CASE rx'[s] = RemoveNext(rx[s])
  <2>1. rx'[s].next_to_process = rx[s].next_to_process + 1
    BY <1>4 DEF RemoveNext
  <2> QED
    BY <1>1, <1>4, <2>1, ReceivedRemove
<1> QED
  BY <1>2, <1>3, <1>4 DEF QueueStep

\* Where a block of a side comes from.
LEMMA KnownSources ==
    ASSUME TypeOK, NEW s \in Sides, TxStep(s), NEW b \in Known(s)'
    PROVE  \/ \E c \in Known(s) : SamePiece(b, c) /\ b.ack = c.ack
           \/ b \in Blocks /\ Made(s, b)
<1>1. tx[s] \in TxQueues
  BY DEF TypeOK, QueuesOK
<1>2. b \in sent'[s] \/ \E j \in Slots : b = tx'[s].cbuf[j] /\ b # NoElt
  BY DEF Known
<1>3. CASE Rests(s)
  BY <1>3 DEF Rests, Known, SamePiece
<1>4. CASE Files(s)
  <2>1. PICK new \in Blocks :
            /\ Made(s, new)
            /\ tx'[s] = Enqueue(tx[s], new) /\ OnWire(s, new)
    BY <1>4 DEF Files
  <2>2. \A j \in Slots : tx'[s].cbuf[j] \in {new, tx[s].cbuf[j]}
    BY <1>1, <2>1, EnqueueSlots
  <2>3. b = new \/ b \in Known(s)
    BY <1>2, <2>1, <2>2 DEF OnWire, Known
  <2> QED
    BY <2>1, <2>3 DEF SamePiece
<1>5. CASE Repeats(s)
  <2>1. PICK i \in Nat :
            /\ tx[s].cbuf[Slot(i)] # NoElt
            /\ tx'[s] = Retransmitted(tx[s], i)
            /\ OnWire(s, Retransmitted(tx[s], i).cbuf[Slot(i)])
    BY <1>5 DEF Repeats
  <2> DEFINE old == tx[s].cbuf[Slot(i)]
             new == Retransmitted(tx[s], i).cbuf[Slot(i)]
  <2>2. /\ Slot(i) \in Slots /\ SamePiece(new, old) /\ new.ack = old.ack
        /\ \A j \in Slots \ {Slot(i)} : tx'[s].cbuf[j] = tx[s].cbuf[j]
    BY <1>1, <2>1, RepeatSlots
  <2>3. tx'[s].cbuf[Slot(i)] = new /\ OnWire(s, new)
    BY <2>1
  <2>4. old \in Known(s)
    BY <2>1, <2>2 DEF Known
  <2> HIDE DEF old, new
  <2>5. b = new \/ b \in Known(s)
    BY <1>2, <2>2, <2>3 DEF OnWire, Known
  <2> QED
    BY <2>2, <2>4, <2>5 DEF SamePiece
<1>6. CASE Releases(s)
  <2>1. sent'[s] = sent[s] /\ \A j \in Slots : tx'[s].cbuf[j] \in {NoElt, tx[s].cbuf[j]}
    BY <1>1, <1>6, ReleaseSlots DEF Releases
  <2> QED
    BY <1>2, <2>1 DEF Known, SamePiece
<1> QED
  BY <1>3, <1>4, <1>5, <1>6 DEF TxStep

LEMMA AckKeeps ==
    ASSUME TypeOK, TypeOK', NEW s \in Sides, AckInv(s), TxStep(s), QueueStep(s)
    PROVE  AckInv(s)'
<1> SUFFICES ASSUME NEW b \in Known(s)', b.op = "ACK"
             PROVE  /\ b.ack.hsn > 0 => b.ack.hsn < rx'[s].next_to_process
                    /\ \A i \in Nat \ {0} : BlockReceived(b.ack, i) => Received(rx'[s], i)
  BY DEF AckInv
<1>1. rx[s] \in RxQueues
  BY DEF TypeOK, QueuesOK
<1>2. /\ b.ack.hsn \in Int /\ (b.ack.hsn > 0 => b.ack.hsn < rx[s].next_to_process)
      /\ \A i \in Nat \ {0} : BlockReceived(b.ack, i) => Received(rx[s], i)
  <2>1. CASE \E c \in Known(s) : SamePiece(b, c) /\ b.ack = c.ack
    <3>1. b.ack.hsn \in Nat
      BY KnownTypesNext DEF KnownOK, Blocks, AckPayloads
    <3> QED
      BY <2>1, <3>1 DEF AckInv, SamePiece
  <2>2. CASE b.ack = GenAck(rx[s]) /\ ~GenAckAborts(rx[s])
    <3>1. b.ack.hsn \in Nat /\ (b.ack.hsn > 0 => b.ack.hsn < rx[s].next_to_process)
      BY <1>1, <2>2 DEF GenAck, GenAckHsn, RxQueues
    <3> QED
      BY <1>1, <2>2, <3>1, GenAckTruthful
  <2> QED
    BY <2>1, <2>2, KnownSources DEF Made
<1> QED
  BY <1>2, ReceivedKept

(***************************************************************************)
(* The windows.                                                            *)
(***************************************************************************)
\* A queue that is not full has a free slot: the next block overwrites none
\* that is still held.
LEMMA HeldEnqueue ==
    ASSUME NEW q \in TxQueues, NEW b \in Blocks, b.seq = q.next_to_send,
           q.next_to_ack <= q.next_to_send, q.next_to_send - q.next_to_ack <= W-1
    PROVE  /\ Held(Enqueue(q, b), q.next_to_send)
           /\ \A i \in 0 .. q.next_to_send-1 : Held(q, i) => Held(Enqueue(q, b), i)
<1> DEFINE m == q.next_to_send
           e == Enqueue(q, b)
<1>1. m \in Nat /\ q.next_to_ack \in Nat
  BY DEF TxQueues
<1>2. /\ e.next_to_ack = q.next_to_ack
      /\ \A j \in Slots : e.cbuf[j] = IF j = Slot(m) THEN b ELSE q.cbuf[j]
      /\ Slot(m) \in Slots
  BY EnqueueSlots
<1>3. b # NoElt
  BY DEF Blocks, NoElt, Ops
<1> HIDE DEF m, e
<1>4. Held(e, m)
  BY <1>2, <1>3 DEF Held, m
<1>5. ASSUME NEW i \in 0 .. m-1, Held(q, i) PROVE Held(e, i)
  <2>1. i \in Nat /\ Slot(i) \in Slots /\ q.next_to_ack <= i
    BY <1>1, <1>5, SlotType DEF Held
  <2>2. m - i < W /\ i <= m /\ i # m
    BY <1>1, <2>1, WAssumption DEF m
  <2>3. Slot(i) # Slot(m)
    BY <1>1, <2>1, <2>2, SlotInjective
  <2> QED
    BY <1>2, <1>5, <2>1, <2>3 DEF Held
<1> QED
  BY <1>4, <1>5 DEF m, e

\* retransmit() holds on to what it sends again.
LEMMA HeldRepeat ==
    ASSUME NEW q \in TxQueues, NEW k \in Nat, q.cbuf[Slot(k)] # NoElt,
           NEW i \in Nat, Held(q, i)
    PROVE  Held(Retransmitted(q, k), i)
<1> DEFINE e == Retransmitted(q, k)
<1>1. /\ e.next_to_ack = q.next_to_ack
      /\ e.cbuf[Slot(k)] \in Blocks /\ e.cbuf[Slot(k)].seq = q.cbuf[Slot(k)].seq
      /\ \A j \in Slots \ {Slot(k)} : e.cbuf[j] = q.cbuf[j]
      /\ Slot(i) \in Slots
  BY RepeatSlots, SlotType DEF SamePiece
<1>2. e.cbuf[Slot(k)] # NoElt
  BY <1>1 DEF Blocks, NoElt, Ops
<1> HIDE DEF e
<1>3. CASE Slot(i) = Slot(k)
  BY <1>1, <1>2, <1>3 DEF Held, e
<1>4. CASE Slot(i) # Slot(k)
  BY <1>1, <1>4 DEF Held, e
<1> QED
  BY <1>3, <1>4

\* An ACK releases a block only if it says that the block was received.
LEMMA HeldRelease ==
    ASSUME NEW q \in TxQueues, NEW ack \in AckPayloads,
           q.next_to_send - q.next_to_ack <= W,
           NEW i \in 1 .. q.next_to_send-1, Held(q, i), ~BlockReceived(ack, i)
    PROVE  Held(ProcessAck(q, ack), i)
<1> DEFINE e == ProcessAck(q, ack)
<1>1. /\ q.next_to_ack \in Nat /\ q.next_to_send \in Nat /\ i \in Nat /\ ack.hsn \in Nat
      /\ Slot(i) \in Slots
  BY SlotType DEF TxQueues, AckPayloads
<1>2. CASE ~AckAcceptable(q, ack)
  BY <1>2 DEF ProcessAck
<1>3. CASE AckAcceptable(q, ack)
  <2>1. /\ e.next_to_ack = IF q.next_to_ack <= ack.hsn THEN ack.hsn + 1 ELSE q.next_to_ack
        /\ e.cbuf[Slot(i)] = IF Released(q, ack, Slot(i)) THEN NoElt ELSE q.cbuf[Slot(i)]
    BY <1>1, <1>3 DEF ProcessAck
  <2>2. i > ack.hsn
    BY <1>1 DEF BlockReceived
  <2>3. e.next_to_ack <= i
    BY <1>1, <2>1, <2>2 DEF Held
  <2>4. ~Released(q, ack, Slot(i))
    <3> SUFFICES ASSUME NEW k \in q.next_to_ack .. q.next_to_send-1,
                        Slot(k) = Slot(i), BlockReceived(ack, k)
                 PROVE  FALSE
      BY DEF Released
    <3>1. /\ k \in Nat /\ q.next_to_ack <= i
          /\ i <= k => k - i < W
          /\ k <= i => i - k < W
      BY <1>1, WAssumption DEF Held
    <3>2. k = i
      BY <1>1, <3>1, SlotInjective
    <3> QED
      BY <3>2
  <2> QED
    BY <2>1, <2>3, <2>4 DEF Held
<1> QED
  BY <1>2, <1>3

LEMMA WindowKeeps ==
    ASSUME TypeOK, TypeOK', NEW s \in RetransmitSides, WindowInv(s),
           net[s] \subseteq sent[Peer(s)], AckInv(Peer(s)),
           TxStep(s), QueueStep(Peer(s))
    PROVE  WindowInv(s)'
<1> DEFINE q == tx[s]
           p == rx[Peer(s)]
<1>1. s \in Sides /\ Peer(s) \in Sides
  BY CircuitAssumption, PeerType
<1>2. q \in TxQueues /\ q.next_to_ack \in Nat /\ q.next_to_send \in Nat
  BY <1>1 DEF TypeOK, QueuesOK, TxQueues
<1>3. /\ p.next_to_process \in Nat /\ rx'[Peer(s)].next_to_process \in Nat
      /\ p.next_to_process <= rx'[Peer(s)].next_to_process
      /\ \A i \in Nat : Received(p, i) => Received(rx'[Peer(s)], i)
  BY <1>1, ReceivedKept
<1>4. /\ q.next_to_ack <= q.next_to_send
      /\ q.next_to_send - q.next_to_ack <= W
      /\ q.next_to_ack > 1 => q.next_to_ack <= p.next_to_process
      /\ \A i \in 1 .. q.next_to_send-1 : Held(q, i) \/ Received(p, i)
  BY DEF WindowInv
<1> HIDE DEF p
<1>5. ASSUME /\ tx'[s].next_to_ack = q.next_to_ack
             /\ tx'[s].next_to_send = q.next_to_send
             /\ \A i \in 1 .. q.next_to_send-1 : Held(q, i) => Held(tx'[s], i)
      PROVE  WindowInv(s)'
  <2>1. tx'[s].next_to_ack > 1 => tx'[s].next_to_ack <= rx'[Peer(s)].next_to_process
    BY <1>2, <1>3, <1>4, <1>5
  <2>2. \A i \in 1 .. q.next_to_send-1 : Held(tx'[s], i) \/ Received(rx'[Peer(s)], i)
    BY <1>2, <1>3, <1>4, <1>5
  <2> QED
    BY <1>4, <1>5, <2>1, <2>2 DEF WindowInv
<1>6. CASE Rests(s)
  BY <1>5, <1>6 DEF Rests
<1>7. CASE Files(s)
  <2>1. PICK new \in Blocks :
            ~Full(s) /\ new.seq = q.next_to_send /\ tx'[s] = Enqueue(q, new)
    BY <1>7 DEF Files, Made
  <2>2. q.next_to_send - q.next_to_ack <= W-1
    BY <1>2, <2>1, WAssumption DEF Full, TxFull
  <2>3. /\ tx'[s].next_to_ack = q.next_to_ack
        /\ tx'[s].next_to_send = q.next_to_send + 1
    BY <1>2, <2>1, EnqueueSlots
  <2>4. /\ Held(tx'[s], q.next_to_send)
        /\ \A i \in 0 .. q.next_to_send-1 : Held(q, i) => Held(tx'[s], i)
    BY <1>2, <1>4, <2>1, <2>2, HeldEnqueue
  <2>5. ASSUME NEW i \in 1 .. tx'[s].next_to_send-1
        PROVE  Held(tx'[s], i) \/ Received(rx'[Peer(s)], i)
    <3>1. i \in Nat /\ (i = q.next_to_send \/ i \in 1 .. q.next_to_send-1)
      BY <1>2, <2>3
    <3> QED
      BY <1>2, <1>3, <1>4, <2>4, <3>1
  <2>6. /\ tx'[s].next_to_ack <= tx'[s].next_to_send
        /\ tx'[s].next_to_send - tx'[s].next_to_ack <= W
        /\ tx'[s].next_to_ack > 1 => tx'[s].next_to_ack <= rx'[Peer(s)].next_to_process
    BY <1>2, <1>3, <1>4, <2>2, <2>3, WAssumption
  <2> QED
    BY <2>5, <2>6 DEF WindowInv
<1>8. CASE Repeats(s)
  <2>1. PICK k \in Nat :
            q.cbuf[Slot(k)] # NoElt /\ tx'[s] = Retransmitted(q, k)
    BY <1>8 DEF Repeats
  <2>2. \A i \in 1 .. q.next_to_send-1 : Held(q, i) => Held(tx'[s], i)
    BY <1>2, <2>1, HeldRepeat
  <2>3. /\ tx'[s].next_to_ack = q.next_to_ack
        /\ tx'[s].next_to_send = q.next_to_send
    BY <1>2, <2>1, RepeatSlots
  <2> QED
    BY <1>5, <2>2, <2>3
<1>9. CASE Releases(s)
  <2>1. PICK b \in net[s] : b.op = "ACK" /\ tx'[s] = ProcessAck(q, b.ack)
    BY <1>9 DEF Releases
  <2>2. b \in Known(Peer(s)) /\ b.ack \in AckPayloads /\ b.ack.hsn \in Nat
    BY <1>1, KnownType DEF Known, Blocks, AckPayloads
  <2>3. /\ b.ack.hsn > 0 => b.ack.hsn < p.next_to_process
        /\ \A i \in Nat \ {0} : BlockReceived(b.ack, i) => Received(p, i)
    BY <2>1, <2>2 DEF AckInv, p
  <2>4. /\ tx'[s].next_to_send = q.next_to_send
        /\ \/ tx'[s].next_to_ack = q.next_to_ack
           \/ /\ tx'[s].next_to_ack = b.ack.hsn + 1 /\ q.next_to_ack <= b.ack.hsn
              /\ b.ack.hsn < q.next_to_send
    BY <2>1 DEF ProcessAck, AckAcceptable
  <2>5. ASSUME NEW i \in 1 .. q.next_to_send-1
        PROVE  Held(tx'[s], i) \/ Received(rx'[Peer(s)], i)
    <3>1. i \in Nat \ {0}
      BY <1>2
    <3>2. CASE Held(q, i) /\ ~BlockReceived(b.ack, i)
      BY <1>2, <1>4, <2>1, <2>2, <3>2, HeldRelease
    <3>3. CASE Received(p, i) \/ BlockReceived(b.ack, i)
      BY <1>3, <2>3, <3>1, <3>3
    <3> QED
      BY <1>4, <3>2, <3>3
  <2>6. /\ tx'[s].next_to_ack <= tx'[s].next_to_send
        /\ tx'[s].next_to_send - tx'[s].next_to_ack <= W
        /\ tx'[s].next_to_ack > 1 => tx'[s].next_to_ack <= rx'[Peer(s)].next_to_process
    BY <1>2, <1>3, <1>4, <2>2, <2>3, <2>4, WAssumption
  <2> QED
    BY <2>4, <2>5, <2>6 DEF WindowInv
<1> QED
  BY <1>6, <1>7, <1>8, <1>9 DEF TxStep

(***************************************************************************)
(* The theorems.                                                           *)
(***************************************************************************)
LEMMA WireInit == Init => WireInv
<1> SUFFICES ASSUME Init PROVE WireInv
  OBVIOUS
<1>1. \A s \in Sides : NonceInv(s)
  <2>1. Pairs({}) = {}
    BY DEF Pairs
  <2> QED
    BY <2>1, FS_EmptySet DEF Init, NonceInv, EmptyTx
<1>2. \A s \in Sides : AckInv(s)
  BY DEF Init, AckInv, Known, EmptyTx
<1>3. \A s \in RetransmitSides : WindowInv(s)
  BY CircuitAssumption, WAssumption, PeerType DEF Init, WindowInv, EmptyTx, EmptyRx
<1> QED
  BY <1>1, <1>2, <1>3 DEF WireInv

LEMMA WireNext ==
    ASSUME TypeOK, TypeOK', StreamInv, WireInv, [Next]_vars
    PROVE  WireInv'
<1>1. TxSteps /\ DataStep
  BY TxNext, DataNext
<1>2. ASSUME NEW s \in Sides PROVE NonceInv(s)' /\ AckInv(s)'
  BY <1>1, NonceKeeps, AckKeeps DEF StreamInv, WireInv, TxSteps, DataStep
<1>3. ASSUME NEW s \in RetransmitSides PROVE WindowInv(s)'
  <2>1. s \in Sides /\ Peer(s) \in Sides
    BY CircuitAssumption, PeerType
  <2>2. net[s] \subseteq sent[Peer(s)]
    BY <2>1 DEF StreamInv, ReceiverInv
  <2> QED
    BY <1>1, <2>1, <2>2, WindowKeeps DEF WireInv, TxSteps, DataStep
<1> QED
  BY <1>2, <1>3 DEF WireInv

LEMMA WireInvariant == Spec => [](TypeOK /\ StreamInv /\ WireInv)
<1>1. Init => TypeOK /\ StreamInv /\ WireInv
  BY TypeInit, StreamInit, WireInit
<1>2. TypeOK /\ StreamInv /\ WireInv /\ [Next]_vars => (TypeOK /\ StreamInv /\ WireInv)'
  BY TypeNext, DataNext, StreamKeeps, WireNext
<1> QED
  BY <1>1, <1>2, PTL DEF Spec

\* No two transmissions of a side have the same sequence number and retransmit
\* count, although blocks are overwritten, released by late ACKs and sent again
\* by three callers: "the sequence number + retransmit count is never repeated"
\* (chop_blk.h), on which the encryption of the header rests.
THEOREM HeadersAreFresh == Spec => []NonceFresh
<1>1. WireInv => NonceFresh
  BY DEF WireInv, NonceInv, NonceFresh, Pairs
<1> QED
  BY <1>1, WireInvariant, PTL

\* A side with retransmission on never has more blocks in use than its ring
\* has slots, and its window never runs ahead of the peer's, but for the very
\* first block, for which hsn has no value (transmit_queue::full, process_ack).
THEOREM SenderWithinWindow == Spec => []WindowsOverlap
<1>1. WireInv => WindowsOverlap
  BY DEF WireInv, WindowInv, WindowsOverlap
<1> QED
  BY <1>1, WireInvariant, PTL

\* Block 0 excepted, process_ack releases only "blocks that have definitely
\* been received on the far side" (chop_blk.h), however late, repeated or out
\* of order the ACKs arrive: every other block is held or was received.
THEOREM ReleasesOnlyReceived == Spec => []ReleasedWasReceived
<1>1. WireInv => ReleasedWasReceived
  BY DEF WireInv, WindowInv, ReleasedWasReceived
<1> QED
  BY <1>1, WireInvariant, PTL

-----------------------------------------------------------------------------
(***************************************************************************)
(* THE END.  While the steg modules of both sides are silent (MaxSteg = 0) *)
(* no data follows a FIN; if no axe timer expires either, an upstream      *)
(* program is told of the end only when it has everything, and             *)
(* the two circuits implement ByteStream.  Both conditions are needed: the *)
(* runs of FinIsLast and NoWriteAfterEof show what happens without them.   *)
(***************************************************************************)

(***************************************************************************)
(* The invariant.                                                          *)
(***************************************************************************)
\* The branches of process_queue and send() for steg data and for RST are
\* never taken, and such blocks are never built.
CtlCalm == ctl.at \notin {"rst", "steg", "post"} /\ ctl.caller # "drain"

CalmInv(s) ==
    /\ ckt[s].steg = 0 /\ ckt[s].stegleft = 0
    /\ \A b \in Known(s) : b.op \in {"DAT", "FIN", "ACK"}

\* A FIN is built when upstream has ended and nothing is left in the buffer;
\* the transmission of a FIN may fail and the next block be a FIN, too.
LastInv(s) ==
    \A f \in Known(s) : f.op = "FIN" =>
        /\ ckt[s].upstream_eof /\ buf[s].taken = buf[s].read
        /\ f.from + f.n = buf[s].taken
        /\ \A b \in Known(s) : b.seq > f.seq => b.n = 0

\* A side has received a FIN only when it has taken one off its queue, with
\* everything before it; and only then does it shut the upstream socket down.
FinInv(s) ==
    /\ ckt[s].received_fin =>
          \E f \in sent[Peer(s)] :
              /\ f.op = "FIN" /\ f.seq < rx[s].next_to_process
              /\ Len(out[s]) = f.from + f.n
    /\ "axe" \notin FaultKinds =>
          (ckt[s].pending_write_eof \/ ckt[s].write_eof => ckt[s].received_fin)

EofInv == CtlCalm /\ \A s \in Sides : CalmInv(s) /\ LastInv(s) /\ FinInv(s)

(***************************************************************************)
(* What the helpers do to the flags this is about.                         *)
(***************************************************************************)
Settled(c, d) ==
    /\ d.upstream_eof = c.upstream_eof /\ d.received_fin = c.received_fin
    /\ d.steg = c.steg /\ d.stegleft = c.stegleft
    /\ c.write_eof => d.write_eof
    /\ "axe" \notin FaultKinds =>
          /\ d.write_eof => c.write_eof \/ c.pending_write_eof \/ c.received_fin
          /\ d.pending_write_eof => c.pending_write_eof \/ c.received_fin

LEMMA SettledSame == \A c : Settled(c, c)
BY DEF Settled

LEMMA SettledTrans ==
    ASSUME NEW b, NEW c, NEW d, Settled(b, c), Settled(c, d)
    PROVE  Settled(b, d)
BY DEF Settled

LEMMA SettledFields ==
    ASSUME NEW c \in Circuits, NEW v
    PROVE  /\ Settled(c, [c EXCEPT !.flush_timer = v])
           /\ Settled(c, [c EXCEPT !.axe_timer = v])
           /\ Settled(c, [c EXCEPT !.dead = v])
           /\ Settled(c, [c EXCEPT !.outbuf = v])
           /\ Settled(c, [c EXCEPT !.connected = v])
           /\ Settled(c, [c EXCEPT !.last_acked = v])
           /\ Settled(c, [c EXCEPT !.status = v])
BY DEF Settled, Circuits

LEMMA SettledOps ==
    ASSUME NEW c \in Circuits, NEW s \in Sides
    PROVE  /\ Settled(c, Close(c)) /\ Settled(c, Abort(c)) /\ Settled(c, ArmAxe(c))
           /\ Settled(c, CheckForEof(s, c))
           /\ Settled(c, FlushCb(c))
           /\ Settled(c, Dropped(s, c))
           /\ \A ok \in BOOLEAN : Settled(c, AfterSendEof(c, ok))
           /\ \A op, n : Settled(c, AfterTransmit(c, op, n))
<1>1. \A d \in Circuits : Settled(d, Close(d))
  BY DEF Close, Circuits, Settled
<1>2. Settled(c, Abort(c))
  BY DEF Abort, Circuits, Settled
<1>3. Settled(c, ArmAxe(c))
  BY SettledFields, Zenon DEF ArmAxe
<1>4. Settled(c, CheckForEof(s, c))
  BY SettledFields, Zenon DEF CheckForEof
<1>5. \A d \in Circuits : Settled(d, FlushCb(d))
  <2> SUFFICES ASSUME NEW d \in Circuits, d.pending_write_eof
               PROVE  LET e == [d EXCEPT !.write_eof = TRUE]
                      IN  Settled(d, e) /\ Settled(d, Close(e))
    BY SettledSame DEF FlushCb
  <2> DEFINE e == [d EXCEPT !.write_eof = TRUE]
  <2>1. e \in Circuits /\ Settled(d, e)
    BY DEF Circuits, Settled
  <2> HIDE DEF e
  <2>2. Settled(d, Close(e))
    BY <1>1, <2>1, SettledTrans
  <2> QED
    BY <2>1, <2>2 DEF e
<1>6. Settled(c, Dropped(s, c))
  <2>1. CASE c.sent_fin /\ c.received_fin
    <3> DEFINE d == [c EXCEPT !.pending_write_eof = TRUE]
    <3>1. d \in Circuits /\ Settled(c, d)
      BY <2>1 DEF Circuits, Settled
    <3>2. Dropped(s, c) = d \/ Dropped(s, c) = FlushCb(d)
      BY <2>1 DEF Dropped, DoFlush
    <3> HIDE DEF d
    <3> QED
      BY <1>5, <3>1, <3>2, SettledTrans
  <2>2. CASE ~(c.sent_fin /\ c.received_fin)
    BY <1>3, <2>2, SettledFields DEF Dropped
  <2> QED
    BY <2>1, <2>2
<1>7. \A ok \in BOOLEAN : Settled(c, AfterSendEof(c, ok))
  <2> SUFFICES ASSUME NEW ok \in BOOLEAN PROVE Settled(c, AfterSendEof(c, ok))
    OBVIOUS
  <2>1. Settled(c, Close(c)) /\ Close(c) \in Circuits /\ Settled(Close(c), Close(Close(c)))
    BY <1>1, CircuitOps
  <2>2. AfterSendEof(c, ok) \in {c, Close(c), Close(Close(c))}
    BY DEF AfterSendEof
  <2> QED
    BY <2>1, <2>2, SettledSame, SettledTrans
<1>8. \A op, n : Settled(c, AfterTransmit(c, op, n))
  BY DEF AfterTransmit, Circuits, Settled
<1> QED
  BY <1>1, <1>2, <1>3, <1>4, <1>5, <1>6, <1>7, <1>8

(***************************************************************************)
(* What a step does for the ends of the stream; s is the side that acts.   *)
(***************************************************************************)
Turns(s, c) == ckt'[s] = c /\ \A t \in Sides \ {s} : ckt'[t] = ckt[t]

KeepsCkt(s) == \E c : Settled(ckt[s], c) /\ Turns(s, c)

Keeps(s) ==
    /\ Settled(ckt[s], ckt'[s])
    /\ buf'[s].read = buf[s].read /\ out'[s] = out[s]

Reads(s) ==
    /\ ~ckt[s].upstream_eof
    /\ Settled(ckt[s], ckt'[s]) /\ ckt'[s].write_eof = ckt[s].write_eof
    /\ buf'[s].read > buf[s].read /\ out'[s] = out[s]

Ends(s) ==
    /\ ~ckt[s].upstream_eof /\ ckt'[s].upstream_eof
    /\ \E c \in Circuits : Settled(ckt[s], c) /\ ckt'[s] = [c EXCEPT !.upstream_eof = TRUE]
    /\ ckt'[s].write_eof = ckt[s].write_eof
    /\ buf'[s].read = buf[s].read /\ out'[s] = out[s]

Delivers(s) ==
    LET e == Front(rx[s])
    IN  /\ e # NoRxElt /\ ~ckt[s].received_fin
        /\ rx'[s] = RemoveNext(rx[s]) /\ out'[s] = out[s] \o Units(e)
        /\ buf'[s].read = buf[s].read
        /\ ckt'[s].upstream_eof = ckt[s].upstream_eof
        /\ ckt'[s].steg = ckt[s].steg /\ ckt'[s].stegleft = ckt[s].stegleft
        /\ e.n > 0 => ~ckt[s].write_eof /\ ~ckt'[s].write_eof
        /\ ckt[s].write_eof => ckt'[s].write_eof
        /\ IF e.op = "FIN" THEN ckt'[s].received_fin = TRUE
           ELSE Settled(ckt[s], ckt'[s]) /\ ckt'[s].write_eof = ckt[s].write_eof

Acts(s) ==
    /\ CtlCalm'
    /\ \A t \in Sides \ {s} :
          ckt'[t] = ckt[t] /\ buf'[t].read = buf[t].read /\ out'[t] = out[t]
    /\ Keeps(s) \/ Reads(s) \/ Ends(s) \/ Delivers(s)

Acted == \E s \in Sides : Acts(s)

LEMMA SetKeeps ==
    ASSUME CircuitsOK, NEW s \in Sides, NEW c, SetCkt(s, c), Settled(ckt[s], c)
    PROVE  KeepsCkt(s)
BY DEF CircuitsOK, SetCkt, KeepsCkt, Turns

LEMMA StillKeeps ==
    ASSUME ckt' = ckt, NEW s \in Sides
    PROVE  KeepsCkt(s)
BY SettledSame DEF KeepsCkt, Turns

LEMMA DropKeeps ==
    ASSUME NEW s \in Sides, NEW b, NEW c \in Circuits, Settled(b, c),
           NEW d \in DropOutcomes(s, c)
    PROVE  Settled(b, d)
BY SettledOps, SettledTrans DEF DropOutcomes

LEMMA ReturnKeeps ==
    ASSUME CircuitsOK, CtlCalm, NEW s \in Sides, NEW c \in Circuits, NEW ok \in BOOLEAN,
           Return(s, c, ok), Settled(ckt[s], c)
    PROVE  KeepsCkt(s) /\ CtlCalm'
<1>1. PICK d \in Returned(s, c, ok) : SetCkt(s, d)
  BY DEF Return
<1>2. Settled(ckt[s], d)
  <2>1. \/ d \in {AfterSendEof(c, ok), Close(c), c}
        \/ d \in DropOutcomes(s, c)
    BY DEF Returned
  <2> QED
    BY <2>1, SettledOps, SettledTrans, DropKeeps
<1>3. CtlCalm'
  BY DEF Return, CtlCalm, Idle
<1> QED
  BY <1>1, <1>2, <1>3, SetKeeps

LEMMA ReturnEofKeeps ==
    ASSUME CircuitsOK, CtlCalm, NEW s \in Sides, NEW c \in Circuits,
           NEW caller \in Callers \ {"drain"},
           ReturnEof(s, c, caller), Settled(ckt[s], c)
    PROVE  KeepsCkt(s) /\ CtlCalm'
<1> DEFINE d == CheckForEof(s, c)
<1>1. d \in Circuits /\ Settled(ckt[s], d)
  BY CircuitOps, SettledOps, SettledTrans
<1> HIDE DEF d
<1>2. CASE SetCkt(s, d) /\ ctl' = [ctl EXCEPT !.at = "bye", !.caller = caller]
  <2>1. CtlCalm'
    BY <1>2 DEF CtlCalm, CircuitsOK, Ctls
  <2> QED
    BY <1>1, <1>2, <2>1, SetKeeps
<1>3. CASE SetCkt(s, d) /\ ctl' = Idle
  <2>1. CtlCalm'
    BY <1>3 DEF CtlCalm, Idle
  <2> QED
    BY <1>1, <1>3, <2>1, SetKeeps
<1>4. CASE Return(s, d, TRUE)
  BY <1>1, <1>4, ReturnKeeps
<1> QED
  BY <1>2, <1>3, <1>4 DEF ReturnEof, d

\* send() has no steg data to send.
LEMMA CallSendCtl ==
    ASSUME CircuitsOK, NEW s \in Sides, NEW c \in Circuits, NEW caller, caller # "drain",
           CallSend(s, c, caller), c.steg = 0
    PROVE  CtlCalm' /\ Turns(s, [c EXCEPT !.flush_timer = FALSE])
BY DEF CallSend, SetCkt, Turns, CircuitsOK, CtlCalm, Ctls

LEMMA CallSendKeeps ==
    ASSUME CircuitsOK, NEW s \in Sides, NEW c \in Circuits, NEW caller, caller # "drain",
           CallSend(s, c, caller), c.steg = 0, Settled(ckt[s], c)
    PROVE  KeepsCkt(s) /\ CtlCalm'
<1>1. Settled(ckt[s], [c EXCEPT !.flush_timer = FALSE])
  BY SettledFields, SettledTrans
<1> QED
  BY <1>1, CallSendCtl DEF KeepsCkt

LEMMA ProceedKeeps ==
    ASSUME CircuitsOK, CtlCalm, NEW s \in Sides, NEW c \in Circuits, Proceed(s, c),
           ckt[s].steg = 0, Settled(ckt[s], c)
    PROVE  KeepsCkt(s) /\ CtlCalm'
<1>1. c.steg = 0
  BY DEF Settled
<1> QED
  BY <1>1, CallSendKeeps, ReturnEofKeeps DEF Proceed, Callers

LEMMA RecvFailsKeeps ==
    ASSUME CircuitsOK, NEW s \in Sides, NEW c \in Circuits, RecvFails(s, c),
           Settled(ckt[s], c)
    PROVE  KeepsCkt(s) /\ CtlCalm'
<1>1. CtlCalm'
  BY DEF RecvFails, CtlCalm, Idle
<1> QED
  BY <1>1, DropKeeps, SetKeeps DEF RecvFails

LEMMA SpokenKeeps ==
    ASSUME CircuitsOK, NEW s \in Sides, NEW c \in Circuits, NEW ok \in BOOLEAN,
           SetSpoken(s, c, ok), Settled(ckt[s], c)
    PROVE  KeepsCkt(s)
BY DropKeeps, SetKeeps DEF SetSpoken

LEMMA GoCalm ==
    ASSUME CircuitsOK, CtlCalm, NEW at \in Stages \ {"rst", "steg", "post"}, Go(at)
    PROVE  CtlCalm'
BY DEF CircuitsOK, CtlCalm, Go, Ctls

LEMMA StayCalm ==
    ASSUME CtlCalm, ctl' = ctl \/ ctl' = Idle
    PROVE  CtlCalm'
BY DEF CtlCalm, Idle

\* Most steps settle one circuit and leave the streams alone.
LEMMA KeepsActs ==
    ASSUME NEW s \in Sides, KeepsCkt(s), CtlCalm', out' = out,
           \A t \in Sides : buf'[t].read = buf[t].read
    PROVE  Acted
<1>1. PICK c : Settled(ckt[s], c) /\ Turns(s, c)
  BY DEF KeepsCkt
<1>2. Keeps(s)
  BY <1>1 DEF Keeps, Turns
<1>3. \A t \in Sides \ {s} :
          ckt'[t] = ckt[t] /\ buf'[t].read = buf[t].read /\ out'[t] = out[t]
  BY <1>1 DEF Turns
<1>4. Acts(s)
  BY <1>2, <1>3 DEF Acts
<1> QED
  BY <1>4 DEF Acted

(***************************************************************************)
(* Every action, while the steg modules are silent.                        *)
(***************************************************************************)
LEMMA AxeSettled ==
    ASSUME NEW c \in Circuits, "axe" \in FaultKinds, NEW s \in Sides
    PROVE  Settled(c, DoFlush(c))
<1> DEFINE d == [c EXCEPT !.pending_write_eof = TRUE]
<1>1. d \in Circuits /\ Settled(c, d)
  BY DEF Circuits, Settled
<1>2. DoFlush(c) = d \/ DoFlush(c) = FlushCb(d)
  BY DEF DoFlush
<1> HIDE DEF d
<1> QED
  BY <1>1, <1>2, SettledOps, SettledTrans

LEMMA ActsUpstream ==
    ASSUME TypeOK, EofInv, NEW s \in Sides,
           \/ UpstreamRead(s) \/ UpstreamEof(s) \/ UpstreamError(s)
           \/ UpstreamFlush(s) \/ UpstreamConnect(s) \/ FlushTimer(s) \/ AxeTimer(s)
           \/ LastConnDrops(s) \/ StegData(s)
    PROVE  Acted
<1>0. /\ CircuitsOK /\ ckt[s] \in Circuits /\ CtlCalm
      /\ ckt[s].steg = 0 /\ ckt[s].stegleft = 0
  BY CircuitOf DEF TypeOK, EofInv, CalmInv
<1>1. CASE UpstreamRead(s)
  <2>1. CtlCalm' /\ Turns(s, [ckt[s] EXCEPT !.flush_timer = FALSE])
    BY <1>0, <1>1, CallSendCtl DEF UpstreamRead
  <2>2. PICK k \in 1 .. Offer[s] - buf[s].read : buf' = [buf EXCEPT ![s].read = @ + k]
    BY <1>1 DEF UpstreamRead
  <2>3. buf[s].read \in Nat /\ k \in Nat \ {0}
    BY CircuitAssumption DEF TypeOK, BuffersOK
  <2>4. /\ buf'[s].read = buf[s].read + k
        /\ \A t \in Sides \ {s} : buf'[t].read = buf[t].read
    BY <2>2 DEF TypeOK, BuffersOK
  <2>5. /\ Settled(ckt[s], [ckt[s] EXCEPT !.flush_timer = FALSE])
        /\ [ckt[s] EXCEPT !.flush_timer = FALSE].write_eof = ckt[s].write_eof
    BY <1>0, SettledFields DEF Circuits
  <2>6. Reads(s)
    BY <1>1, <2>1, <2>3, <2>4, <2>5 DEF Reads, UpstreamRead, Turns
  <2> QED
    BY <1>1, <2>1, <2>4, <2>6 DEF Acted, Acts, Turns, UpstreamRead
<1>2. CASE UpstreamEof(s)
  <2> DEFINE b == [ckt[s] EXCEPT !.flush_timer = FALSE]
             c == [ckt[s] EXCEPT !.upstream_eof = TRUE]
             d == [b EXCEPT !.upstream_eof = TRUE]
  <2>1. /\ b \in Circuits /\ c \in Circuits /\ c.steg = 0
        /\ [c EXCEPT !.flush_timer = FALSE] = d
        /\ d.write_eof = ckt[s].write_eof /\ d.upstream_eof
        /\ Settled(ckt[s], b)
    BY <1>0, SettledFields DEF Circuits
  <2>2. CallSend(s, c, "eof")
    BY <1>2 DEF UpstreamEof
  <2> HIDE DEF c
  <2>3. CtlCalm' /\ Turns(s, d)
    BY <1>0, <2>1, <2>2, CallSendCtl
  <2> HIDE DEF b
  <2>4. ckt'[s] = d
    BY <2>3 DEF Turns
  <2>5. Ends(s)
    BY <1>2, <2>1, <2>4 DEF Ends, UpstreamEof
  <2> QED
    BY <1>2, <2>3, <2>5 DEF Acted, Acts, Turns, UpstreamEof
<1>3. CASE UpstreamError(s)
  <2>1. KeepsCkt(s) /\ CtlCalm'
    BY <1>0, <1>3, SettledOps, SetKeeps, StayCalm DEF UpstreamError
  <2> QED
    BY <1>3, <2>1, KeepsActs DEF UpstreamError
<1>4. CASE UpstreamFlush(s)
  <2> DEFINE c == [ckt[s] EXCEPT !.outbuf = FALSE]
  <2>1. c \in Circuits /\ Settled(ckt[s], c)
    BY <1>0, SettledFields DEF Circuits
  <2>2. SetCkt(s, FlushCb(c))
    BY <1>4 DEF UpstreamFlush
  <2> HIDE DEF c
  <2>3. KeepsCkt(s)
    BY <1>0, <2>1, <2>2, SettledOps, SettledTrans, SetKeeps
  <2>4. CtlCalm'
    BY <1>0, <1>4, StayCalm DEF UpstreamFlush
  <2> QED
    BY <1>4, <2>3, <2>4, KeepsActs DEF UpstreamFlush
<1>5. CASE UpstreamConnect(s)
  <2> DEFINE c == [ckt[s] EXCEPT !.connected = TRUE]
  <2>1. c \in Circuits /\ Settled(ckt[s], c)
    BY <1>0, SettledFields DEF Circuits
  <2>2. SetCkt(s, IF c.pending_write_eof THEN RecvEof(c) ELSE c)
    BY <1>5 DEF UpstreamConnect
  <2> HIDE DEF c
  <2>3. c.pending_write_eof => Settled(c, RecvEof(c))
    BY <2>1 DEF RecvEof, Settled, Circuits
  <2>4. KeepsCkt(s)
    BY <1>0, <2>1, <2>2, <2>3, SettledTrans, SetKeeps
  <2>5. CtlCalm'
    BY <1>0, <1>5, StayCalm DEF UpstreamConnect
  <2> QED
    BY <1>5, <2>4, <2>5, KeepsActs DEF UpstreamConnect
<1>6. CASE FlushTimer(s)
  <2>1. KeepsCkt(s) /\ CtlCalm'
    BY <1>0, <1>6, SettledSame, CallSendKeeps DEF FlushTimer
  <2> QED
    BY <1>6, <2>1, KeepsActs DEF FlushTimer
<1>7. CASE AxeTimer(s)
  <2> DEFINE c == [ckt[s] EXCEPT !.axe_timer = FALSE]
  <2>1. c \in Circuits /\ Settled(ckt[s], c)
    BY <1>0, SettledFields DEF Circuits
  <2>2. SetCkt(s, DoFlush(c)) /\ "axe" \in FaultKinds
    BY <1>7 DEF AxeTimer, Fault
  <2> HIDE DEF c
  <2>3. KeepsCkt(s)
    BY <1>0, <2>1, <2>2, AxeSettled, SettledTrans, SetKeeps
  <2>4. CtlCalm'
    BY <1>0, <1>7, StayCalm DEF AxeTimer
  <2> QED
    BY <1>7, <2>3, <2>4, KeepsActs DEF AxeTimer
<1>8. CASE LastConnDrops(s)
  <2>1. KeepsCkt(s) /\ CtlCalm'
    BY <1>0, <1>8, SettledOps, SetKeeps, StayCalm DEF LastConnDrops
  <2> QED
    BY <1>8, <2>1, KeepsActs DEF LastConnDrops
<1>9. CASE StegData(s)
  BY <1>0, <1>9 DEF StegData
<1> QED
  BY <1>1, <1>2, <1>3, <1>4, <1>5, <1>6, <1>7, <1>8, <1>9

\* Cutting a block leaves what was read from upstream as it is.
LEMMA CutReads ==
    ASSUME TypeOK, NEW s \in Sides, NEW b, NEW ok, TransmitData(s, b, ok)
    PROVE  \A t \in Sides : buf'[t].read = buf[t].read
BY DEF TransmitData, TypeOK, BuffersOK

LEMMA ActsMustSend ==
    ASSUME TypeOK, EofInv, NEW s \in Sides,
           MustSendSteg(s) \/ MustSendRetransmit(s) \/ MustSendNew(s)
    PROVE  Acted
<1>0. CircuitsOK /\ ckt[s] \in Circuits /\ CtlCalm /\ ckt[s].steg = 0
  BY CircuitOf DEF TypeOK, EofInv, CalmInv
<1>1. CASE MustSendSteg(s)
  BY <1>0, <1>1 DEF MustSendSteg
<1>2. CASE MustSendRetransmit(s)
  <2>1. PICK i \in TxIteration(tx[s]), ok \in BOOLEAN :
            SetCkt(s, Abort(ckt[s])) \/ SetSpoken(s, ckt[s], ok)
    BY <1>2 DEF MustSendRetransmit
  <2>2. KeepsCkt(s)
    BY <1>0, <2>1, SettledOps, SettledSame, SetKeeps, SpokenKeeps
  <2>3. CtlCalm'
    BY <1>0, <1>2, StayCalm DEF MustSendRetransmit
  <2> QED
    BY <1>2, <2>2, <2>3, KeepsActs DEF MustSendRetransmit
<1>3. CASE MustSendNew(s)
  <2>1. PICK cap \in Capacities(s), ok \in BOOLEAN :
            /\ TransmitData(s, DataBlock(s, cap), ok)
            /\ SetSpoken(s, IF ok THEN AfterTransmit(ckt[s], DataBlock(s, cap).op,
                                                     DataBlock(s, cap).n)
                            ELSE ckt[s], ok)
    BY <1>3 DEF MustSendNew
  <2>2. DataBlock(s, cap).op \in Ops /\ DataBlock(s, cap).n \in Nat
    BY CapacityType, DataBlockType DEF TypeOK, Blocks
  <2> DEFINE c == IF ok THEN AfterTransmit(ckt[s], DataBlock(s, cap).op,
                                           DataBlock(s, cap).n)
                  ELSE ckt[s]
  <2>3. c \in Circuits /\ Settled(ckt[s], c)
    BY <1>0, <2>2, FlushOps, SettledOps, SettledSame
  <2>4. SetSpoken(s, c, ok)
    BY <2>1
  <2> HIDE DEF c
  <2>5. KeepsCkt(s)
    BY <1>0, <2>3, <2>4, SpokenKeeps
  <2>6. CtlCalm' /\ out' = out
    BY <1>0, <1>3, StayCalm DEF MustSendNew
  <2>7. \A t \in Sides : buf'[t].read = buf[t].read
    BY <2>1, CutReads
  <2> QED
    BY <2>5, <2>6, <2>7, KeepsActs
<1> QED
  BY <1>1, <1>2, <1>3

LEMMA ActsArrival ==
    ASSUME TypeOK, StreamInv, EofInv, NEW s \in Sides,
           Recv(s) \/ RecvOpenFails(s) \/ RecvStale(s) \/ LoseBlock(s)
    PROVE  Acted
<1>0. CircuitsOK /\ ckt[s] \in Circuits /\ CtlCalm
  BY CircuitOf DEF TypeOK, EofInv
<1>1. CASE Recv(s)
  <2>1. PICK b \in net[s] : RecvBlock(s, b)
    BY <1>1 DEF Recv
  <2>2. b.op # "RST"
    <3>1. Peer(s) \in Sides /\ b \in Known(Peer(s))
      BY PeerType DEF StreamInv, ReceiverInv, Known
    <3> QED
      BY <3>1 DEF EofInv, CalmInv
  <2>3. PICK c \in Opened(s) : SetCkt(s, c)
    BY <2>1, <2>2 DEF RecvBlock
  <2>4. Settled(ckt[s], c)
    <3>1. PICK axe : c = [ckt[s] EXCEPT !.status = "open", !.axe_timer = axe]
      BY DEF Opened
    <3> QED
      BY <1>0, <3>1 DEF Circuits, Settled
  <2>5. CtlCalm'
    BY <2>1 DEF RecvBlock, CtlCalm, Idle
  <2>6. KeepsCkt(s) /\ out' = out /\ buf' = buf
    BY <1>0, <2>1, <2>3, <2>4, SetKeeps DEF RecvBlock
  <2> QED
    BY <2>5, <2>6, KeepsActs
<1>2. CASE RecvOpenFails(s)
  <2>1. KeepsCkt(s) /\ CtlCalm'
    BY <1>0, <1>2, SettledOps, SetKeeps, StayCalm DEF RecvOpenFails
  <2> QED
    BY <1>2, <2>1, KeepsActs DEF RecvOpenFails
<1>3. CASE RecvStale(s)
  BY <1>0, <1>3, StillKeeps, StayCalm, KeepsActs DEF RecvStale
<1>4. CASE LoseBlock(s)
  BY <1>0, <1>4, StillKeeps, StayCalm, KeepsActs DEF LoseBlock
<1> QED
  BY <1>1, <1>2, <1>3, <1>4

\* The output of a side grows, and a FIN may end it.
LEMMA DrainDelivers ==
    ASSUME TypeOK, CtlCalm, DrainData
    PROVE  Acted
<1> DEFINE s == ctl.side
           e == Front(rx[s])
           c == IF e.n > 0 THEN [ckt[s] EXCEPT !.dead = FALSE, !.outbuf = TRUE] ELSE ckt[s]
           d == IF e.op = "FIN" THEN [RecvEof(c) EXCEPT !.received_fin = TRUE] ELSE c
<1>1. /\ e # NoRxElt /\ ~ckt[s].received_fin /\ Dequeue(s)
      /\ out' = [out EXCEPT ![s] = @ \o Units(e)]
      /\ SetCkt(s, d) /\ Go("drain") /\ buf' = buf
      /\ e.n > 0 => ~ckt[s].write_eof
  BY DEF DrainData, Draining
<1>2. CircuitsOK /\ s \in Sides /\ ckt[s] \in Circuits
  BY CircuitOf DEF TypeOK
<1>3. /\ c \in Circuits /\ Settled(ckt[s], c) /\ c.write_eof = ckt[s].write_eof
      /\ e.n > 0 => c.outbuf
  BY <1>2 DEF Circuits, Settled
<1> HIDE DEF c
<1>4. /\ d.upstream_eof = ckt[s].upstream_eof
      /\ d.steg = ckt[s].steg /\ d.stegleft = ckt[s].stegleft
      /\ e.n > 0 => ~d.write_eof
      /\ ckt[s].write_eof => d.write_eof
      /\ IF e.op = "FIN" THEN d.received_fin = TRUE
         ELSE Settled(ckt[s], d) /\ d.write_eof = ckt[s].write_eof
  BY <1>1, <1>3 DEF RecvEof, Circuits, Settled
<1> HIDE DEF d
<1>5. /\ ckt'[s] = d /\ out'[s] = out[s] \o Units(e) /\ rx'[s] = RemoveNext(rx[s])
      /\ \A t \in Sides \ {s} : ckt'[t] = ckt[t] /\ out'[t] = out[t]
  BY <1>1, <1>2 DEF SetCkt, Dequeue, TypeOK, CircuitsOK, BuffersOK, QueuesOK
<1>6. Delivers(s)
  BY <1>1, <1>4, <1>5 DEF Delivers
<1>7. CtlCalm'
  BY <1>1, <1>2, GoCalm DEF Stages
<1> QED
  BY <1>1, <1>2, <1>5, <1>6, <1>7 DEF Acted, Acts

\* What follows a FIN is chaff, so no RST is sent.
LEMMA ChaffAfterFin ==
    ASSUME TypeOK, StreamInv, EofInv, NEW s \in Sides,
           Front(rx[s]) # NoRxElt, ckt[s].received_fin
    PROVE  Front(rx[s]).n = 0
<1>1. PICK b \in sent[Peer(s)] :
          b.seq = rx[s].next_to_process /\ Front(rx[s]).n = b.n
  BY FrontContinues
<1>2. PICK f \in sent[Peer(s)] : f.op = "FIN" /\ f.seq < rx[s].next_to_process
  BY DEF EofInv, FinInv
<1>3. Peer(s) \in Sides /\ b \in Known(Peer(s)) /\ f \in Known(Peer(s))
  BY PeerType DEF Known
<1>4. b \in Blocks /\ f \in Blocks
  BY <1>3, KnownType
<1>5. b.seq > f.seq
  BY <1>1, <1>2, <1>4 DEF Blocks
<1> QED
  BY <1>1, <1>2, <1>3, <1>5 DEF EofInv, LastInv

LEMMA NoStegFront ==
    ASSUME TypeOK, StreamInv, EofInv, NEW s \in Sides, Front(rx[s]) # NoRxElt
    PROVE  Front(rx[s]).op \in {"DAT", "FIN"}
<1>1. PICK b \in sent[Peer(s)] : Front(rx[s]) = RxElt(b)
  BY FrontContinues
<1>2. Peer(s) \in Sides /\ b \in Known(Peer(s))
  BY PeerType DEF Known
<1>3. b.op \in {"DAT", "FIN", "ACK"}
  BY <1>2 DEF EofInv, CalmInv
<1> QED
  BY <1>1, <1>3 DEF RxElt

LEMMA ActsReceive ==
    ASSUME TypeOK, StreamInv, EofInv,
           \/ AckRetransmit \/ DrainData \/ DrainAbort \/ DrainAfterFin \/ DrainSteg
           \/ DrainStegFin \/ SendRst \/ DrainError \/ NoAckNeeded \/ SendAck \/ AckFails
    PROVE  Acted
<1> DEFINE s == ctl.side
<1>0. /\ CircuitsOK /\ s \in Sides /\ ckt[s] \in Circuits /\ CtlCalm
      /\ ckt[s].steg = 0 /\ Settled(ckt[s], ckt[s])
  BY CircuitOf, SettledSame DEF TypeOK, EofInv, CalmInv
<1>a. Acked(s) \in Circuits /\ Settled(ckt[s], Acked(s))
  <2>1. rx[s].next_to_process \in Nat
    BY <1>0, CircuitOf DEF RxQueues
  <2> QED
    BY <1>0, <2>1, SettledFields DEF Acked, Circuits
<1>b. Settled(ckt[s], Abort(ckt[s]))
  BY <1>0, SettledOps
<1>1. CASE AckRetransmit
  <2>1. ckt' = ckt \/ SetCkt(s, Abort(ckt[s]))
    BY <1>1 DEF AckRetransmit
  <2>2. Go("recv") \/ ctl' = Idle
    BY <1>1 DEF AckRetransmit
  <2>3. KeepsCkt(s) /\ CtlCalm'
    BY <1>0, <1>b, <2>1, <2>2, StillKeeps, SetKeeps, GoCalm, StayCalm DEF Stages
  <2> QED
    BY <1>0, <1>1, <2>3, KeepsActs DEF AckRetransmit
<1>2. CASE DrainData
  BY <1>0, <1>2, DrainDelivers
<1>3. CASE DrainAbort
  <2>1. KeepsCkt(s) /\ CtlCalm'
    BY <1>0, <1>b, <1>3, SetKeeps, StayCalm DEF DrainAbort
  <2> QED
    BY <1>0, <1>3, <2>1, KeepsActs DEF DrainAbort
<1>4. CASE DrainAfterFin
  <2>1. Front(rx[s]).n = 0
    BY <1>0, <1>4, ChaffAfterFin DEF DrainAfterFin, Draining
  <2>2. ctl'.at = "drain" /\ ctl'.caller = ctl.caller
    BY <1>0, <1>4, <2>1 DEF DrainAfterFin, CircuitsOK, Ctls
  <2>3. CtlCalm'
    BY <1>0, <2>2 DEF CtlCalm
  <2>4. KeepsCkt(s)
    BY <1>0, <1>4, StillKeeps DEF DrainAfterFin
  <2> QED
    BY <1>0, <1>4, <2>3, <2>4, KeepsActs DEF DrainAfterFin
<1>5. CASE DrainSteg
  BY <1>0, <1>5, NoStegFront DEF DrainSteg, Draining
<1>6. CASE DrainStegFin \/ SendRst
  BY <1>0, <1>6 DEF DrainStegFin, SendRst, CtlCalm
<1>7. CASE DrainError
  <2>1. KeepsCkt(s) /\ CtlCalm'
    BY <1>0, <1>7, RecvFailsKeeps DEF DrainError
  <2> QED
    BY <1>0, <1>7, <2>1, KeepsActs DEF DrainError
<1>8. CASE NoAckNeeded
  <2>1. KeepsCkt(s) /\ CtlCalm'
    BY <1>0, <1>8, ProceedKeeps DEF NoAckNeeded
  <2> QED
    BY <1>0, <1>8, <2>1, KeepsActs DEF NoAckNeeded
<1>9. CASE SendAck
  <2>1. RecvFails(s, Acked(s)) \/ Proceed(s, Acked(s))
    BY <1>9 DEF SendAck
  <2>2. KeepsCkt(s) /\ CtlCalm'
    BY <1>0, <1>a, <2>1, RecvFailsKeeps, ProceedKeeps
  <2> QED
    BY <1>0, <1>9, <2>2, KeepsActs DEF SendAck
<1>10. CASE AckFails
  <2>1. (SetCkt(s, Abort(ckt[s])) /\ ctl' = Idle) \/ RecvFails(s, Acked(s))
    BY <1>10 DEF AckFails
  <2>2. KeepsCkt(s) /\ CtlCalm'
    BY <1>0, <1>a, <1>b, <2>1, RecvFailsKeeps, SetKeeps, StayCalm
  <2> QED
    BY <1>0, <1>10, <2>2, KeepsActs DEF AckFails
<1> QED
  BY <1>1, <1>2, <1>3, <1>4, <1>5, <1>6, <1>7, <1>8, <1>9, <1>10

LEMMA ActsLoop ==
    ASSUME TypeOK, EofInv, LoopBlock
    PROVE  Acted
<1> DEFINE s == ctl.side
<1>0. CircuitsOK /\ s \in Sides /\ ckt[s] \in Circuits /\ CtlCalm /\ Settled(ckt[s], ckt[s])
  BY CircuitOf, SettledSame DEF TypeOK, EofInv
<1> HIDE DEF s
<1>1. PICK cap \in Capacities(s) :
          LET b == DataBlock(s, cap)
          IN  \/ /\ TransmitData(s, b, TRUE)
                 /\ SetCkt(s, AfterTransmit(ckt[s], b.op, b.n))
              \/ /\ TransmitData(s, b, FALSE)
                 /\ Return(s, ckt[s], FALSE)
  BY DEF LoopBlock, s
<1>2. \/ \E at \in {"loop", "tail"} : \E m : ctl' = [ctl EXCEPT !.at = at, !.moved = m]
      \/ Return(s, ckt[s], FALSE)
  <2> DEFINE b(cap_) == DataBlock(s, cap_)
  <2>1. PICK cp :
            \/ ctl' = [ctl EXCEPT !.at = IF b(cp).n < Pending(s) THEN "loop" ELSE "tail",
                                  !.moved = @ \/ b(cp).n > 0]
            \/ Return(s, ckt[s], FALSE)
    BY Zenon DEF LoopBlock, s
  <2> QED
    BY <2>1, Zenon
<1>3. CtlCalm'
  <2>1. CASE Return(s, ckt[s], FALSE)
    BY <1>0, <2>1, ReturnKeeps
  <2>2. ASSUME NEW at \in {"loop", "tail"}, NEW m,
               ctl' = [ctl EXCEPT !.at = at, !.moved = m]
        PROVE  CtlCalm'
    <3>1. ctl'.at = at /\ ctl'.caller = ctl.caller
      BY <1>0, <2>2 DEF CircuitsOK, Ctls
    <3> QED
      BY <1>0, <3>1 DEF CtlCalm
  <2> QED
    BY <1>2, <2>1, <2>2
<1>4. KeepsCkt(s)
  BY <1>0, <1>1, SettledOps, SetKeeps, ReturnKeeps
<1>5. \A t \in Sides : buf'[t].read = buf[t].read
  <2>1. PICK b, ok : TransmitData(s, b, ok)
    BY <1>1
  <2> QED
    BY <1>0, <2>1, CutReads
<1>6. out' = out
  BY Zenon DEF LoopBlock
<1> QED
  BY <1>0, <1>3, <1>4, <1>5, <1>6, KeepsActs

LEMMA ActsSend ==
    ASSUME TypeOK, EofInv,
           \/ SendSteg \/ SendStegEnd \/ SendRetransmit \/ SendNothing
           \/ LoopBlock \/ LoopFull \/ SendNoConn \/ SendTail \/ Bye
    PROVE  Acted
<1> DEFINE s == ctl.side
<1>0. /\ CircuitsOK /\ s \in Sides /\ ckt[s] \in Circuits /\ CtlCalm
      /\ ckt[s].steg = 0 /\ Settled(ckt[s], ckt[s])
      /\ ctl.caller \in Callers \ {"drain"}
  BY CircuitOf, SettledSame DEF TypeOK, EofInv, CalmInv, CtlCalm
<1>1. CASE SendSteg \/ SendStegEnd
  BY <1>0, <1>1 DEF SendSteg, SendStegEnd, CtlCalm
<1>2. CASE SendRetransmit
  <2>1. \/ SetCkt(s, Abort(ckt[s])) /\ ctl' = Idle
        \/ Go("tail") /\ ckt' = ckt
        \/ Return(s, ckt[s], FALSE)
    BY <1>2 DEF SendRetransmit
  <2>2. KeepsCkt(s) /\ CtlCalm'
    BY <1>0, <2>1, SettledOps, SetKeeps, StillKeeps, GoCalm, StayCalm, ReturnKeeps
       DEF Stages
  <2> QED
    BY <1>0, <1>2, <2>2, KeepsActs DEF SendRetransmit
<1>3. CASE SendNothing
  BY <1>0, <1>3, GoCalm, StillKeeps, KeepsActs DEF SendNothing, Stages
<1>4. CASE LoopBlock
  BY <1>4, ActsLoop
<1>5. CASE LoopFull
  <2>1. KeepsCkt(s) /\ CtlCalm'
    BY <1>0, <1>5, ReturnKeeps DEF LoopFull
  <2> QED
    BY <1>0, <1>5, <2>1, KeepsActs DEF LoopFull
<1>6. CASE SendNoConn
  <2>1. CtlCalm'
    BY <1>0, <1>6 DEF SendNoConn, CtlCalm, CircuitsOK, Ctls
  <2> QED
    BY <1>0, <1>6, <2>1, StillKeeps, KeepsActs DEF SendNoConn
<1>7. CASE SendTail
  <2> DEFINE c == IF ctl.moved THEN ckt[s] ELSE [ckt[s] EXCEPT !.dead = TRUE]
             d == [c EXCEPT !.axe_timer = FALSE]
  <2>1. c \in Circuits /\ Settled(ckt[s], c)
    BY <1>0, SettledFields DEF Circuits
  <2>2. \E e \in {c, ArmAxe(c), d, Close(c)} : ReturnEof(s, e, ctl.caller)
    BY <1>7 DEF SendTail
  <2> HIDE DEF c
  <2>3. d \in Circuits /\ Settled(c, d)
    BY <2>1, SettledFields DEF Circuits
  <2> HIDE DEF d
  <2>4. PICK e \in Circuits : Settled(ckt[s], e) /\ ReturnEof(s, e, ctl.caller)
    BY <1>0, <2>1, <2>2, <2>3, SettledOps, SettledTrans, CircuitOps
  <2>5. KeepsCkt(s) /\ CtlCalm'
    BY <1>0, <2>4, ReturnEofKeeps
  <2> QED
    BY <1>0, <1>7, <2>5, KeepsActs DEF SendTail
<1>8. CASE Bye
  <2>1. KeepsCkt(s) /\ CtlCalm'
    BY <1>0, <1>8, ReturnKeeps DEF Bye
  <2> QED
    BY <1>0, <1>8, <2>1, KeepsActs DEF Bye
<1> QED
  BY <1>1, <1>2, <1>3, <1>4, <1>5, <1>6, <1>7, <1>8

LEMMA ActsNext ==
    ASSUME TypeOK, StreamInv, EofInv, [Next]_vars
    PROVE  Acted
<1>1. CASE Next
  <2>1. CASE Step
    BY <2>1, ActsReceive, ActsSend DEF Step
  <2>2. CASE \E s \in Sides : Event(s)
    BY <2>2, ActsUpstream, ActsMustSend, ActsArrival DEF Event
  <2> QED
    BY <1>1, <2>1, <2>2 DEF Next
<1>2. CASE UNCHANGED vars
  <2>1. CtlCalm' /\ "client" \in Sides
    BY <1>2, StayCalm DEF EofInv, vars, Sides
  <2> QED
    BY <1>2, <2>1, StillKeeps, KeepsActs DEF vars
<1> QED
  BY <1>1, <1>2

(***************************************************************************)
(* Such steps keep the invariant.                                          *)
(***************************************************************************)
\* What becomes of a side's flags and streams, whichever side acted.
Advances(s) ==
    /\ ckt'[s].steg = ckt[s].steg /\ ckt'[s].stegleft = ckt[s].stegleft
    /\ ckt[s].upstream_eof => ckt'[s].upstream_eof /\ buf'[s].read = buf[s].read
    /\ ckt[s].received_fin => ckt'[s].received_fin /\ out'[s] = out[s]
    /\ ckt'[s].received_fin =>
          ckt[s].received_fin \/ (Delivers(s) /\ Front(rx[s]).op = "FIN")
    /\ "axe" \notin FaultKinds =>
          (ckt'[s].pending_write_eof \/ ckt'[s].write_eof =>
              \/ ckt[s].pending_write_eof \/ ckt[s].write_eof
              \/ ckt'[s].received_fin)

LEMMA ActedAdvances ==
    ASSUME Acted, NEW s \in Sides
    PROVE  Advances(s)
<1>1. PICK t \in Sides : Acts(t)
  BY DEF Acted
<1>2. CASE s # t
  BY <1>1, <1>2 DEF Acts, Advances
<1>3. CASE s = t /\ Keeps(s)
  BY <1>3 DEF Keeps, Settled, Advances
<1>4. CASE s = t /\ Reads(s)
  BY <1>4 DEF Reads, Settled, Advances
<1>5. CASE s = t /\ Ends(s)
  <2>1. PICK c \in Circuits : Settled(ckt[s], c) /\ ckt'[s] = [c EXCEPT !.upstream_eof = TRUE]
    BY <1>5 DEF Ends
  <2>2. /\ ckt'[s].steg = c.steg /\ ckt'[s].stegleft = c.stegleft
        /\ ckt'[s].received_fin = c.received_fin
        /\ ckt'[s].pending_write_eof = c.pending_write_eof
        /\ ckt'[s].write_eof = c.write_eof
    BY <2>1 DEF Circuits
  <2> QED
    BY <1>5, <2>1, <2>2 DEF Ends, Settled, Advances
<1>6. CASE s = t /\ Delivers(s)
  BY <1>6 DEF Delivers, Settled, Advances
<1> QED
  BY <1>1, <1>2, <1>3, <1>4, <1>5, <1>6 DEF Acts

LEMMA CalmKeeps ==
    ASSUME TypeOK, NEW s \in Sides, CtlCalm, CalmInv(s), Advances(s), TxStep(s)
    PROVE  CalmInv(s)'
<1>1. ASSUME NEW b \in Known(s)' PROVE b.op \in {"DAT", "FIN", "ACK"}
  <2>1. CASE \E c \in Known(s) : SamePiece(b, c)
    BY <2>1 DEF CalmInv, SamePiece
  <2>2. CASE b \in Blocks /\ Made(s, b)
    <3>1. b.op \notin {"RST", "STEG0", "STEG_FIN"}
      BY <2>2 DEF Made, CtlCalm, CalmInv
    <3> QED
      BY <2>2, <3>1 DEF Blocks, Ops
  <2> QED
    BY <2>1, <2>2, KnownSources
<1> QED
  BY <1>1 DEF CalmInv, Advances

LEMMA LastKeeps ==
    ASSUME TypeOK, TypeOK', NEW s \in Sides, SenderInv(s), LastInv(s), Advances(s),
           TxStep(s), SendStep(s)
    PROVE  LastInv(s)'
<1>1. /\ buf[s].taken \in Nat /\ buf[s].read \in Nat
      /\ buf'[s].taken \in Nat /\ buf'[s].read \in Nat
      /\ buf[s].taken <= buf[s].read /\ buf'[s].taken <= buf'[s].read
      /\ tx[s].next_to_send \in Nat
  BY KnownType DEF TypeOK, BuffersOK
<1>2. buf[s].taken <= buf'[s].taken
  BY <1>1 DEF SendStep, SendsOld, SendsNew, Blocks
<1>3. Known(s) \subseteq Blocks
  BY KnownType
<1>4. SUFFICES ASSUME NEW f \in Known(s)', f.op = "FIN"
               PROVE  /\ ckt'[s].upstream_eof /\ buf'[s].taken = buf'[s].read
                      /\ f.from + f.n = buf'[s].taken
                      /\ \A b \in Known(s)' : b.seq > f.seq => b.n = 0
  BY DEF LastInv
<1>5. CASE \E c \in Known(s) : SamePiece(f, c)
  <2>1. PICK c \in Known(s) : SamePiece(f, c)
    BY <1>5
  <2>2. /\ ckt[s].upstream_eof /\ buf[s].taken = buf[s].read
        /\ f.from + f.n = buf[s].taken
        /\ \A b \in Known(s) : b.seq > f.seq => b.n = 0
    BY <1>4, <2>1 DEF LastInv, SamePiece
  <2>3. ckt'[s].upstream_eof /\ buf'[s].read = buf[s].read
    BY <2>2 DEF Advances
  <2>4. buf'[s].taken = buf[s].taken
    BY <1>1, <1>2, <2>2, <2>3
  <2>5. ASSUME NEW b \in Known(s)', b.seq > f.seq PROVE b.n = 0
    <3>1. CASE \E d \in Known(s) : SamePiece(b, d)
      BY <2>2, <2>5, <3>1 DEF SamePiece
    <3>2. CASE b \in Blocks /\ Made(s, b)
      BY <1>1, <2>4, <3>2 DEF Made, Blocks
    <3> QED
      BY <3>1, <3>2, KnownSources
  <2> QED
    BY <2>2, <2>3, <2>4, <2>5
<1>6. CASE f \in Blocks /\ Made(s, f)
  <2>1. /\ ckt[s].upstream_eof /\ f.n = buf[s].read - buf[s].taken
        /\ f.from = buf[s].taken /\ buf'[s].taken = buf[s].taken + f.n
        /\ f.seq = tx[s].next_to_send
    BY <1>4, <1>6 DEF Made, Pending
  <2>2. ckt'[s].upstream_eof /\ buf'[s].read = buf[s].read
    BY <2>1 DEF Advances
  <2>3. buf'[s].taken = buf'[s].read /\ f.from + f.n = buf'[s].taken
    BY <1>1, <1>6, <2>1, <2>2 DEF Blocks
  <2>4. ASSUME NEW b \in Known(s)', b.seq > f.seq PROVE FALSE
    <3>1. CASE \E d \in Known(s) : SamePiece(b, d)
      <4>1. PICK d \in Known(s) : SamePiece(b, d)
        BY <3>1
      <4>2. d.seq < tx[s].next_to_send /\ d.seq = b.seq /\ d.seq \in Nat
        BY <1>3, <4>1 DEF SenderInv, SamePiece, Blocks
      <4> QED
        BY <1>1, <2>1, <2>4, <4>2
    <3>2. CASE b \in Blocks /\ Made(s, b)
      BY <1>1, <2>1, <2>4, <3>2 DEF Made
    <3> QED
      BY <3>1, <3>2, KnownSources
  <2> QED
    BY <2>2, <2>3, <2>4
<1> QED
  BY <1>5, <1>6, KnownSources

LEMMA FinKeeps ==
    ASSUME TypeOK, StreamInv, NEW s \in Sides, FinInv(s), Advances(s),
           QueueStep(s), SendStep(Peer(s))
    PROVE  FinInv(s)'
<1>1. ASSUME ckt'[s].received_fin
      PROVE  \E f \in sent'[Peer(s)] :
                 /\ f.op = "FIN" /\ f.seq < rx'[s].next_to_process
                 /\ Len(out'[s]) = f.from + f.n
  <2>0. sent[Peer(s)] \subseteq sent'[Peer(s)] /\ sent[Peer(s)] \subseteq Blocks
    BY PeerType DEF SendStep, TypeOK, NetOK
  <2>1. CASE ckt[s].received_fin
    <3>1. PICK f \in sent[Peer(s)] :
              /\ f.op = "FIN" /\ f.seq < rx[s].next_to_process
              /\ Len(out[s]) = f.from + f.n
      BY <2>1 DEF FinInv
    <3>2. f.seq < rx'[s].next_to_process
      BY <2>0, <3>1, ReceivedKept DEF Blocks
    <3>3. out'[s] = out[s]
      BY <2>1 DEF Advances
    <3> QED
      BY <2>0, <3>1, <3>2, <3>3
  <2>2. CASE ~ckt[s].received_fin
    <3> DEFINE e == Front(rx[s])
    <3>1. Delivers(s) /\ e.op = "FIN"
      BY <1>1, <2>2 DEF Advances
    <3>2. e # NoRxElt /\ out'[s] = out[s] \o Units(e) /\ rx'[s] = RemoveNext(rx[s])
      BY <3>1 DEF Delivers
    <3>3. PICK b \in sent[Peer(s)] :
              /\ b.seq = rx[s].next_to_process /\ e = RxElt(b) /\ e.n = b.n
              /\ b.from = Len(out[s])
      BY <2>2, <3>2, FrontContinues
    <3>4. b \in Blocks /\ e \in RxElts
      BY <2>0, <3>3, RxEltType
    <3>5. b.op = "FIN"
      BY <3>1, <3>3 DEF RxElt
    <3>6. rx'[s].next_to_process = rx[s].next_to_process + 1
      BY <3>2 DEF RemoveNext
    <3>7. out[s] \in Seq(Nat)
      BY DEF TypeOK, BuffersOK
    <3> HIDE DEF e
    <3>8. Len(out'[s]) = Len(out[s]) + e.n
      BY <3>2, <3>4, <3>7, Appended
    <3>9. Len(out'[s]) = b.from + b.n
      BY <3>3, <3>8
    <3>10. b.seq < rx'[s].next_to_process
      BY <3>3, <3>4, <3>6 DEF Blocks
    <3> QED
      BY <2>0, <3>5, <3>9, <3>10
  <2> QED
    BY <2>1, <2>2
<1>2. "axe" \notin FaultKinds =>
          (ckt'[s].pending_write_eof \/ ckt'[s].write_eof => ckt'[s].received_fin)
  BY DEF FinInv, Advances
<1> QED
  BY <1>1, <1>2 DEF FinInv

LEMMA EofNext ==
    ASSUME TypeOK, TypeOK', StreamInv, EofInv, [Next]_vars
    PROVE  EofInv'
<1>1. TxSteps /\ DataStep /\ Acted
  BY TxNext, DataNext, ActsNext
<1>2. CtlCalm'
  BY <1>1 DEF Acted, Acts
<1>3. ASSUME NEW s \in Sides PROVE CalmInv(s)' /\ LastInv(s)' /\ FinInv(s)'
  <2>1. /\ Advances(s) /\ TxStep(s) /\ QueueStep(s) /\ SendStep(s) /\ SendStep(Peer(s))
        /\ SenderInv(s) /\ CtlCalm /\ CalmInv(s) /\ LastInv(s) /\ FinInv(s)
    BY <1>1, ActedAdvances, PeerType DEF TxSteps, DataStep, StreamInv, EofInv
  <2> QED
    BY <2>1, CalmKeeps, LastKeeps, FinKeeps
<1> QED
  BY <1>2, <1>3 DEF EofInv

LEMMA EofInit ==
    ASSUME MaxSteg = 0, Init
    PROVE  EofInv
<1>1. CtlCalm
  BY DEF Init, CtlCalm, Idle
<1>2. \A s \in Sides : Known(s) = {}
  BY DEF Init, Known, EmptyTx
<1>3. \A s \in Sides : ckt[s] = InitialCircuit(s)
  BY DEF Init
<1>4. \A s \in Sides :
          /\ ckt[s].steg = 0 /\ ckt[s].stegleft = 0 /\ ckt[s].received_fin = FALSE
          /\ ckt[s].pending_write_eof = FALSE /\ ckt[s].write_eof = FALSE
  <2>1. \A s \in Sides :
            LET c == InitialCircuit(s)
            IN  /\ c.steg = 0 /\ c.stegleft = 0 /\ c.received_fin = FALSE
                /\ c.pending_write_eof = FALSE /\ c.write_eof = FALSE
    BY DEF InitialCircuit
  <2> QED
    BY <1>3, <2>1
<1>5. \A s \in Sides : CalmInv(s) /\ LastInv(s) /\ FinInv(s)
  BY <1>2, <1>4 DEF CalmInv, LastInv, FinInv
<1> QED
  BY <1>1, <1>5 DEF EofInv

LEMMA EofInvariant ==
    ASSUME MaxSteg = 0
    PROVE  Spec => [](TypeOK /\ StreamInv /\ EofInv)
<1>1. Init => TypeOK /\ StreamInv /\ EofInv
  BY TypeInit, StreamInit, EofInit
<1>2. TypeOK /\ StreamInv /\ EofInv /\ [Next]_vars => (TypeOK /\ StreamInv /\ EofInv)'
  BY TypeNext, DataNext, StreamKeeps, EofNext
<1> QED
  BY <1>1, <1>2, PTL DEF Spec

(***************************************************************************)
(* The theorems.                                                           *)
(***************************************************************************)
\* "this block will carry the last byte of real data to be sent in this
\* direction": while the steg modules are silent no data follows a FIN, though
\* the FIN may fail to be sent and be cut a second time (send_targeted), and
\* though chaff, ACKs and retransmissions go on after it.
THEOREM FinEndsData ==
    ASSUME MaxSteg = 0
    PROVE  Spec => []FinIsLast
<1>1. TypeOK /\ EofInv => FinIsLast
  <2> SUFFICES ASSUME TypeOK, EofInv, NEW s \in Sides, NEW f \in sent[s], NEW b \in sent[s],
                      f.op \in {"FIN", "STEG_FIN"}, b.seq > f.seq
               PROVE  b.n = 0
    BY DEF FinIsLast
  <2>1. f \in Known(s) /\ b \in Known(s)
    BY DEF Known
  <2>2. f.op = "FIN"
    BY <2>1 DEF EofInv, CalmInv
  <2> QED
    BY <2>1, <2>2 DEF EofInv, LastInv
<1> QED
  BY <1>1, EofInvariant, PTL

LEMMA TruthfulEnd ==
    ASSUME "axe" \notin FaultKinds, EofInv
    PROVE  EofTruthful
<1> SUFFICES ASSUME NEW s \in Sides, ckt[s].received_fin \/ ckt[s].write_eof
             PROVE  ckt[Peer(s)].upstream_eof /\ Len(out[s]) = buf[Peer(s)].read
  BY DEF EofTruthful
<1>1. ckt[s].received_fin
  BY DEF EofInv, FinInv
<1>2. PICK f \in sent[Peer(s)] : f.op = "FIN" /\ Len(out[s]) = f.from + f.n
  BY <1>1 DEF EofInv, FinInv
<1>3. Peer(s) \in Sides /\ f \in Known(Peer(s))
  BY PeerType DEF Known
<1> QED
  BY <1>2, <1>3 DEF EofInv, LastInv

\* An upstream program is told of the end of the stream only when the program
\* at the far end has ended it and everything it wrote was delivered, whatever
\* is lost, reordered or repeated and whatever else fails (process_queue and
\* circuit_recv_eof); the axe timer alone tells without asking.
THEOREM EofIsTruthful ==
    ASSUME MaxSteg = 0, "axe" \notin FaultKinds
    PROVE  Spec => []EofTruthful
<1>1. EofInv => EofTruthful
  BY TruthfulEnd
<1> QED
  BY <1>1, EofInvariant, PTL

(***************************************************************************)
(* Two circuits implement two byte streams.                                *)
(***************************************************************************)
Quiet(s) ==
    /\ \A t \in Sides :
          /\ buf'[t].read = buf[t].read /\ out'[t] = out[t]
          /\ ckt'[t].upstream_eof = ckt[t].upstream_eof
          /\ t # s => ckt'[t].write_eof = ckt[t].write_eof
    /\ ckt[s].write_eof => ckt'[s].write_eof

Simulates == [Stream!Next]_(Stream!streamVars)

LEMMA QuietSimulates ==
    ASSUME TypeOK, TypeOK', EofTruthful', NEW s \in Sides, Quiet(s)
    PROVE  Simulates
<1>1. ckt[s].write_eof \in BOOLEAN /\ ckt'[s].write_eof \in BOOLEAN
  BY DEF TypeOK, CircuitsOK, Circuits
<1>2. /\ [t \in Sides |-> buf'[t].read] = [t \in Sides |-> buf[t].read]
      /\ [t \in Sides |-> ckt'[t].upstream_eof] = [t \in Sides |-> ckt[t].upstream_eof]
      /\ out' = out
  BY DEF Quiet, TypeOK, BuffersOK
<1>3. CASE ckt'[s].write_eof = ckt[s].write_eof
  <2>1. [t \in Sides |-> ckt'[t].write_eof] = [t \in Sides |-> ckt[t].write_eof]
    BY <1>3 DEF Quiet
  <2> QED
    BY <1>2, <2>1 DEF Simulates, Stream!streamVars
<1>4. CASE ckt'[s].write_eof = TRUE
  <2>1. [t \in Sides |-> ckt'[t].write_eof]
            = [[t \in Sides |-> ckt[t].write_eof] EXCEPT ![s] = TRUE]
    BY <1>4 DEF Quiet
  <2>2. ckt'[Peer(s)].upstream_eof /\ Len(out'[s]) = buf'[Peer(s)].read
    BY <1>4 DEF EofTruthful
  <2>3. ckt[Peer(s)].upstream_eof /\ Len(out[s]) = buf[Peer(s)].read
    BY <2>2, PeerType DEF Quiet
  <2>4. Stream!TellEnd(s)
    BY <1>2, <2>1, <2>3, PeerType DEF Stream!TellEnd
  <2> QED
    BY <2>4 DEF Simulates, Stream!Next
<1> QED
  BY <1>1, <1>3, <1>4 DEF Quiet

\* In order means equal to the first so many units.
LEMMA Prefix ==
    ASSUME NEW u \in Seq(Nat), \A i \in 1 .. Len(u) : u[i] = i
    PROVE  u = [i \in 1 .. Len(u) |-> i]
OBVIOUS

LEMMA DeliverSimulates ==
    ASSUME TypeOK, TypeOK', StreamInv, StreamInv', EofTruthful', NEW s \in Sides,
           Delivers(s),
           \A t \in Sides \ {s} :
               ckt'[t] = ckt[t] /\ buf'[t].read = buf[t].read /\ out'[t] = out[t]
    PROVE  Simulates
<1> DEFINE e == Front(rx[s])
<1>1. /\ e # NoRxElt /\ out'[s] = out[s] \o Units(e) /\ buf'[s].read = buf[s].read
      /\ ckt'[s].upstream_eof = ckt[s].upstream_eof
      /\ e.n > 0 => ~ckt[s].write_eof /\ ~ckt'[s].write_eof
      /\ ckt[s].write_eof => ckt'[s].write_eof
  BY DEF Delivers
<1>2. e \in RxElts
  BY SMTT(60), <1>1, CircuitOf, WAssumption DEF Front, RxQueues, Slot, Slots
<1>3. out[s] \in Seq(Nat) /\ out'[s] \in Seq(Nat)
  BY DEF TypeOK, BuffersOK
<1>4. Len(out'[s]) = Len(out[s]) + e.n /\ e.n \in Nat
  BY <1>1, <1>2, <1>3, Appended DEF RxElts
<1>5. /\ out[s] = [i \in 1 .. Len(out[s]) |-> i]
      /\ out'[s] = [i \in 1 .. Len(out'[s]) |-> i]
  BY <1>3, Prefix DEF StreamInv, InOrder
<1>6. CASE e.n = 0
  <2>1. out'[s] = out[s]
    BY <1>3, <1>4, <1>5, <1>6
  <2>2. Quiet(s)
    BY <1>1, <2>1 DEF Quiet
  <2> QED
    BY <2>2, QuietSimulates
<1>7. CASE e.n # 0
  <2> DEFINE m == Len(out'[s])
  <2>1. e.n > 0 /\ m \in Nat /\ m >= Len(out[s]) + 1
    BY <1>3, <1>4, <1>7
  <2>2. m <= buf[Peer(s)].read
    <3>1. m <= buf'[Peer(s)].taken /\ buf'[Peer(s)].taken <= buf'[Peer(s)].read
      BY PeerType DEF StreamInv, InOrder, TypeOK, BuffersOK
    <3>2. buf'[Peer(s)].read = buf[Peer(s)].read
      BY <1>1, PeerType
    <3>3. buf[Peer(s)].read \in Nat /\ buf'[Peer(s)].taken \in Nat
      BY PeerType DEF TypeOK, BuffersOK
    <3> QED
      BY <2>1, <3>1, <3>2, <3>3
  <2>3. out' = [out EXCEPT ![s] = [i \in 1 .. m |-> i]]
    BY <1>5 DEF TypeOK, BuffersOK
  <2>4. /\ [t \in Sides |-> buf'[t].read] = [t \in Sides |-> buf[t].read]
        /\ [t \in Sides |-> ckt'[t].upstream_eof] = [t \in Sides |-> ckt[t].upstream_eof]
    BY <1>1
  <2>5. [t \in Sides |-> ckt'[t].write_eof] = [t \in Sides |-> ckt[t].write_eof]
    <3>1. ckt[s].write_eof \in BOOLEAN /\ ckt'[s].write_eof \in BOOLEAN
      BY DEF TypeOK, CircuitsOK, Circuits
    <3> QED
      BY <1>1, <2>1, <3>1
  <2>6. m \in Len(out[s])+1 .. buf[Peer(s)].read
    <3>1. buf[Peer(s)].read \in Nat /\ Len(out[s]) \in Nat
      BY <1>3, PeerType DEF TypeOK, BuffersOK
    <3> QED
      BY <2>1, <2>2, <3>1
  <2> HIDE DEF m
  <2>7. Stream!Deliver(s)
    BY <1>1, <2>1, <2>3, <2>4, <2>5, <2>6, PeerType DEF Stream!Deliver
  <2> QED
    BY <2>7 DEF Simulates, Stream!Next
<1> QED
  BY <1>6, <1>7

LEMMA ActedSimulates ==
    ASSUME TypeOK, TypeOK', StreamInv, StreamInv', EofTruthful', Acted
    PROVE  Simulates
<1>1. PICK s \in Sides : Acts(s)
  BY DEF Acted
<1>2. \A t \in Sides \ {s} :
          ckt'[t] = ckt[t] /\ buf'[t].read = buf[t].read /\ out'[t] = out[t]
  BY <1>1 DEF Acts
<1>3. CASE Keeps(s)
  <2>1. Quiet(s)
    BY <1>2, <1>3 DEF Keeps, Settled, Quiet
  <2> QED
    BY <2>1, QuietSimulates
<1>4. CASE Reads(s)
  <2>1. /\ [t \in Sides |-> ckt'[t].upstream_eof] = [t \in Sides |-> ckt[t].upstream_eof]
        /\ [t \in Sides |-> ckt'[t].write_eof] = [t \in Sides |-> ckt[t].write_eof]
        /\ out' = out
    <3>1. out' = out
      BY <1>2, <1>4 DEF Reads, TypeOK, BuffersOK
    <3> QED
      BY <1>2, <1>4, <3>1 DEF Reads, Settled
  <2>2. buf'[s].read \in Nat /\ buf'[s].read > buf[s].read /\ ~ckt[s].upstream_eof
    BY <1>4 DEF Reads, TypeOK, BuffersOK
  <2>3. [t \in Sides |-> buf'[t].read]
            = [[t \in Sides |-> buf[t].read] EXCEPT ![s] = buf'[s].read]
    BY <1>2
  <2>4. Stream!Write(s)
    BY <2>1, <2>2, <2>3 DEF Stream!Write
  <2> QED
    BY <2>4 DEF Simulates, Stream!Next
<1>5. CASE Ends(s)
  <2>1. /\ [t \in Sides |-> buf'[t].read] = [t \in Sides |-> buf[t].read]
        /\ [t \in Sides |-> ckt'[t].write_eof] = [t \in Sides |-> ckt[t].write_eof]
        /\ out' = out
    <3>1. out' = out
      BY <1>2, <1>5 DEF Ends, TypeOK, BuffersOK
    <3> QED
      BY <1>2, <1>5, <3>1 DEF Ends
  <2>2. ckt'[s].upstream_eof = TRUE /\ ~ckt[s].upstream_eof
    BY <1>5 DEF Ends, Circuits
  <2>3. [t \in Sides |-> ckt'[t].upstream_eof]
            = [[t \in Sides |-> ckt[t].upstream_eof] EXCEPT ![s] = TRUE]
    BY <1>2, <2>2
  <2>4. Stream!Finish(s)
    BY <2>1, <2>2, <2>3 DEF Stream!Finish
  <2> QED
    BY <2>4 DEF Simulates, Stream!Next
<1>6. CASE Delivers(s)
  BY <1>2, <1>6, DeliverSimulates
<1> QED
  BY <1>1, <1>3, <1>4, <1>5, <1>6 DEF Acts

LEMMA StreamStarts == Init => Stream!Init
<1> SUFFICES ASSUME Init PROVE Stream!Init
  OBVIOUS
<1>1. \A s \in Sides :
          buf[s].read = 0 /\ ckt[s].upstream_eof = FALSE /\ ckt[s].write_eof = FALSE
  BY DEF Init, InitialCircuit
<1>2. out = [s \in Sides |-> <<>>]
  BY DEF Init
<1> QED
  BY <1>1, <1>2 DEF Stream!Init

\* Cut into blocks, sent over connections that lose, delay and reorder them,
\* sent again and put together, the two upstream streams are what ByteStream
\* promises: each end gets a prefix of what the other wrote, and the end of
\* file only after all of it.
THEOREM CircuitsImplementByteStream ==
    ASSUME MaxSteg = 0, "axe" \notin FaultKinds
    PROVE  Spec => ImplementsByteStream
<1> DEFINE Inv == TypeOK /\ StreamInv /\ EofInv
<1>1. EofInv => EofTruthful
  BY TruthfulEnd
<1>2. EofInv' => EofTruthful'
  BY <1>1, PTL
<1>3. Inv /\ Inv' /\ [Next]_vars => [Stream!Next]_(Stream!streamVars)
  BY <1>2, ActsNext, ActedSimulates DEF Simulates
<1> QED
  BY <1>3, StreamStarts, EofInvariant, PTL DEF Spec, ImplementsByteStream, Stream!Spec
=============================================================================
