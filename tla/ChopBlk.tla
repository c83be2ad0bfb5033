------------------------------ MODULE ChopBlk ------------------------------
(***************************************************************************)
(* The block layer of the chop protocol (protocol/chop_blk.{h,cc}): block  *)
(* headers, ACK payloads, the transmit queue and the reassembly queue.     *)
(*                                                                         *)
(* Everything here is an operator on queue records; the circuit that owns  *)
(* the two queues is the state machine of ChopCircuit.                     *)
(*                                                                         *)
(* The data section of a block is the interval of the upstream byte stream *)
(* it carries: `n' units after the first `from' ones.  An ACK's data       *)
(* section is its decoded payload.  Encryption, padding and the evbuffers  *)
(* are left out.                                                           *)
(***************************************************************************)
EXTENDS Integers

CONSTANTS
    W,              \* slots of each queue and of the sliding window (256)
    MaxRetransmit   \* largest retransmit count a header can carry (255)

ASSUME WAssumption == W \in Nat \ {0, 1}
ASSUME MaxRetransmitAssumption == MaxRetransmit \in Nat

Slots == 0 .. W-1
Slot(seq) == seq % W

(***************************************************************************)
(* Opcodes that may travel on the wire.  op_XXX and the reserved ones are  *)
(* never built by header(s, d, p, f).                                      *)
(***************************************************************************)
Ops == {"DAT", "FIN", "RST", "ACK", "STEG0", "STEG_FIN"}

(***************************************************************************)
(* ACK payloads.  Bit k of the window stands for block hsn + 1 + k.        *)
(***************************************************************************)
AckPayloads == [hsn : Nat, window : SUBSET Slots]
NoAck == [hsn |-> 0, window |-> {}]     \* data section of any other opcode

\* ack_payload::block_received.
BlockReceived(ack, seq) ==
    \/ seq <= ack.hsn
    \/ (seq - ack.hsn) - 1 \in ack.window

\* The checks of the decoding constructor, with its lower bound hfloor.
AckValid(ack, hfloor) ==
    /\ hfloor >= 1 => ack.hsn >= hfloor - 1
    /\ ack.hsn < hfloor + W
    /\ ~ BlockReceived(ack, ack.hsn + 1)

(***************************************************************************)
(* Blocks: the header's seqno, opcode and retransmit count, and the data   *)
(* section.  The length fields follow from the data section.               *)
(***************************************************************************)
Blocks == [seq : Nat, op : Ops, from : Nat, n : Nat, ack : AckPayloads, r : Nat]

\* header::header(ciphr, dc, window) joins the three checks with "or", so a
\* header whose check field is zero is accepted wherever its seqno lies.
\* fOK tests the member f before it is assigned: either value is possible.
HeaderValid(checkOK, seq, window, fOK) ==
    \/ checkOK
    \/ seq - window \in Slots
    \/ fOK

(***************************************************************************)
(* transmit_queue.  A slot holds the block it was filled with until the    *)
(* block is acknowledged (NoElt: a null data pointer) or overwritten.      *)
(***************************************************************************)
NoElt == [seq |-> 0, op |-> "XXX", from |-> 0, n |-> 0, ack |-> NoAck, r |-> 0]

TxQueues == [cbuf : [Slots -> Blocks \cup {NoElt}],
             next_to_ack : Nat, next_to_send : Nat]

EmptyTx == [cbuf |-> [j \in Slots |-> NoElt], next_to_ack |-> 0, next_to_send |-> 0]

\* Mutation: one block too many.
TxFullOffByOne(q, overwrite_allowed) ==
    ~ overwrite_allowed /\ q.next_to_send - q.next_to_ack > W

\* transmit_queue::full; a queue built without retransmission never is.
TxFull(q, overwrite_allowed) ==
    ~ overwrite_allowed /\ q.next_to_send - q.next_to_ack > W-1

\* The block enqueue() builds around an opcode and a data section.
NewBlock(q, op, from, n, ack) ==
    [seq |-> q.next_to_send, op |-> op, from |-> from, n |-> n, ack |-> ack, r |-> 0]

Enqueue(q, b) ==
    [cbuf |-> [q.cbuf EXCEPT ![Slot(q.next_to_send)] = b],
     next_to_ack |-> q.next_to_ack, next_to_send |-> q.next_to_send + 1]

\* transmit_queue::process_ack: 0 when the payload was acceptable.
AckAcceptable(q, ack) == AckValid(ack, q.next_to_ack) /\ ack.hsn < q.next_to_send

Released(q, ack, j) ==
    \E i \in q.next_to_ack .. q.next_to_send-1 : Slot(i) = j /\ BlockReceived(ack, i)

ProcessAck(q, ack) ==
    IF ~ AckAcceptable(q, ack) THEN q
    ELSE [cbuf |-> [j \in Slots |-> IF Released(q, ack, j) THEN NoElt ELSE q.cbuf[j]],
          next_to_ack |-> IF q.next_to_ack <= ack.hsn THEN ack.hsn + 1 ELSE q.next_to_ack,
          next_to_send |-> q.next_to_send]

\* The sequence numbers transmit_queue::iterator visits: begin() is
\* next_to_ack whether or not its slot is filled, ++ skips emptied slots.
TxIteration(q) ==
    {i \in q.next_to_ack .. q.next_to_send-1 :
        i = q.next_to_ack \/ q.cbuf[Slot(i)] # NoElt}

\* header::prepare_retransmit on the element visited at i.
CanRetransmit(q, i) == q.cbuf[Slot(i)].r # MaxRetransmit

\* Mutation: the retransmit count stays as it was.
RetransmittedSameCount(q, i) == q

Retransmitted(q, i) ==
    LET b == [q.cbuf[Slot(i)] EXCEPT !.r = @ + 1]
    IN  [cbuf |-> [q.cbuf EXCEPT ![Slot(i)] = b],
         next_to_ack |-> q.next_to_ack, next_to_send |-> q.next_to_send]

(***************************************************************************)
(* reassembly_queue.  Its `count' is the number of filled slots.           *)
(***************************************************************************)
RxElts == [op : Ops, from : Nat, n : Nat]
NoRxElt == [op |-> "XXX", from |-> 0, n |-> 0]

RxQueues == [cbuf : [Slots -> RxElts \cup {NoRxElt}], next_to_process : Nat]

EmptyRx == [cbuf |-> [j \in Slots |-> NoRxElt], next_to_process |-> 0]

RxEmpty(q) == \A j \in Slots : q.cbuf[j] = NoRxElt

InWindow(q, seq) == seq - q.next_to_process \in Slots

Insert(q, seq, elt) ==
    IF InWindow(q, seq) /\ q.cbuf[Slot(seq)] = NoRxElt
    THEN [cbuf |-> [q.cbuf EXCEPT ![Slot(seq)] = elt], next_to_process |-> q.next_to_process]
    ELSE q

Front(q) == q.cbuf[Slot(q.next_to_process)]

\* Mutation: the slot is not emptied.
RemoveNextNoReset(q) == [q EXCEPT !.next_to_process = @ + 1]

RemoveNext(q) ==
    [cbuf |-> [q.cbuf EXCEPT ![Slot(q.next_to_process)] = NoRxElt],
     next_to_process |-> q.next_to_process + 1]

\* Mutation: reports the block it is waiting for.
GenAckHsnOffByOne(q) == q.next_to_process

\* reassembly_queue::gen_ack walks the ring from the front slot and reports
\* the block in slot pos as next_to_process + (pos - front).  The difference
\* is taken in int, so it is negative for the slots that wrapped around, and
\* set_block_received aborts on the huge unsigned offset that results.
GenAckHsn(q) == IF q.next_to_process = 0 THEN 0 ELSE q.next_to_process - 1

GenAckBits(q) ==
    {(q.next_to_process + (pos - Slot(q.next_to_process))) - GenAckHsn(q) - 1 :
        pos \in {j \in Slots : q.cbuf[j] # NoRxElt}}

GenAckAborts(q) == ~ (GenAckBits(q) \subseteq Slots)
GenAck(q) == [hsn |-> GenAckHsn(q), window |-> GenAckBits(q)]
=============================================================================
