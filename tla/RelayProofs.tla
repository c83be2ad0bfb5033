---------------------------- MODULE RelayProofs ----------------------------
(***************************************************************************)
(* The circuit and connection core with the null protocol, for any number  *)
(* of streams: no dangling pointer, nothing that is closed is forgotten,   *)
(* the loop ends only when nothing is left, a crash has a cause, and an    *)
(* end of file is passed on only when it is true.                          *)
(*                                                                         *)
(* A callback nests calls on the record of one circuit and its connection. *)
(* The lemmas about the operators say what each call keeps, whatever       *)
(* called it; the lemmas about the actions put the calls together.         *)
(***************************************************************************)
EXTENDS Relay, TLAPS

(***************************************************************************)
(* Types.                                                                  *)
(***************************************************************************)
States == {"none", "open", "closed", "deleted"}

CktRecs ==
    [st : States, upbuf : BOOLEAN, connected : BOOLEAN,
     socks : {"no", "wait", "have", "sent"}, read_eof : BOOLEAN, write_eof : BOOLEAN,
     pending_write_eof : BOOLEAN, downstream : BOOLEAN, enabled : SUBSET Both,
     reply : BOOLEAN]

ConnRecs ==
    [st : States, upstream : BOOLEAN, connected : BOOLEAN, failed : BOOLEAN,
     read_eof : BOOLEAN, write_eof : BOOLEAN, pending_write_eof : BOOLEAN,
     ever_received : BOOLEAN, enabled : SUBSET Both]

Crashes == {"no", "null_upbuf", "null_downstream", "assert_upstream",
            "assert_shutdown", "assert_circuit", "freed_state"}

LinkRecs ==
    [ckt : CktRecs, conn : ConnRecs, taken : Nat, sent : Nat, got : Nat, given : Nat,
     shut_up : BOOLEAN, shut_down : BOOLEAN, event : BOOLEAN, crash : Crashes]

ProcRecs ==
    [listening : BOOLEAN, shutting_down : BOOLEAN, cleanup : BOOLEAN,
     run : {"running", "exiting", "exited", "crashed"}, crash : Crashes,
     asked : SUBSET Shutdowns]

TypeOK ==
    /\ proc \in [Sides -> ProcRecs]
    /\ link \in [Sides -> [Streams -> LinkRecs]]
    /\ wrote \in [Sides -> [Streams -> Nat]]
    /\ ended \in [Sides -> [Streams -> BOOLEAN]]
    /\ broken \in [Streams -> BOOLEAN]

(***************************************************************************)
(* What every call keeps: a circuit and its connection point at each other *)
(* or not at all, and whoever closes something sees to its collection.     *)
(***************************************************************************)
Agree(p) ==
    /\ p.ckt.downstream = p.conn.upstream
    /\ p.conn.upstream => p.ckt.st = "open" /\ p.conn.st = "open"

Waits(p) == p.ckt.st = "closed" \/ p.conn.st = "closed"

\* A call turns p into q.
Sound(p, q) ==
    /\ q \in LinkRecs
    /\ Agree(p) /\ q.crash = "no" => Agree(q)
    /\ Waits(q) => Waits(p) \/ q.event
    /\ p.event => q.event
    /\ q.crash = "no" => p.crash = "no"

LEMMA SoundSame == \A p \in LinkRecs : Sound(p, p)
BY DEF Sound

LEMMA SoundTrans ==
    ASSUME NEW p, NEW q, NEW r, Sound(p, q), Sound(q, r)
    PROVE  Sound(p, r)
BY DEF Sound

\* Assignments to fields that Agree and Waits do not mention.
SameShape(p, q) ==
    /\ q \in LinkRecs
    /\ q.ckt.st = p.ckt.st /\ q.conn.st = p.conn.st
    /\ q.ckt.downstream = p.ckt.downstream /\ q.conn.upstream = p.conn.upstream
    /\ q.event = p.event /\ (q.crash = "no" => p.crash = "no")

LEMMA ShapeSound ==
    ASSUME NEW p, NEW q, SameShape(p, q)
    PROVE  Sound(p, q)
BY DEF Sound, SameShape, Agree, Waits

LEMMA LinkFields ==
    ASSUME NEW p \in LinkRecs
    PROVE  /\ p.ckt \in CktRecs /\ p.conn \in ConnRecs
           /\ p.taken \in Nat /\ p.sent \in Nat /\ p.got \in Nat /\ p.given \in Nat
           /\ p.shut_up \in BOOLEAN /\ p.shut_down \in BOOLEAN /\ p.event \in BOOLEAN
           /\ p.crash \in Crashes
BY DEF LinkRecs

\* The pieces of which close() is made.
LEMMA BaseCloses ==
    ASSUME NEW p \in LinkRecs
    PROVE  /\ WakeCleanup(p) \in LinkRecs /\ ConnBaseClose(p) \in LinkRecs
           /\ CircuitBaseClose(p) \in LinkRecs
           /\ ConnBaseClose(p).ckt = p.ckt /\ CircuitBaseClose(p).conn = p.conn
           /\ CircuitBaseClose(p).ckt = [p.ckt EXCEPT !.st = "closed", !.enabled = {}]
           /\ ConnBaseClose(p).conn = [p.conn EXCEPT !.st = "closed", !.enabled = {}]
           /\ \A q \in {ConnBaseClose(p), CircuitBaseClose(p)} :
                 /\ q.event = (p.event \/ ~Waits(p))
                 /\ q.crash = p.crash /\ q.taken = p.taken /\ q.sent = p.sent
                 /\ q.got = p.got /\ q.given = p.given
                 /\ q.shut_up = p.shut_up /\ q.shut_down = p.shut_down
<1> DEFINE w == WakeCleanup(p)
<1>1. /\ w \in LinkRecs /\ w.event = (p.event \/ ~Waits(p))
      /\ w.ckt = p.ckt /\ w.conn = p.conn /\ w.crash = p.crash /\ w.taken = p.taken
      /\ w.sent = p.sent /\ w.got = p.got /\ w.given = p.given
      /\ w.shut_up = p.shut_up /\ w.shut_down = p.shut_down
  BY DEF WakeCleanup, LinkRecs, Waits
<1>2. /\ ConnBaseClose(p) = [w EXCEPT !.conn = [w.conn EXCEPT !.st = "closed", !.enabled = {}]]
      /\ CircuitBaseClose(p) = [w EXCEPT !.ckt = [w.ckt EXCEPT !.st = "closed", !.enabled = {}]]
  BY <1>1 DEF ConnBaseClose, CircuitBaseClose, LinkRecs, ConnRecs, CktRecs
<1>3. /\ [w.conn EXCEPT !.st = "closed", !.enabled = {}] \in ConnRecs
      /\ [w.ckt EXCEPT !.st = "closed", !.enabled = {}] \in CktRecs
  BY <1>1 DEF LinkRecs, ConnRecs, CktRecs, States
<1> HIDE DEF w
<1>4. ConnBaseClose(p) \in LinkRecs /\ CircuitBaseClose(p) \in LinkRecs
  BY <1>1, <1>2, <1>3 DEF LinkRecs
<1>5. /\ ConnBaseClose(p).ckt = p.ckt /\ CircuitBaseClose(p).conn = p.conn
      /\ CircuitBaseClose(p).ckt = [p.ckt EXCEPT !.st = "closed", !.enabled = {}]
      /\ ConnBaseClose(p).conn = [p.conn EXCEPT !.st = "closed", !.enabled = {}]
  BY <1>1, <1>2, <1>3 DEF LinkRecs
<1>6. \A q \in {ConnBaseClose(p), CircuitBaseClose(p)} :
          /\ q.event = w.event
          /\ q.crash = p.crash /\ q.taken = p.taken /\ q.sent = p.sent
          /\ q.got = p.got /\ q.given = p.given
          /\ q.shut_up = p.shut_up /\ q.shut_down = p.shut_down
  BY <1>1, <1>2, <1>3 DEF LinkRecs
<1> QED
  BY <1>1, <1>4, <1>5, <1>6 DEF w

(***************************************************************************)
(* What holds of a stream that nothing has broken.  ps units were sent by  *)
(* the peer; w and wo were written by the program here and by the other    *)
(* one; e and eo say that they have closed their sides.                    *)
(***************************************************************************)
Over == {"closed", "deleted"}

Env(ps, w, wo, e, eo) ==
    ps \in Nat /\ w \in Nat /\ wo \in Nat /\ e \in BOOLEAN /\ eo \in BOOLEAN /\ ps <= wo

\* The program here has ended, and all it wrote was read.
EndRead(p, w, e) == e /\ p.taken = w

\* The program there has ended, and all it wrote has arrived.
EndSeen(p, wo, eo) == eo /\ p.got = wo

\* An end of file is noted only when it is true, and a circuit closes only
\* when it has seen both.
Data(p, ps, w, wo, e, eo) ==
    /\ p.ckt.upbuf
    /\ p.given <= p.got /\ p.got <= ps /\ p.sent <= p.taken /\ p.taken <= w
    /\ p.ckt.read_eof \/ p.conn.pending_write_eof => EndRead(p, w, e)
    /\ p.conn.write_eof \/ p.shut_down \/ p.conn.st \in Over =>
          EndRead(p, w, e) /\ p.sent = p.taken
    /\ p.conn.read_eof \/ p.ckt.pending_write_eof => EndSeen(p, wo, eo)
    /\ p.ckt.write_eof \/ p.shut_up => EndSeen(p, wo, eo) /\ p.given = p.got
    /\ p.ckt.st \in Over => p.conn.st = "none" \/ (p.ckt.read_eof /\ p.ckt.write_eof)
    /\ p.conn.st = "none" => ~p.conn.write_eof /\ p.conn.enabled = {}

\* What every nested call leaves alone: it may close, and stop reading.
Calm(p, q) ==
    /\ q.ckt.socks = p.ckt.socks
    /\ q.conn.connected = p.conn.connected /\ q.conn.failed = p.conn.failed
    /\ q.ckt.enabled \subseteq p.ckt.enabled /\ q.conn.enabled \subseteq p.conn.enabled
    /\ q.ckt.st = p.ckt.st \/ (p.ckt.st = "open" /\ q.ckt.st = "closed")
    /\ q.conn.st = p.conn.st \/ (p.conn.st = "open" /\ q.conn.st = "closed")
    /\ q.taken = p.taken /\ q.sent = p.sent /\ q.got = p.got /\ q.given = p.given
    /\ q.crash = p.crash

LEMMA CalmTrans ==
    ASSUME NEW p, NEW q, NEW r, Calm(p, q), Calm(q, r)
    PROVE  Calm(p, r)
BY DEF Calm

\* Unless a call closes one of the two, the pointers are as they were.
Whence(p, q) ==
    \/ q.conn.st = "closed" \/ q.ckt.st = "closed"
    \/ /\ q.ckt.st = p.ckt.st /\ q.conn.st = p.conn.st
       /\ q.ckt.downstream = p.ckt.downstream /\ q.conn.upstream = p.conn.upstream

LEMMA ConnBaseCloseFits ==
    ASSUME NEW p \in LinkRecs, ~p.conn.upstream, ~p.ckt.downstream
    PROVE  /\ Sound(p, ConnBaseClose(p))
           /\ ConnBaseClose(p).conn.upstream = FALSE
           /\ ConnBaseClose(p).ckt.downstream = FALSE
           /\ ConnBaseClose(p).conn.st = "closed"
           /\ p.conn.st = "open" => Calm(p, ConnBaseClose(p))
           /\ \A ps, w, wo, e, eo :
                 Data(p, ps, w, wo, e, eo) /\ p.conn.write_eof /\ p.conn.st = "open"
                    => Data(ConnBaseClose(p), ps, w, wo, e, eo)
<1> DEFINE q == ConnBaseClose(p)
<1>0. p.ckt \in CktRecs /\ p.conn \in ConnRecs /\ p.event \in BOOLEAN
  BY LinkFields
<1>1. /\ q \in LinkRecs /\ q.ckt = p.ckt
      /\ q.event = (p.event \/ ~Waits(p)) /\ q.crash = p.crash
      /\ q.taken = p.taken /\ q.sent = p.sent /\ q.got = p.got /\ q.given = p.given
      /\ q.shut_up = p.shut_up /\ q.shut_down = p.shut_down
      /\ q.conn = [p.conn EXCEPT !.st = "closed", !.enabled = {}]
  BY BaseCloses
<1>2. /\ q.conn.upstream = FALSE /\ q.conn.st = "closed" /\ q.conn.enabled = {}
      /\ q.conn.connected = p.conn.connected /\ q.conn.failed = p.conn.failed
      /\ q.conn.write_eof = p.conn.write_eof /\ q.conn.read_eof = p.conn.read_eof
      /\ q.conn.pending_write_eof = p.conn.pending_write_eof
  BY <1>0, <1>1 DEF ConnRecs
<1>3. q.ckt.downstream = FALSE
  BY <1>0, <1>1 DEF CktRecs
<1> HIDE DEF q
<1>4. Sound(p, q)
  BY <1>0, <1>1, <1>2, <1>3 DEF Sound, Agree, Waits
<1>5. p.conn.st = "open" => Calm(p, q)
  BY <1>1, <1>2 DEF Calm
<1>6. \A ps, w, wo, e, eo :
         Data(p, ps, w, wo, e, eo) /\ p.conn.write_eof /\ p.conn.st = "open"
            => Data(q, ps, w, wo, e, eo)
  <2> SUFFICES ASSUME NEW ps, NEW w, NEW wo, NEW e, NEW eo,
                      Data(p, ps, w, wo, e, eo), p.conn.write_eof, p.conn.st = "open"
               PROVE  Data(q, ps, w, wo, e, eo)
    OBVIOUS
  <2>1. EndRead(p, w, e) /\ p.sent = p.taken
    BY DEF Data
  <2> QED
    BY <2>1, <1>1, <1>2 DEF Data, EndRead, EndSeen, Over
<1> QED
  BY <1>2, <1>3, <1>4, <1>5, <1>6 DEF q

LEMMA CircuitBaseCloseFits ==
    ASSUME NEW p \in LinkRecs, ~p.conn.upstream, ~p.ckt.downstream
    PROVE  /\ Sound(p, CircuitBaseClose(p))
           /\ CircuitBaseClose(p).conn.upstream = FALSE
           /\ CircuitBaseClose(p).ckt.downstream = FALSE
           /\ CircuitBaseClose(p).ckt.st = "closed"
           /\ CircuitBaseClose(p).conn = p.conn
           /\ p.ckt.st \in {"open", "closed"} => Calm(p, CircuitBaseClose(p))
           /\ \A ps, w, wo, e, eo :
                 /\ Data(p, ps, w, wo, e, eo)
                 /\ p.conn.st = "none" \/ (p.ckt.read_eof /\ p.ckt.write_eof)
                 => Data(CircuitBaseClose(p), ps, w, wo, e, eo)
<1> DEFINE q == CircuitBaseClose(p)
<1>0. p.ckt \in CktRecs /\ p.conn \in ConnRecs /\ p.event \in BOOLEAN
  BY LinkFields
<1>1. /\ q \in LinkRecs /\ q.conn = p.conn
      /\ q.event = (p.event \/ ~Waits(p)) /\ q.crash = p.crash
      /\ q.taken = p.taken /\ q.sent = p.sent /\ q.got = p.got /\ q.given = p.given
      /\ q.shut_up = p.shut_up /\ q.shut_down = p.shut_down
      /\ q.ckt = [p.ckt EXCEPT !.st = "closed", !.enabled = {}]
  BY BaseCloses
<1>2. /\ q.ckt.downstream = FALSE /\ q.ckt.st = "closed" /\ q.ckt.enabled = {}
      /\ q.ckt.upbuf = p.ckt.upbuf /\ q.ckt.socks = p.ckt.socks
      /\ q.ckt.write_eof = p.ckt.write_eof /\ q.ckt.read_eof = p.ckt.read_eof
      /\ q.ckt.pending_write_eof = p.ckt.pending_write_eof
  BY <1>0, <1>1 DEF CktRecs
<1>3. q.conn.upstream = FALSE
  BY <1>0, <1>1 DEF ConnRecs
<1> HIDE DEF q
<1>4. Sound(p, q)
  BY <1>0, <1>1, <1>2, <1>3 DEF Sound, Agree, Waits
<1>5. p.ckt.st \in {"open", "closed"} => Calm(p, q)
  BY <1>1, <1>2 DEF Calm
<1>6. \A ps, w, wo, e, eo :
         /\ Data(p, ps, w, wo, e, eo)
         /\ p.conn.st = "none" \/ (p.ckt.read_eof /\ p.ckt.write_eof)
         => Data(q, ps, w, wo, e, eo)
  BY <1>1, <1>2 DEF Data, EndRead, EndSeen, Over
<1> QED
  BY <1>1, <1>2, <1>3, <1>4, <1>5, <1>6 DEF q

LEMMA FlushUnlinkedFits ==
    ASSUME NEW p \in LinkRecs, ~p.conn.upstream, ~p.ckt.downstream
    PROVE  /\ Sound(p, FlushUnlinked(p))
           /\ FlushUnlinked(p).conn.upstream = FALSE
           /\ FlushUnlinked(p).ckt = p.ckt
           /\ p.conn.st = "open" => Calm(p, FlushUnlinked(p))
           /\ \A ps, w, wo, e, eo :
                 Data(p, ps, w, wo, e, eo) /\ EndRead(p, w, e) /\ p.conn.st = "open"
                    => Data(FlushUnlinked(p), ps, w, wo, e, eo)
<1> DEFINE q == [p EXCEPT !.conn.write_eof = TRUE]
           r == ConnBaseClose(q)
<1>0. p.ckt \in CktRecs /\ p.conn \in ConnRecs
  BY LinkFields
<1>1. /\ q \in LinkRecs /\ q.ckt = p.ckt
      /\ q.event = p.event /\ q.crash = p.crash
      /\ q.taken = p.taken /\ q.sent = p.sent /\ q.got = p.got /\ q.given = p.given
      /\ q.shut_up = p.shut_up /\ q.shut_down = p.shut_down
      /\ q.conn = [p.conn EXCEPT !.write_eof = TRUE]
  BY <1>0 DEF LinkRecs, ConnRecs
<1>2. /\ q.conn.upstream = FALSE /\ q.ckt.downstream = FALSE
      /\ q.conn.st = p.conn.st /\ q.conn.enabled = p.conn.enabled
      /\ q.conn.connected = p.conn.connected /\ q.conn.failed = p.conn.failed
      /\ q.conn.write_eof = TRUE /\ q.conn.read_eof = p.conn.read_eof
      /\ q.conn.pending_write_eof = p.conn.pending_write_eof
  BY <1>0, <1>1 DEF ConnRecs, CktRecs
<1>3. CASE ~DownOutputEmpty(p)
  <2>1. FlushUnlinked(p) = p
    BY <1>3 DEF FlushUnlinked
  <2>2. p.conn.upstream = FALSE /\ Calm(p, p)
    BY <1>0 DEF ConnRecs, Calm
  <2> QED
    BY <2>1, <2>2, SoundSame
<1>4. CASE DownOutputEmpty(p)
  <2>1. FlushUnlinked(p) \in {p, q, r}
    BY DEF FlushUnlinked
  <2> HIDE DEF q, r
  <2>2. Sound(p, q) /\ Calm(p, q)
    BY <1>1, <1>2 DEF Sound, Agree, Waits, Calm
  <2>3. \A ps, w, wo, e, eo :
            Data(p, ps, w, wo, e, eo) /\ EndRead(p, w, e) /\ p.conn.st = "open"
               => Data(q, ps, w, wo, e, eo)
    BY <1>1, <1>2, <1>4 DEF Data, EndRead, EndSeen, DownOutputEmpty
  <2>4. /\ Sound(q, r) /\ r.conn.upstream = FALSE
        /\ q.conn.st = "open" => Calm(q, r)
        /\ \A ps, w, wo, e, eo :
              Data(q, ps, w, wo, e, eo) /\ q.conn.st = "open" => Data(r, ps, w, wo, e, eo)
    BY <1>1, <1>2, ConnBaseCloseFits DEF r
  <2>5. r.ckt = p.ckt
    BY <1>1, BaseCloses DEF r
  <2>6. Sound(p, r) /\ (p.conn.st = "open" => Calm(p, r))
    BY <1>2, <2>2, <2>4, SoundTrans, CalmTrans
  <2>7. p.conn.upstream = FALSE /\ Calm(p, p) /\ Sound(p, p)
    BY <1>0, SoundSame DEF ConnRecs, Calm
  <2>8. \A ps, w, wo, e, eo :
            Data(p, ps, w, wo, e, eo) /\ EndRead(p, w, e) /\ p.conn.st = "open"
               => Data(r, ps, w, wo, e, eo)
    BY <2>3, <2>4, <1>2
  <2>9. CASE FlushUnlinked(p) = p
    BY <2>9, <2>7
  <2>10. CASE FlushUnlinked(p) = q
    BY <2>10, <2>2, <2>3, <1>1, <1>2
  <2>11. CASE FlushUnlinked(p) = r
    BY <2>11, <2>4, <2>5, <2>6, <2>8
  <2> QED
    BY <2>1, <2>9, <2>10, <2>11
<1> QED
  BY <1>3, <1>4

\* null_circuit_t::close breaks both pointers.
LEMMA NullCircuitCloseFits ==
    ASSUME NEW p \in LinkRecs, p.ckt.downstream = p.conn.upstream
    PROVE  /\ Sound(p, NullCircuitClose(p))
           /\ NullCircuitClose(p).ckt.downstream = FALSE
           /\ NullCircuitClose(p).conn.upstream = FALSE
           /\ NullCircuitClose(p).ckt.st = "closed"
           /\ p.ckt.st \in {"open", "closed"} /\ Agree(p) => Calm(p, NullCircuitClose(p))
           /\ ~p.ckt.downstream => NullCircuitClose(p).conn = p.conn
           /\ \A ps, w, wo, e, eo :
                 /\ Data(p, ps, w, wo, e, eo) /\ Agree(p)
                 /\ \/ p.conn.st = "none"
                    \/ p.ckt.read_eof /\ p.ckt.write_eof
                 => Data(NullCircuitClose(p), ps, w, wo, e, eo)
<1> DEFINE q == [p EXCEPT !.conn.upstream = FALSE, !.ckt.downstream = FALSE,
                          !.conn.pending_write_eof = TRUE]
           r == IF DownOutputEmpty(q) THEN FlushUnlinked(q) ELSE q
<1>0. p.ckt \in CktRecs /\ p.conn \in ConnRecs
  BY LinkFields
<1>1. CASE ~p.ckt.downstream
  <2>1. NullCircuitClose(p) = CircuitBaseClose(p) /\ ~p.conn.upstream
    BY <1>1, <1>0 DEF NullCircuitClose
  <2> QED
    BY <2>1, <1>1, CircuitBaseCloseFits
<1>2. CASE p.ckt.downstream
  <2>1. NullCircuitClose(p) = CircuitBaseClose(r)
    BY <1>2 DEF NullCircuitClose
  <2>2. /\ q \in LinkRecs /\ q.event = p.event /\ q.crash = p.crash
        /\ q.taken = p.taken /\ q.sent = p.sent /\ q.got = p.got /\ q.given = p.given
        /\ q.shut_up = p.shut_up /\ q.shut_down = p.shut_down
        /\ q.conn = [p.conn EXCEPT !.upstream = FALSE, !.pending_write_eof = TRUE]
        /\ q.ckt = [p.ckt EXCEPT !.downstream = FALSE]
    BY <1>0 DEF LinkRecs, ConnRecs, CktRecs
  <2> HIDE DEF q
  <2>3. /\ q.conn.upstream = FALSE /\ q.ckt.downstream = FALSE
        /\ q.conn.st = p.conn.st /\ q.conn.enabled = p.conn.enabled
        /\ q.conn.connected = p.conn.connected /\ q.conn.failed = p.conn.failed
        /\ q.conn.write_eof = p.conn.write_eof /\ q.conn.read_eof = p.conn.read_eof
        /\ q.conn.pending_write_eof = TRUE
        /\ q.ckt.st = p.ckt.st /\ q.ckt.enabled = p.ckt.enabled /\ q.ckt.socks = p.ckt.socks
        /\ q.ckt.upbuf = p.ckt.upbuf /\ q.ckt.read_eof = p.ckt.read_eof
        /\ q.ckt.write_eof = p.ckt.write_eof
        /\ q.ckt.pending_write_eof = p.ckt.pending_write_eof
    BY <1>0, <2>2 DEF ConnRecs, CktRecs
  <2>4. Sound(p, q) /\ Calm(p, q)
    BY <2>2, <2>3 DEF Sound, Agree, Waits, Calm
  <2>5. \A ps, w, wo, e, eo :
           Data(p, ps, w, wo, e, eo) /\ EndRead(p, w, e) => Data(q, ps, w, wo, e, eo)
    BY <2>2, <2>3 DEF Data, EndRead, EndSeen
  <2>6. /\ Sound(q, r) /\ r \in LinkRecs /\ r.conn.upstream = FALSE /\ r.ckt = q.ckt
        /\ q.conn.st = "open" => Calm(q, r)
        /\ \A ps, w, wo, e, eo :
              Data(q, ps, w, wo, e, eo) /\ EndRead(q, w, e) /\ q.conn.st = "open"
                 => Data(r, ps, w, wo, e, eo)
    <3>1. Calm(q, q)
      BY DEF Calm
    <3> QED
      BY <3>1, <2>2, <2>3, FlushUnlinkedFits, SoundSame DEF Sound
  <2> HIDE DEF r
  <2> DEFINE z == CircuitBaseClose(r)
  <2>7. /\ Sound(r, z) /\ z.conn.upstream = FALSE /\ z.ckt.downstream = FALSE
        /\ z.ckt.st = "closed"
        /\ r.ckt.st \in {"open", "closed"} => Calm(r, z)
        /\ \A ps, w, wo, e, eo :
              /\ Data(r, ps, w, wo, e, eo)
              /\ r.conn.st = "none" \/ (r.ckt.read_eof /\ r.ckt.write_eof)
              => Data(z, ps, w, wo, e, eo)
    BY <2>3, <2>6, CircuitBaseCloseFits
  <2> HIDE DEF z
  <2>8. Sound(p, z)
    BY <2>4, <2>6, <2>7, SoundTrans
  <2>9. p.ckt.st \in {"open", "closed"} /\ Agree(p) => Calm(p, z)
    <3> SUFFICES ASSUME Agree(p)
                 PROVE  Calm(p, z)
      OBVIOUS
    <3>1. q.conn.st = "open" /\ r.ckt.st = "open"
      BY <1>2, <2>3, <2>6 DEF Agree
    <3> QED
      BY <3>1, <2>4, <2>6, <2>7, CalmTrans
  <2>10. ASSUME NEW ps, NEW w, NEW wo, NEW e, NEW eo,
                Data(p, ps, w, wo, e, eo), Agree(p),
                p.conn.st = "none" \/ (p.ckt.read_eof /\ p.ckt.write_eof)
         PROVE  Data(z, ps, w, wo, e, eo)
    <3>1. p.conn.st = "open" /\ p.ckt.read_eof /\ p.ckt.write_eof
      BY <1>2, <2>10 DEF Agree
    <3>2. EndRead(p, w, e) /\ EndRead(q, w, e)
      BY <3>1, <2>10, <2>2 DEF Data, EndRead
    <3> QED
      BY <3>1, <3>2, <2>3, <2>5, <2>6, <2>7, <2>10
  <2> QED
    BY <1>2, <2>1, <2>7, <2>8, <2>9, <2>10 DEF z
<1> QED
  BY <1>0, <1>1, <1>2

LEMMA CalmSame == \A p : Calm(p, p) /\ Whence(p, p)
BY DEF Calm, Whence

LEMMA UpstreamFlushCbFits ==
    ASSUME NEW p \in LinkRecs, p.ckt.downstream = p.conn.upstream
    PROVE  /\ Sound(p, UpstreamFlushCb(p))
           /\ p.ckt.st = "open" /\ Agree(p) =>
                 Calm(p, UpstreamFlushCb(p)) /\ Whence(p, UpstreamFlushCb(p))
           /\ ~p.ckt.downstream => /\ UpstreamFlushCb(p).conn = p.conn
                                   /\ UpstreamFlushCb(p).ckt.downstream = FALSE
           /\ \A ps, w, wo, e, eo :
                 Data(p, ps, w, wo, e, eo) /\ Agree(p)
                    => Data(UpstreamFlushCb(p), ps, w, wo, e, eo)
<1> DEFINE q == [p EXCEPT !.ckt.write_eof = TRUE, !.shut_up = TRUE]
           r == NullCircuitClose(q)
<1>0. p.ckt \in CktRecs /\ p.conn \in ConnRecs
  BY LinkFields
<1>1. CASE ~(UpOutputEmpty(p) /\ p.ckt.pending_write_eof)
  <2>1. UpstreamFlushCb(p) = p
    BY <1>1 DEF UpstreamFlushCb
  <2>2. ~p.ckt.downstream => p.ckt.downstream = FALSE
    BY <1>0 DEF CktRecs
  <2> QED
    BY <2>1, <2>2, SoundSame, CalmSame
<1>2. CASE UpOutputEmpty(p) /\ p.ckt.pending_write_eof
  <2>1. /\ UpstreamFlushCb(p) \in {p, q, r}
        /\ UpstreamFlushCb(p) = r => q.ckt.read_eof \/ r \in {p, q}
    BY DEF UpstreamFlushCb
  <2>2. /\ q \in LinkRecs /\ q.event = p.event /\ q.crash = p.crash
        /\ q.taken = p.taken /\ q.sent = p.sent /\ q.got = p.got /\ q.given = p.given
        /\ q.shut_up = TRUE /\ q.shut_down = p.shut_down
        /\ q.conn = p.conn
        /\ q.ckt = [p.ckt EXCEPT !.write_eof = TRUE]
    BY <1>0 DEF LinkRecs, CktRecs
  <2> HIDE DEF q
  <2>3. /\ q.ckt.downstream = p.ckt.downstream
        /\ q.ckt.st = p.ckt.st /\ q.ckt.enabled = p.ckt.enabled /\ q.ckt.socks = p.ckt.socks
        /\ q.ckt.upbuf = p.ckt.upbuf /\ q.ckt.read_eof = p.ckt.read_eof
        /\ q.ckt.write_eof = TRUE
        /\ q.ckt.pending_write_eof = p.ckt.pending_write_eof
    BY <1>0, <2>2 DEF CktRecs
  <2>4. Sound(p, q) /\ Calm(p, q) /\ Whence(p, q) /\ (Agree(p) => Agree(q))
    BY <2>2, <2>3 DEF Sound, Agree, Waits, Calm, Whence
  <2>5. \A ps, w, wo, e, eo : Data(p, ps, w, wo, e, eo) => Data(q, ps, w, wo, e, eo)
    BY <2>2, <2>3, <1>2 DEF Data, EndRead, EndSeen, UpOutputEmpty
  <2>6. /\ Sound(q, r) /\ r.ckt.downstream = FALSE /\ r.ckt.st = "closed"
        /\ q.ckt.st = "open" /\ Agree(q) => Calm(q, r)
        /\ ~q.ckt.downstream => r.conn = q.conn
        /\ \A ps, w, wo, e, eo :
              Data(q, ps, w, wo, e, eo) /\ Agree(q) /\ q.ckt.read_eof
                => Data(r, ps, w, wo, e, eo)
    BY <2>2, <2>3, NullCircuitCloseFits
  <2> HIDE DEF r
  <2>7. Sound(p, r)
    BY <2>4, <2>6, SoundTrans
  <2>8. p.ckt.st = "open" /\ Agree(p) => Calm(p, r) /\ Whence(p, r)
    BY <2>3, <2>4, <2>6, CalmTrans DEF Whence
  <2>9. ~p.ckt.downstream => p.ckt.downstream = FALSE /\ q.ckt.downstream = FALSE
    BY <1>0, <2>3 DEF CktRecs
  <2>10. CASE UpstreamFlushCb(p) = p
    BY <2>10, <2>9, SoundSame, CalmSame
  <2>11. CASE UpstreamFlushCb(p) = q
    BY <2>11, <2>9, <2>2, <2>4, <2>5
  <2>12. CASE UpstreamFlushCb(p) = r /\ q.ckt.read_eof
    BY <2>12, <2>2, <2>3, <2>4, <2>5, <2>6, <2>7, <2>8
  <2> QED
    BY <2>1, <2>10, <2>11, <2>12
<1> QED
  BY <1>1, <1>2

LEMMA CircuitDoFlushFits ==
    ASSUME NEW p \in LinkRecs, p.ckt.downstream = p.conn.upstream
    PROVE  /\ Sound(p, CircuitDoFlush(p))
           /\ p.ckt.st = "open" /\ Agree(p) /\ p.ckt.upbuf =>
                 Calm(p, CircuitDoFlush(p)) /\ Whence(p, CircuitDoFlush(p))
           /\ ~p.ckt.downstream => /\ CircuitDoFlush(p).conn = p.conn
                                   /\ CircuitDoFlush(p).ckt.downstream = FALSE
           /\ \A ps, w, wo, e, eo :
                 Data(p, ps, w, wo, e, eo) /\ Agree(p) /\ EndSeen(p, wo, eo)
                    => Data(CircuitDoFlush(p), ps, w, wo, e, eo)
<1> DEFINE q == [p EXCEPT !.ckt.pending_write_eof = TRUE]
           r == UpstreamFlushCb(q)
<1>0. p.ckt \in CktRecs /\ p.conn \in ConnRecs
  BY LinkFields
<1>9. ~p.ckt.downstream => p.ckt.downstream = FALSE
  BY <1>0 DEF CktRecs
<1>1. CASE ~p.ckt.upbuf
  <2>1. CircuitDoFlush(p) = [p EXCEPT !.crash = "null_upbuf"]
    BY <1>1 DEF CircuitDoFlush
  <2> DEFINE z == [p EXCEPT !.crash = "null_upbuf"]
  <2>2. /\ z \in LinkRecs /\ z.event = p.event /\ z.crash # "no"
        /\ z.conn = p.conn /\ z.ckt = p.ckt
    BY DEF LinkRecs, Crashes
  <2> HIDE DEF z
  <2>3. Sound(p, z)
    BY <2>2 DEF Sound, Agree, Waits
  <2>4. \A ps, w, wo, e, eo : ~Data(p, ps, w, wo, e, eo)
    BY <1>1 DEF Data
  <2> QED
    BY <1>1, <1>9, <2>1, <2>2, <2>3, <2>4 DEF z
<1>2. CASE p.ckt.upbuf
  <2>1. CircuitDoFlush(p) \in {q, r}
    BY <1>2 DEF CircuitDoFlush
  <2>2. /\ q \in LinkRecs /\ q.event = p.event /\ q.crash = p.crash
        /\ q.taken = p.taken /\ q.sent = p.sent /\ q.got = p.got /\ q.given = p.given
        /\ q.shut_up = p.shut_up /\ q.shut_down = p.shut_down
        /\ q.conn = p.conn
        /\ q.ckt = [p.ckt EXCEPT !.pending_write_eof = TRUE]
    BY <1>0 DEF LinkRecs, CktRecs
  <2> HIDE DEF q
  <2>3. /\ q.ckt.downstream = p.ckt.downstream
        /\ q.ckt.st = p.ckt.st /\ q.ckt.enabled = p.ckt.enabled /\ q.ckt.socks = p.ckt.socks
        /\ q.ckt.upbuf = p.ckt.upbuf /\ q.ckt.read_eof = p.ckt.read_eof
        /\ q.ckt.write_eof = p.ckt.write_eof
    BY <1>0, <2>2 DEF CktRecs
  <2>4. Sound(p, q) /\ Calm(p, q) /\ Whence(p, q) /\ (Agree(p) => Agree(q))
    BY <2>2, <2>3 DEF Sound, Agree, Waits, Calm, Whence
  <2>5. \A ps, w, wo, e, eo :
            Data(p, ps, w, wo, e, eo) /\ EndSeen(p, wo, eo) => Data(q, ps, w, wo, e, eo)
    BY <2>2, <2>3 DEF Data, EndRead, EndSeen
  <2>6. /\ Sound(q, r)
        /\ q.ckt.st = "open" /\ Agree(q) => Calm(q, r) /\ Whence(q, r)
        /\ ~q.ckt.downstream => r.conn = q.conn /\ r.ckt.downstream = FALSE
        /\ \A ps, w, wo, e, eo :
              Data(q, ps, w, wo, e, eo) /\ Agree(q) => Data(r, ps, w, wo, e, eo)
    BY <2>2, <2>3, UpstreamFlushCbFits
  <2> HIDE DEF r
  <2>7. Sound(p, r)
    BY <2>4, <2>6, SoundTrans
  <2>8. p.ckt.st = "open" /\ Agree(p) => Calm(p, r) /\ Whence(p, r)
    <3>1. p.ckt.st = "open" /\ Agree(p) => Calm(p, r)
      BY <2>3, <2>4, <2>6, CalmTrans
    <3> QED
      BY <3>1, <2>2, <2>3, <2>4, <2>6 DEF Whence
  <2>11. CASE CircuitDoFlush(p) = q
    BY <2>11, <1>9, <2>2, <2>3, <2>4, <2>5
  <2>12. CASE CircuitDoFlush(p) = r
    BY <2>12, <2>2, <2>3, <2>4, <2>5, <2>6, <2>7, <2>8
  <2> QED
    BY <2>1, <2>11, <2>12
<1> QED
  BY <1>0, <1>1, <1>2

\* null_conn_t::close, with drop_downstream: the circuit is told first.
LEMMA NullConnCloseFits ==
    ASSUME NEW p \in LinkRecs, p.ckt.downstream = p.conn.upstream
    PROVE  /\ Sound(p, NullConnClose(p))
           /\ NullConnClose(p).conn.st = "closed"
           /\ p.conn.st = "open" /\ Agree(p) /\ p.ckt.upbuf => Calm(p, NullConnClose(p))
           /\ NullConnClose(p).ckt.downstream = FALSE
           /\ NullConnClose(p).conn.upstream = FALSE
           /\ \A ps, w, wo, e, eo :
                 /\ Data(p, ps, w, wo, e, eo) /\ Agree(p) /\ p.conn.st = "open"
                 /\ p.conn.write_eof /\ EndSeen(p, wo, eo)
                 => Data(NullConnClose(p), ps, w, wo, e, eo)
<1> DEFINE q == [p EXCEPT !.ckt.downstream = FALSE, !.conn.upstream = FALSE]
           r == CircuitDoFlush(q)
           z == ConnBaseClose(r)
<1>0. p.ckt \in CktRecs /\ p.conn \in ConnRecs
  BY LinkFields
<1>1. CASE ~p.conn.upstream
  <2>1. NullConnClose(p) = ConnBaseClose(p) /\ ~p.ckt.downstream
    BY <1>0, <1>1 DEF NullConnClose
  <2> QED
    BY <2>1, <1>1, ConnBaseCloseFits
<1>2. CASE p.conn.upstream
  <2>1. NullConnClose(p) = z
    BY <1>2 DEF NullConnClose, DropDownstream
  <2>2. /\ q \in LinkRecs /\ q.event = p.event /\ q.crash = p.crash
        /\ q.taken = p.taken /\ q.sent = p.sent /\ q.got = p.got /\ q.given = p.given
        /\ q.shut_up = p.shut_up /\ q.shut_down = p.shut_down
        /\ q.conn = [p.conn EXCEPT !.upstream = FALSE]
        /\ q.ckt = [p.ckt EXCEPT !.downstream = FALSE]
    BY <1>0 DEF LinkRecs, ConnRecs, CktRecs
  <2> HIDE DEF q
  <2>3. /\ q.conn.upstream = FALSE /\ q.ckt.downstream = FALSE
        /\ q.conn.st = p.conn.st /\ q.conn.enabled = p.conn.enabled
        /\ q.conn.connected = p.conn.connected /\ q.conn.failed = p.conn.failed
        /\ q.conn.write_eof = p.conn.write_eof /\ q.conn.read_eof = p.conn.read_eof
        /\ q.conn.pending_write_eof = p.conn.pending_write_eof
        /\ q.ckt.st = p.ckt.st /\ q.ckt.enabled = p.ckt.enabled /\ q.ckt.socks = p.ckt.socks
        /\ q.ckt.upbuf = p.ckt.upbuf /\ q.ckt.read_eof = p.ckt.read_eof
        /\ q.ckt.write_eof = p.ckt.write_eof
        /\ q.ckt.pending_write_eof = p.ckt.pending_write_eof
    BY <1>0, <2>2 DEF ConnRecs, CktRecs
  <2>4. Sound(p, q) /\ Calm(p, q) /\ Agree(q)
    BY <2>2, <2>3 DEF Sound, Agree, Waits, Calm
  <2>5. \A ps, w, wo, e, eo :
           /\ Data(p, ps, w, wo, e, eo) => Data(q, ps, w, wo, e, eo)
           /\ EndSeen(p, wo, eo) => EndSeen(q, wo, eo)
    BY <2>2, <2>3 DEF Data, EndRead, EndSeen
  <2>6. /\ Sound(q, r) /\ r \in LinkRecs /\ r.conn = q.conn /\ r.ckt.downstream = FALSE
        /\ q.ckt.st = "open" /\ q.ckt.upbuf => Calm(q, r)
        /\ \A ps, w, wo, e, eo :
              Data(q, ps, w, wo, e, eo) /\ EndSeen(q, wo, eo) => Data(r, ps, w, wo, e, eo)
    <3>1. Sound(q, r)
      BY <2>2, <2>3, CircuitDoFlushFits
    <3>2. r \in LinkRecs
      BY <3>1 DEF Sound
    <3> QED
      BY <3>1, <3>2, <2>2, <2>3, <2>4, CircuitDoFlushFits
  <2> HIDE DEF r
  <2>7. /\ Sound(r, z) /\ z.conn.upstream = FALSE /\ z.ckt.downstream = FALSE
        /\ z.conn.st = "closed"
        /\ r.conn.st = "open" => Calm(r, z)
        /\ \A ps, w, wo, e, eo :
              Data(r, ps, w, wo, e, eo) /\ r.conn.write_eof /\ r.conn.st = "open"
              => Data(z, ps, w, wo, e, eo)
    BY <2>3, <2>6, ConnBaseCloseFits
  <2> HIDE DEF z
  <2>8. Sound(p, z)
    BY <2>4, <2>6, <2>7, SoundTrans
  <2>9. p.conn.st = "open" /\ Agree(p) /\ p.ckt.upbuf => Calm(p, z)
    <3> SUFFICES ASSUME p.conn.st = "open", Agree(p), p.ckt.upbuf
                 PROVE  Calm(p, z)
      OBVIOUS
    <3>1. q.ckt.st = "open" /\ q.ckt.upbuf /\ r.conn.st = "open"
      BY <1>2, <2>3, <2>6 DEF Agree
    <3> QED
      BY <3>1, <2>4, <2>6, <2>7, CalmTrans
  <2>10. ASSUME NEW ps, NEW w, NEW wo, NEW e, NEW eo,
                Data(p, ps, w, wo, e, eo), Agree(p), p.conn.st = "open",
                p.conn.write_eof, EndSeen(p, wo, eo)
         PROVE  Data(z, ps, w, wo, e, eo)
    BY <2>3, <2>5, <2>6, <2>7, <2>10
  <2> QED
    BY <2>1, <2>7, <2>8, <2>9, <2>10
<1> QED
  BY <1>0, <1>1, <1>2

LEMMA DownstreamFlushCbFits ==
    ASSUME NEW p \in LinkRecs, p.ckt.downstream = p.conn.upstream
    PROVE  /\ Sound(p, DownstreamFlushCb(p))
           /\ p.conn.st = "open" /\ Agree(p) /\ p.ckt.upbuf =>
                 Calm(p, DownstreamFlushCb(p)) /\ Whence(p, DownstreamFlushCb(p))
           /\ \A ps, w, wo, e, eo :
                 /\ Data(p, ps, w, wo, e, eo) /\ Agree(p) /\ p.conn.st = "open"
                 /\ p.conn.upstream \/ EndRead(p, w, e)
                 => Data(DownstreamFlushCb(p), ps, w, wo, e, eo)
<1> DEFINE q == [p EXCEPT !.conn.write_eof = TRUE]
           r == NullConnClose(q)
<1>0. p.ckt \in CktRecs /\ p.conn \in ConnRecs
  BY LinkFields
<1>1. CASE ~(DownOutputEmpty(p) /\ (p.conn.pending_write_eof \/ ~p.conn.upstream))
  <2>1. DownstreamFlushCb(p) = p
    BY <1>1 DEF DownstreamFlushCb
  <2> QED
    BY <2>1, SoundSame, CalmSame
<1>2. CASE DownOutputEmpty(p) /\ (p.conn.pending_write_eof \/ ~p.conn.upstream)
  <2>1. /\ DownstreamFlushCb(p) \in {p, q, r}
        /\ DownstreamFlushCb(p) = r => q.conn.read_eof \/ r \in {p, q}
    BY DEF DownstreamFlushCb
  <2>2. /\ q \in LinkRecs /\ q.event = p.event /\ q.crash = p.crash
        /\ q.taken = p.taken /\ q.sent = p.sent /\ q.got = p.got /\ q.given = p.given
        /\ q.shut_up = p.shut_up /\ q.shut_down = p.shut_down
        /\ q.ckt = p.ckt
        /\ q.conn = [p.conn EXCEPT !.write_eof = TRUE]
    BY <1>0 DEF LinkRecs, ConnRecs
  <2> HIDE DEF q
  <2>3. /\ q.conn.upstream = p.conn.upstream
        /\ q.conn.st = p.conn.st /\ q.conn.enabled = p.conn.enabled
        /\ q.conn.connected = p.conn.connected /\ q.conn.failed = p.conn.failed
        /\ q.conn.write_eof = TRUE /\ q.conn.read_eof = p.conn.read_eof
        /\ q.conn.pending_write_eof = p.conn.pending_write_eof
    BY <1>0, <2>2 DEF ConnRecs
  <2>4. Sound(p, q) /\ Calm(p, q) /\ Whence(p, q) /\ (Agree(p) => Agree(q))
    BY <2>2, <2>3 DEF Sound, Agree, Waits, Calm, Whence
  <2>5. ASSUME NEW ps, NEW w, NEW wo, NEW e, NEW eo, Data(p, ps, w, wo, e, eo),
               p.conn.upstream \/ EndRead(p, w, e), p.conn.st = "open"
        PROVE  Data(q, ps, w, wo, e, eo)
    <3>1. EndRead(p, w, e) /\ p.sent = p.taken
      BY <2>5, <1>2 DEF Data, DownOutputEmpty
    <3> QED
      BY <3>1, <2>2, <2>3, <2>5 DEF Data, EndRead, EndSeen
  <2>6. /\ Sound(q, r) /\ r.conn.st = "closed"
        /\ q.conn.st = "open" /\ Agree(q) /\ q.ckt.upbuf => Calm(q, r)
        /\ \A ps, w, wo, e, eo :
              /\ Data(q, ps, w, wo, e, eo) /\ Agree(q) /\ q.conn.st = "open"
              /\ q.conn.write_eof /\ EndSeen(q, wo, eo)
              => Data(r, ps, w, wo, e, eo)
    BY <2>2, <2>3, NullConnCloseFits
  <2> HIDE DEF r
  <2>7. Sound(p, r)
    BY <2>4, <2>6, SoundTrans
  <2>8. p.conn.st = "open" /\ Agree(p) /\ p.ckt.upbuf => Calm(p, r) /\ Whence(p, r)
    BY <2>2, <2>3, <2>4, <2>6, CalmTrans DEF Whence
  <2>9. ASSUME NEW ps, NEW w, NEW wo, NEW e, NEW eo, Data(p, ps, w, wo, e, eo),
               Agree(p), p.conn.st = "open", p.conn.upstream \/ EndRead(p, w, e),
               q.conn.read_eof
        PROVE  Data(r, ps, w, wo, e, eo)
    <3>1. Data(q, ps, w, wo, e, eo)
      BY <2>9, <2>5
    <3>2. EndSeen(q, wo, eo)
      BY <3>1, <2>9 DEF Data
    <3> QED
      BY <3>1, <3>2, <2>9, <2>3, <2>4, <2>6
  <2>10. CASE DownstreamFlushCb(p) = p
    BY <2>10, SoundSame, CalmSame
  <2>11. CASE DownstreamFlushCb(p) = q
    BY <2>11, <2>4, <2>5
  <2>12. CASE DownstreamFlushCb(p) = r /\ q.conn.read_eof
    BY <2>12, <2>7, <2>8, <2>9
  <2> QED
    BY <2>1, <2>10, <2>11, <2>12
<1> QED
  BY <1>1, <1>2

LEMMA NullSendEofFits ==
    ASSUME NEW p \in LinkRecs, p.ckt.downstream = p.conn.upstream
    PROVE  /\ SameShape(p, NullSendEof(p)) /\ Calm(p, NullSendEof(p))
           /\ NullSendEof(p).ckt.socks = p.ckt.socks
           /\ \A ps, w, wo, e, eo :
                 Data(p, ps, w, wo, e, eo) /\ Agree(p) /\ EndRead(p, w, e)
                    => Data(NullSendEof(p), ps, w, wo, e, eo)
<1> DEFINE z == NullSendEof(p)
<1>0. p.ckt \in CktRecs /\ p.conn \in ConnRecs
  BY LinkFields
<1>1. PICK c \in ConnRecs, d \in BOOLEAN :
         /\ z = [p EXCEPT !.conn = c, !.shut_down = d, !.ckt = [p.ckt EXCEPT !.read_eof = TRUE]]
         /\ c.upstream = p.conn.upstream /\ c.st = p.conn.st /\ c.enabled = p.conn.enabled
         /\ c.connected = p.conn.connected /\ c.failed = p.conn.failed
         /\ c.read_eof = p.conn.read_eof
         /\ \/ c.write_eof = p.conn.write_eof /\ d = p.shut_down
            \/ DownOutputEmpty(p) /\ p.conn.upstream
  <2>1. CASE ~p.ckt.downstream
    <3>1. z = [p EXCEPT !.ckt.read_eof = TRUE]
      BY <2>1 DEF NullSendEof
    <3>2. [p EXCEPT !.ckt.read_eof = TRUE]
           = [p EXCEPT !.conn = p.conn, !.shut_down = p.shut_down,
                       !.ckt = [p.ckt EXCEPT !.read_eof = TRUE]]
      BY DEF LinkRecs
    <3> QED
      BY <1>0, <3>1, <3>2, LinkFields
  <2>2. CASE p.ckt.downstream
    <3> DEFINE c1 == [p.conn EXCEPT !.pending_write_eof = TRUE]
               c2 == [c1 EXCEPT !.write_eof = TRUE]
    <3>1. c1 \in ConnRecs /\ c2 \in ConnRecs
      BY <1>0 DEF ConnRecs
    <3>2. CASE ~(DownOutputEmpty(p) /\ ~p.conn.write_eof)
      <4>1. z = [p EXCEPT !.conn = c1, !.shut_down = p.shut_down,
                          !.ckt = [p.ckt EXCEPT !.read_eof = TRUE]]
        BY <2>2, <3>2 DEF NullSendEof, ConnSendEof, LinkRecs
      <4>2. /\ c1.upstream = p.conn.upstream /\ c1.st = p.conn.st
            /\ c1.enabled = p.conn.enabled
            /\ c1.connected = p.conn.connected /\ c1.failed = p.conn.failed
            /\ c1.read_eof = p.conn.read_eof /\ c1.write_eof = p.conn.write_eof
        BY <1>0 DEF ConnRecs
      <4> QED
        BY <3>1, <4>1, <4>2, LinkFields
    <3>3. CASE DownOutputEmpty(p) /\ ~p.conn.write_eof
      <4>1. z = [p EXCEPT !.conn = c2, !.shut_down = TRUE,
                          !.ckt = [p.ckt EXCEPT !.read_eof = TRUE]]
        BY <2>2, <3>3, <1>0 DEF NullSendEof, ConnSendEof, LinkRecs
      <4>2. /\ c2.upstream = p.conn.upstream /\ c2.st = p.conn.st
            /\ c2.enabled = p.conn.enabled
            /\ c2.connected = p.conn.connected /\ c2.failed = p.conn.failed
            /\ c2.read_eof = p.conn.read_eof
        BY <1>0 DEF ConnRecs
      <4> QED
        BY <2>2, <3>1, <3>3, <4>1, <4>2
    <3> QED
      BY <3>2, <3>3
  <2> QED
    BY <2>1, <2>2
<1> HIDE DEF z
<1>2. [p.ckt EXCEPT !.read_eof = TRUE] \in CktRecs
  BY <1>0 DEF CktRecs
<1>3. /\ z \in LinkRecs /\ z.event = p.event /\ z.crash = p.crash
      /\ z.taken = p.taken /\ z.sent = p.sent /\ z.got = p.got /\ z.given = p.given
      /\ z.shut_up = p.shut_up /\ z.shut_down = d
      /\ z.conn = c
      /\ z.ckt = [p.ckt EXCEPT !.read_eof = TRUE]
  BY <1>1, <1>2 DEF LinkRecs
<1>4. /\ z.ckt.downstream = p.ckt.downstream
      /\ z.ckt.st = p.ckt.st /\ z.ckt.enabled = p.ckt.enabled /\ z.ckt.socks = p.ckt.socks
      /\ z.ckt.upbuf = p.ckt.upbuf /\ z.ckt.read_eof = TRUE
      /\ z.ckt.write_eof = p.ckt.write_eof
      /\ z.ckt.pending_write_eof = p.ckt.pending_write_eof
  BY <1>0, <1>3 DEF CktRecs
<1>5. SameShape(p, z) /\ Calm(p, z)
  BY <1>1, <1>3, <1>4 DEF SameShape, Calm
<1>6. ASSUME NEW ps, NEW w, NEW wo, NEW e, NEW eo, Data(p, ps, w, wo, e, eo), Agree(p),
             EndRead(p, w, e)
      PROVE  Data(z, ps, w, wo, e, eo)
  <2>1. CASE c.write_eof = p.conn.write_eof /\ d = p.shut_down
    BY ZenonT(60), <2>1, <1>1, <1>3, <1>4, <1>6 DEF Data, EndRead, EndSeen
  <2>2. CASE DownOutputEmpty(p) /\ p.conn.upstream
    <3>1. z.conn.st = "open"
      BY <2>2, <1>1, <1>3, <1>6 DEF Agree
    <3> QED
      BY <2>2, <3>1, <1>1, <1>3, <1>4, <1>6 DEF Data, EndRead, EndSeen, DownOutputEmpty
  <2> QED
    BY <1>1, <2>1, <2>2
<1> QED
  BY <1>4, <1>5, <1>6 DEF z

LEMMA CircuitRecvEofFits ==
    ASSUME NEW p \in LinkRecs
    PROVE  /\ SameShape(p, CircuitRecvEof(p)) /\ Calm(p, CircuitRecvEof(p))
           /\ CircuitRecvEof(p).conn = p.conn
           /\ \A ps, w, wo, e, eo :
                 Data(p, ps, w, wo, e, eo) /\ EndSeen(p, wo, eo)
                    => Data(CircuitRecvEof(p), ps, w, wo, e, eo)
<1> DEFINE z == CircuitRecvEof(p)
           c1 == [p.ckt EXCEPT !.pending_write_eof = TRUE]
           c2 == [c1 EXCEPT !.write_eof = TRUE]
<1>0. p.ckt \in CktRecs /\ p.conn \in ConnRecs
  BY LinkFields
<1>1. c1 \in CktRecs /\ c2 \in CktRecs
  BY <1>0 DEF CktRecs
<1>2. \A c \in {c1, c2} :
        /\ c.downstream = p.ckt.downstream
        /\ c.st = p.ckt.st /\ c.enabled = p.ckt.enabled /\ c.socks = p.ckt.socks
        /\ c.upbuf = p.ckt.upbuf /\ c.read_eof = p.ckt.read_eof
  BY <1>0 DEF CktRecs
<1>3. c1.write_eof = p.ckt.write_eof /\ c2.write_eof = TRUE
  BY <1>0 DEF CktRecs
<1>4. PICK d \in BOOLEAN, c \in {c1, c2} :
         /\ z = [p EXCEPT !.ckt = c, !.shut_up = d]
         /\ (d = p.shut_up /\ c = c1) \/ UpOutputEmpty(p)
  <2>1. CASE ~p.ckt.upbuf \/ ~p.ckt.connected \/ ~UpOutputEmpty(p)
    <3>1. z = [p EXCEPT !.ckt = c1, !.shut_up = p.shut_up]
      BY <2>1 DEF CircuitRecvEof, LinkRecs
    <3> QED
      BY <3>1, LinkFields
  <2>2. CASE ~(~p.ckt.upbuf \/ ~p.ckt.connected \/ ~UpOutputEmpty(p))
    <3>1. z = [p EXCEPT !.ckt = c2, !.shut_up = TRUE]
      BY <2>2, <1>0 DEF CircuitRecvEof, LinkRecs
    <3> QED
      BY <3>1, <2>2
  <2> QED
    BY <2>1, <2>2
<1> HIDE DEF z, c1, c2
<1>5. /\ z \in LinkRecs /\ z.event = p.event /\ z.crash = p.crash
      /\ z.taken = p.taken /\ z.sent = p.sent /\ z.got = p.got /\ z.given = p.given
      /\ z.shut_up = d /\ z.shut_down = p.shut_down
      /\ z.conn = p.conn /\ z.ckt = c
  BY <1>1, <1>4 DEF LinkRecs
<1>6. SameShape(p, z) /\ Calm(p, z)
  BY <1>2, <1>4, <1>5 DEF SameShape, Calm
<1>7. ASSUME NEW ps, NEW w, NEW wo, NEW e, NEW eo, Data(p, ps, w, wo, e, eo),
             EndSeen(p, wo, eo)
      PROVE  Data(z, ps, w, wo, e, eo)
  <2>1. CASE d = p.shut_up /\ c = c1
    BY <2>1, <1>2, <1>3, <1>5, <1>7 DEF Data, EndRead, EndSeen
  <2>2. CASE UpOutputEmpty(p)
    BY <2>2, <1>2, <1>3, <1>4, <1>5, <1>7 DEF Data, EndRead, EndSeen, UpOutputEmpty
  <2> QED
    BY <1>4, <2>1, <2>2
<1> QED
  BY <1>5, <1>6, <1>7 DEF z

LEMMA CircuitSendEofFits ==
    ASSUME NEW p \in LinkRecs, p.ckt.downstream = p.conn.upstream
    PROVE  /\ Sound(p, CircuitSendEof(p))
           /\ CircuitSendEof(p).ckt.downstream = CircuitSendEof(p).conn.upstream
           /\ p.ckt.st = "open" /\ Agree(p) =>
                 /\ Calm(p, CircuitSendEof(p)) /\ Whence(p, CircuitSendEof(p))
                 /\ Agree(CircuitSendEof(p))
           /\ \A ps, w, wo, e, eo :
                 /\ Data(p, ps, w, wo, e, eo) /\ Agree(p) /\ EndRead(p, w, e)
                 /\ p.ckt.socks = "no" \/ p.conn.st = "none"
                 => Data(CircuitSendEof(p), ps, w, wo, e, eo)
<1>1. CASE p.ckt.socks # "no"
  <2>1. CircuitSendEof(p) = NullCircuitClose(p)
    BY <1>1 DEF CircuitSendEof
  <2> DEFINE z == NullCircuitClose(p)
  <2>2. /\ Sound(p, z) /\ z.ckt.downstream = FALSE /\ z.conn.upstream = FALSE
        /\ z.ckt.st = "closed"
        /\ p.ckt.st = "open" /\ Agree(p) => Calm(p, z)
        /\ \A ps, w, wo, e, eo :
              Data(p, ps, w, wo, e, eo) /\ Agree(p) /\ p.conn.st = "none"
                 => Data(z, ps, w, wo, e, eo)
    BY NullCircuitCloseFits
  <2> HIDE DEF z
  <2>3. Agree(z) /\ Whence(p, z)
    BY <2>2 DEF Agree, Whence
  <2> QED
    BY <1>1, <2>1, <2>2, <2>3 DEF z
<1>2. CASE p.ckt.socks = "no"
  <2>1. CircuitSendEof(p) = NullSendEof(p)
    BY <1>2 DEF CircuitSendEof
  <2> DEFINE z == NullSendEof(p)
  <2>2. /\ SameShape(p, z) /\ Calm(p, z)
        /\ \A ps, w, wo, e, eo :
              Data(p, ps, w, wo, e, eo) /\ Agree(p) /\ EndRead(p, w, e)
                 => Data(z, ps, w, wo, e, eo)
    BY NullSendEofFits
  <2> HIDE DEF z
  <2>3. Sound(p, z) /\ Whence(p, z) /\ (Agree(p) => Agree(z))
        /\ z.ckt.downstream = z.conn.upstream
    BY <2>2, ShapeSound DEF SameShape, Whence, Agree
  <2> QED
    BY <2>1, <2>2, <2>3 DEF z
<1> QED
  BY <1>1, <1>2

-----------------------------------------------------------------------------
(***************************************************************************)
(* The inductive invariant.                                                *)
(***************************************************************************)
\* A process: it sees to its closed circuits, and ends with nothing left.
ProcInv ==
    \A s \in Sides :
        /\ Running(s) /\ Waiting(s) # {} => proc[s].cleanup
        /\ proc[s].shutting_down => ~proc[s].listening
        /\ proc[s].run \in {"exiting", "exited"} => proc[s].shutting_down
        /\ proc[s].crash # "no" => proc[s].run = "crashed"

\* A stream at a side.
LinkInv ==
    \A s \in Sides, k \in Streams :
        LET p == link[s][k]
        IN  /\ p.event = FALSE
            /\ proc[s].run # "crashed" => p.crash = "no" /\ Agree(p)
            /\ proc[s].run \in {"exiting", "exited"} =>
                  p.ckt.st \in {"none", "deleted"} /\ p.conn.st \in {"none", "deleted"}

\* Who closed what, and what the SOCKS handshake is waiting for.
Form(s, p) ==
    /\ p.ckt.st = "none" => p = NoLink
    /\ s = "server" /\ p.conn.st = "none" => p = NoLink
    /\ p.conn.st = "open" /\ ~p.conn.upstream => p.ckt.st \in Over
    /\ p.ckt.st = "open" /\ ~p.ckt.downstream /\ p.crash = "no" =>
          p.conn.st \in Over \/ (p.conn.st = "none" /\ p.ckt.socks = "wait")
    /\ p.ckt.socks = "wait" => p.conn.st = "none"
    /\ p.ckt.socks # "sent"
    /\ p.ckt.socks = "have" => p.ckt.enabled = {}
    /\ s = "server" => p.ckt.socks = "no" /\ (p.conn.st # "none" => p.conn.connected)
    /\ s = "client" /\ Connecting(p) =>
          /\ p.conn.upstream /\ ~p.conn.write_eof
          /\ p.ckt.enabled = {} /\ p.conn.enabled = {}

\* A stream that nothing has broken, at one side.
Fits(s, p, ps, w, wo, e, eo) ==
    Form(s, p) /\ (p.ckt.st = "none" \/ Data(p, ps, w, wo, e, eo))

WholeInv ==
    \A k \in Streams : broken[k] \/ \A s \in Sides :
        Fits(s, link[s][k], link[Other(s)][k].sent, wrote[s][k], wrote[Other(s)][k],
             ended[s][k], ended[Other(s)][k])

ModeInv ==
    mode = "simple" =>
        \A s \in Sides, k \in Streams : broken[k] \/ link[s][k].ckt.socks = "no"

RelayInv == TypeOK /\ ProcInv /\ LinkInv /\ WholeInv /\ ModeInv /\ CrashNeedsError

-----------------------------------------------------------------------------
(***************************************************************************)
(* One callback of one process.                                            *)
(***************************************************************************)
LEMMA SideFacts == \A s \in Sides : Other(s) \in Sides /\ Other(s) # s /\ Other(Other(s)) = s
BY DEF Sides, Other

\* What of a stream's record the invariant reads is not its wish to be collected.
LEMMA EventCleared ==
    ASSUME NEW q \in LinkRecs
    PROVE  LET z == [q EXCEPT !.event = FALSE]
           IN  /\ z \in LinkRecs /\ z.event = FALSE /\ z.crash = q.crash
               /\ z.sent = q.sent /\ z.ckt = q.ckt /\ z.conn = q.conn
               /\ z.taken = q.taken /\ z.got = q.got /\ z.given = q.given
               /\ z.shut_up = q.shut_up /\ z.shut_down = q.shut_down
               /\ q = NoLink => z = NoLink
<1> DEFINE z == [q EXCEPT !.event = FALSE]
<1>1. /\ z \in LinkRecs /\ z.event = FALSE /\ z.crash = q.crash
      /\ z.sent = q.sent /\ z.ckt = q.ckt /\ z.conn = q.conn
      /\ z.taken = q.taken /\ z.got = q.got /\ z.given = q.given
      /\ z.shut_up = q.shut_up /\ z.shut_down = q.shut_down
  BY DEF LinkRecs
<1>2. q = NoLink => z = NoLink
  <2> HIDE DEF z
  <2> SUFFICES ASSUME q = NoLink PROVE z = q
    OBVIOUS
  <2>1. q.event = FALSE
    BY DEF NoLink
  <2> QED
    BY <2>1 DEF LinkRecs, z
<1> QED
  BY <1>1, <1>2

LEMMA EventClearedFits ==
    ASSUME NEW q \in LinkRecs, NEW s, NEW ps, NEW w, NEW wo, NEW e, NEW eo,
           Fits(s, q, ps, w, wo, e, eo)
    PROVE  Fits(s, [q EXCEPT !.event = FALSE], ps, w, wo, e, eo)
<1> DEFINE z == [q EXCEPT !.event = FALSE]
<1>1. /\ z \in LinkRecs /\ z.event = FALSE /\ z.crash = q.crash
      /\ z.sent = q.sent /\ z.ckt = q.ckt /\ z.conn = q.conn
      /\ z.taken = q.taken /\ z.got = q.got /\ z.given = q.given
      /\ z.shut_up = q.shut_up /\ z.shut_down = q.shut_down
      /\ q = NoLink => z = NoLink
  BY EventCleared
<1> HIDE DEF z
<1>2. Form(s, z)
  BY <1>1 DEF Fits, Form, Connecting
<1>3. q.ckt.st = "none" \/ Data(z, ps, w, wo, e, eo)
  BY <1>1 DEF Fits, Data, EndRead, EndSeen
<1> QED
  BY <1>1, <1>2, <1>3 DEF Fits, z

LEMMA MoreSentFits ==
    ASSUME NEW p \in LinkRecs, NEW s, NEW ps \in Nat, NEW w, NEW wo, NEW e, NEW eo,
           Fits(s, p, ps, w, wo, e, eo), NEW qs \in Nat, ps <= qs
    PROVE  Fits(s, p, qs, w, wo, e, eo)
<1>1. p.got \in Nat
  BY LinkFields
<1> QED
  BY <1>1 DEF Fits, Data

LEMMA LinkType ==
    ASSUME TypeOK, NEW s \in Sides, NEW k \in Streams
    PROVE  /\ link[s][k] \in LinkRecs /\ wrote[s][k] \in Nat /\ ended[s][k] \in BOOLEAN
           /\ broken[k] \in BOOLEAN /\ proc[s] \in ProcRecs
BY DEF TypeOK

LEMMA AfterLink ==
    ASSUME TypeOK, NEW s \in Sides, NEW k \in Streams, NEW q \in LinkRecs,
           NEW hit \in BOOLEAN, After(s, k, q, hit)
    PROVE  /\ link'[s][k] = [q EXCEPT !.event = FALSE]
           /\ \A t \in Sides, j \in Streams : t # s \/ j # k => link'[t][j] = link[t][j]
           /\ \A t \in Sides : t # s => proc'[t] = proc[t]
           /\ q.crash # "no" => proc'[s].run = "crashed" /\ proc'[s].crash = q.crash
           /\ q.crash = "no" =>
                 /\ proc'[s].run = proc[s].run /\ proc'[s].crash = proc[s].crash
                 /\ proc'[s].cleanup = (proc[s].cleanup \/ (q.event /\ Waiting(s) \ {k} = {}))
           /\ proc'[s].shutting_down = proc[s].shutting_down
           /\ proc'[s].listening = proc[s].listening
           /\ proc'[s].asked = proc[s].asked
           /\ broken'[k] = (broken[k] \/ hit)
           /\ \A j \in Streams : j # k => broken'[j] = broken[j]
           /\ TypeOK'
<1> USE DEF After
<1>1. [q EXCEPT !.event = FALSE] \in LinkRecs
  BY EventCleared
<1>2. /\ link'[s][k] = [q EXCEPT !.event = FALSE]
      /\ \A t \in Sides, j \in Streams : t # s \/ j # k => link'[t][j] = link[t][j]
      /\ link' \in [Sides -> [Streams -> LinkRecs]]
  BY <1>1 DEF TypeOK
<1>3. proc[s] \in ProcRecs /\ q.crash \in Crashes
  BY LinkType, LinkFields
<1>4. CASE q.crash # "no"
  <2>1. proc' = [proc EXCEPT ![s] = [proc[s] EXCEPT !.run = "crashed", !.crash = q.crash]]
    BY <1>4
  <2>2. [proc[s] EXCEPT !.run = "crashed", !.crash = q.crash] \in ProcRecs
    BY <1>3 DEF ProcRecs
  <2>3. /\ proc' \in [Sides -> ProcRecs] /\ \A t \in Sides : t # s => proc'[t] = proc[t]
        /\ proc'[s] = [proc[s] EXCEPT !.run = "crashed", !.crash = q.crash]
    BY <2>1, <2>2 DEF TypeOK
  <2>4. /\ proc'[s].run = "crashed" /\ proc'[s].crash = q.crash
        /\ proc'[s].shutting_down = proc[s].shutting_down
        /\ proc'[s].listening = proc[s].listening /\ proc'[s].asked = proc[s].asked
    BY <1>3, <2>3 DEF ProcRecs
  <2>5. /\ broken' \in [Streams -> BOOLEAN] /\ broken'[k] = (broken[k] \/ hit)
        /\ \A j \in Streams : j # k => broken'[j] = broken[j]
    BY DEF TypeOK
  <2> QED
    BY <1>2, <1>4, <2>3, <2>4, <2>5 DEF TypeOK
<1>5. CASE q.crash = "no"
  <2> DEFINE c == proc[s].cleanup \/ (q.event /\ Waiting(s) \ {k} = {})
  <2>1. proc' = [proc EXCEPT ![s] = [proc[s] EXCEPT !.cleanup = c]]
    BY <1>5
  <2>2. c \in BOOLEAN
    OBVIOUS
  <2> HIDE DEF c
  <2>3. [proc[s] EXCEPT !.cleanup = c] \in ProcRecs
    BY <1>3, <2>2 DEF ProcRecs
  <2>4. /\ proc' \in [Sides -> ProcRecs] /\ \A t \in Sides : t # s => proc'[t] = proc[t]
        /\ proc'[s] = [proc[s] EXCEPT !.cleanup = c]
    BY <2>1, <2>3 DEF TypeOK
  <2>5. /\ proc'[s].run = proc[s].run /\ proc'[s].crash = proc[s].crash
        /\ proc'[s].shutting_down = proc[s].shutting_down /\ proc'[s].cleanup = c
        /\ proc'[s].listening = proc[s].listening /\ proc'[s].asked = proc[s].asked
    BY <1>3, <2>4 DEF ProcRecs
  <2>6. /\ broken' \in [Streams -> BOOLEAN] /\ broken'[k] = (broken[k] \/ hit)
        /\ \A j \in Streams : j # k => broken'[j] = broken[j]
    BY DEF TypeOK
  <2> QED
    BY <1>2, <1>5, <2>4, <2>5, <2>6 DEF TypeOK, c
<1> QED
  BY <1>4, <1>5

\* What a callback has to show.
LEMMA Turn ==
    ASSUME RelayInv, NEW s \in Sides, NEW k \in Streams, NEW q, NEW hit \in BOOLEAN,
           proc[s].run = "running", After(s, k, q, hit), Sound(link[s][k], q),
           \/ hit \/ broken[k]
           \/ /\ Fits(s, q, link[Other(s)][k].sent, wrote[s][k], wrote[Other(s)][k],
                      ended[s][k], ended[Other(s)][k])
              /\ link[s][k].sent <= q.sent
              /\ q.crash = "no" \/ proc[s].shutting_down
              /\ mode = "simple" => q.ckt.socks = "no"
    PROVE  RelayInv'
<1> DEFINE p == link[s][k]
           z == [q EXCEPT !.event = FALSE]
<1>0. TypeOK /\ ProcInv /\ LinkInv /\ WholeInv /\ ModeInv /\ CrashNeedsError
  BY DEF RelayInv
<1>1. p \in LinkRecs /\ q \in LinkRecs /\ q.event \in BOOLEAN
  BY <1>0, LinkType, LinkFields DEF Sound
<1>2. /\ z \in LinkRecs /\ z.event = FALSE /\ z.crash = q.crash
      /\ z.sent = q.sent /\ z.ckt = q.ckt /\ z.conn = q.conn
  BY <1>1, EventCleared
<1>3. /\ link'[s][k] = z
      /\ \A t \in Sides, j \in Streams : t # s \/ j # k => link'[t][j] = link[t][j]
      /\ \A t \in Sides : t # s => proc'[t] = proc[t]
      /\ q.crash # "no" => proc'[s].run = "crashed" /\ proc'[s].crash = q.crash
      /\ q.crash = "no" =>
            /\ proc'[s].run = proc[s].run /\ proc'[s].crash = proc[s].crash
            /\ proc'[s].cleanup = (proc[s].cleanup \/ (q.event /\ Waiting(s) \ {k} = {}))
      /\ proc'[s].shutting_down = proc[s].shutting_down
      /\ proc'[s].listening = proc[s].listening
      /\ broken'[k] = (broken[k] \/ hit)
      /\ \A j \in Streams : j # k => broken'[j] = broken[j]
      /\ TypeOK'
  BY <1>0, <1>1, AfterLink
<1>4. wrote' = wrote /\ ended' = ended /\ mode' = mode
  BY DEF After
<1> HIDE DEF z, p
<1>5. p.event = FALSE /\ p.crash = "no" /\ Agree(p)
  BY <1>0 DEF LinkInv, p
<1>6. ProcInv'
  <2> SUFFICES ASSUME NEW t \in Sides
               PROVE  /\ Running(t)' /\ Waiting(t)' # {} => proc'[t].cleanup
                      /\ proc'[t].shutting_down => ~proc'[t].listening
                      /\ proc'[t].run \in {"exiting", "exited"} => proc'[t].shutting_down
                      /\ proc'[t].crash # "no" => proc'[t].run = "crashed"
    BY DEF ProcInv
  <2>1. CASE t # s
    <3>1. proc'[t] = proc[t] /\ Waiting(t)' = Waiting(t)
      BY <2>1, <1>3 DEF Waiting
    <3>2. Running(t)' = Running(t)
      BY <3>1 DEF Running
    <3> QED
      BY <3>1, <3>2, <1>0 DEF ProcInv
  <2>2. CASE t = s
    <3>1. ASSUME Running(s)', Waiting(s)' # {}
          PROVE  proc'[s].cleanup
      <4>1. q.crash = "no"
        BY <3>1, <1>3 DEF Running
      <4>2. PICK j \in Streams : Waits(link'[s][j])
        BY <3>1 DEF Waiting, Waits
      <4>3. Waiting(s) # {} => proc[s].cleanup
        BY <1>0 DEF ProcInv, Running
      <4>4. CASE j # k
        <5>1. j \in Waiting(s)
          BY <4>2, <4>4, <1>3 DEF Waiting, Waits
        <5> QED
          BY <5>1, <4>1, <4>3, <1>3
      <4>5. CASE j = k
        <5>1. Waits(q)
          BY <4>2, <4>5, <1>2, <1>3 DEF Waits
        <5>2. Waits(p) \/ q.event
          BY <5>1 DEF Sound, p
        <5>3. Waits(p) => k \in Waiting(s)
          BY DEF Waits, Waiting, p
        <5>4. Waiting(s) = {} => Waiting(s) \ {k} = {}
          OBVIOUS
        <5> QED
          BY <5>2, <5>3, <5>4, <4>1, <4>3, <1>3
      <4> QED
        BY <4>4, <4>5
    <3> QED
      BY <2>2, <3>1, <1>0, <1>3 DEF ProcInv
  <2> QED
    BY <2>1, <2>2
<1>7. LinkInv'
  <2> SUFFICES ASSUME NEW t \in Sides, NEW j \in Streams
               PROVE  /\ link'[t][j].event = FALSE
                      /\ proc'[t].run # "crashed" =>
                            link'[t][j].crash = "no" /\ Agree(link'[t][j])
                      /\ proc'[t].run \in {"exiting", "exited"} =>
                            /\ link'[t][j].ckt.st \in {"none", "deleted"}
                            /\ link'[t][j].conn.st \in {"none", "deleted"}
    BY DEF LinkInv
  <2>1. CASE t # s
    BY <2>1, <1>0, <1>3 DEF LinkInv
  <2>2. CASE t = s /\ j # k
    BY <2>2, <1>0, <1>3 DEF LinkInv
  <2>3. CASE t = s /\ j = k
    <3>1. q.crash = "no" => Agree(q)
      BY <1>5 DEF Sound, p
    <3>2. Agree(q) => Agree(z)
      BY <1>2 DEF Agree
    <3> QED
      BY <2>3, <3>1, <3>2, <1>2, <1>3
  <2> QED
    BY <2>1, <2>2, <2>3
<1>8. WholeInv'
  <2> SUFFICES ASSUME NEW j \in Streams, ~broken'[j], NEW t \in Sides
               PROVE  Fits(t, link'[t][j], link'[Other(t)][j].sent, wrote[t][j],
                           wrote[Other(t)][j], ended[t][j], ended[Other(t)][j])
    BY <1>4 DEF WholeInv
  <2>0. Other(t) \in Sides /\ Other(t) # t /\ Other(Other(t)) = t
    BY SideFacts
  <2>1. ~broken[j] /\ Fits(t, link[t][j], link[Other(t)][j].sent, wrote[t][j],
                           wrote[Other(t)][j], ended[t][j], ended[Other(t)][j])
    BY <1>0, <1>3 DEF WholeInv
  <2>2. CASE j # k
    BY <2>0, <2>1, <2>2, <1>3
  <2>3. CASE j = k /\ t = s
    <3>1. Fits(s, q, link[Other(s)][k].sent, wrote[s][k], wrote[Other(s)][k],
               ended[s][k], ended[Other(s)][k])
      BY <2>3, <1>3
    <3>2. Fits(s, z, link[Other(s)][k].sent, wrote[s][k], wrote[Other(s)][k],
               ended[s][k], ended[Other(s)][k])
      BY <3>1, <1>1, EventClearedFits DEF z
    <3> QED
      BY <2>0, <2>3, <3>2, <1>3
  <2>4. CASE j = k /\ t # s
    <3>1. Other(t) = s
      BY <2>4 DEF Sides, Other
    <3>2. link[s][k].sent <= q.sent /\ link'[Other(t)][k].sent = q.sent
      BY <2>4, <3>1, <1>2, <1>3
    <3>3. link[s][k].sent \in Nat /\ q.sent \in Nat /\ link[t][k] \in LinkRecs
      BY <1>0, <1>1, LinkFields, LinkType DEF p
    <3>4. link'[t][k] = link[t][k]
      BY <2>4, <1>3
    <3> QED
      BY <2>1, <2>4, <3>1, <3>2, <3>3, <3>4, MoreSentFits
  <2> QED
    BY <2>2, <2>3, <2>4
<1>9. CrashNeedsError'
  <2> SUFFICES ASSUME NEW t \in Sides, proc'[t].crash # "no"
               PROVE  proc'[t].shutting_down \/ \E j \in Streams : broken'[j]
    BY DEF CrashNeedsError
  <2>1. \A j \in Streams : broken[j] => broken'[j]
    BY <1>3
  <2>2. CASE t # s \/ q.crash = "no"
    <3>1. proc'[t].crash = proc[t].crash /\ proc'[t].shutting_down = proc[t].shutting_down
      BY <2>2, <1>3
    <3> QED
      BY <2>1, <3>1, <1>0 DEF CrashNeedsError
  <2>3. CASE t = s /\ q.crash # "no"
    BY <2>3, <1>3
  <2> QED
    BY <2>2, <2>3
<1>10. ModeInv'
  <2> SUFFICES ASSUME mode = "simple", NEW t \in Sides, NEW j \in Streams, ~broken'[j]
               PROVE  link'[t][j].ckt.socks = "no"
    BY <1>4 DEF ModeInv
  <2>1. CASE t # s \/ j # k
    <3>1. ~broken[j] /\ link'[t][j] = link[t][j]
      BY <2>1, <1>3
    <3> QED
      BY <3>1, <1>0 DEF ModeInv
  <2>2. CASE t = s /\ j = k
    BY <2>2, <1>2, <1>3
  <2> QED
    BY <2>1, <2>2
<1> QED
  BY <1>3, <1>6, <1>7, <1>8, <1>9, <1>10 DEF RelayInv

\* The same for stream k at side s.
DataAt(s, k, q) ==
    Data(q, link[Other(s)][k].sent, wrote[s][k], wrote[Other(s)][k],
         ended[s][k], ended[Other(s)][k])

LEMMA Here ==
    ASSUME RelayInv, NEW s \in Sides, NEW k \in Streams, Running(s),
           \/ link[s][k].ckt.st \in {"open", "closed"}
           \/ link[s][k].conn.st \in {"open", "closed"}
    PROVE  /\ proc[s].run = "running"
           /\ link[s][k] \in LinkRecs /\ link[s][k].ckt \in CktRecs
           /\ link[s][k].conn \in ConnRecs /\ link[s][k].sent \in Nat
           /\ Agree(link[s][k]) /\ link[s][k].ckt.downstream = link[s][k].conn.upstream
           /\ link[s][k].crash = "no" /\ link[s][k].event = FALSE
           /\ wrote[s][k] \in Nat /\ wrote[Other(s)][k] \in Nat
           /\ link[Other(s)][k].sent \in Nat /\ broken[k] \in BOOLEAN
           /\ ~broken[k] => /\ DataAt(s, k, link[s][k]) /\ Form(s, link[s][k])
                            /\ link[s][k].ckt.st # "none"
                            /\ link[Other(s)][k].sent <= wrote[Other(s)][k]
<1>0. TypeOK /\ ProcInv /\ LinkInv /\ WholeInv
  BY DEF RelayInv
<1>1. proc[s].run = "running"
  BY <1>0 DEF LinkInv, Running
<1>2. Other(s) \in Sides
  BY SideFacts
<1>3. /\ link[s][k] \in LinkRecs /\ link[Other(s)][k] \in LinkRecs
      /\ wrote[s][k] \in Nat /\ wrote[Other(s)][k] \in Nat /\ broken[k] \in BOOLEAN
  BY <1>0, <1>2, LinkType
<1>4. link[s][k].crash = "no" /\ link[s][k].event = FALSE /\ Agree(link[s][k])
  BY <1>0, <1>1 DEF LinkInv
<1>5. ASSUME ~broken[k]
      PROVE  /\ DataAt(s, k, link[s][k]) /\ Form(s, link[s][k])
             /\ link[s][k].ckt.st # "none"
             /\ link[Other(s)][k].sent <= wrote[Other(s)][k]
  <2>1. /\ Fits(s, link[s][k], link[Other(s)][k].sent, wrote[s][k], wrote[Other(s)][k],
                ended[s][k], ended[Other(s)][k])
        /\ Fits(Other(s), link[Other(s)][k], link[s][k].sent, wrote[Other(s)][k],
                wrote[s][k], ended[Other(s)][k], ended[s][k])
    BY <1>0, <1>2, <1>5, SideFacts DEF WholeInv
  <2>2. link[s][k].ckt.st # "none"
    <3>1. link[s][k].ckt.st = "none" => link[s][k] = NoLink
      BY <2>1 DEF Fits, Form
    <3>2. NoLink.ckt.st = "none" /\ NoLink.conn.st = "none"
      BY DEF NoLink, NoCircuit, NoConn
    <3> QED
      BY <3>1, <3>2
  <2>3. link[Other(s)][k].sent <= wrote[Other(s)][k]
    <3>1. CASE link[Other(s)][k].ckt.st = "none"
      <4>1. link[Other(s)][k].sent = 0
        BY <2>1, <3>1 DEF Fits, Form, NoLink
      <4> QED
        BY <4>1, <1>3
    <3>2. CASE link[Other(s)][k].ckt.st # "none"
      <4>1. /\ link[Other(s)][k].sent <= link[Other(s)][k].taken
            /\ link[Other(s)][k].taken <= wrote[Other(s)][k]
        BY <2>1, <3>2 DEF Fits, Data
      <4> QED
        BY <4>1, <1>3, LinkFields
    <3> QED
      BY <3>1, <3>2
  <2> QED
    BY <2>1, <2>2, <2>3 DEF Fits, DataAt
<1>6. link[s][k].ckt.downstream = link[s][k].conn.upstream
  BY <1>4 DEF Agree
<1> QED
  BY <1>1, <1>3, <1>4, <1>5, <1>6, LinkFields

\* The part of Calm that Form needs.
Still(p, q) ==
    /\ q.ckt.socks = p.ckt.socks
    /\ q.conn.connected = p.conn.connected /\ q.conn.failed = p.conn.failed
    /\ q.ckt.enabled \subseteq p.ckt.enabled /\ q.conn.enabled \subseteq p.conn.enabled
    /\ q.ckt.st = p.ckt.st \/ (p.ckt.st = "open" /\ q.ckt.st = "closed")
    /\ q.conn.st = p.conn.st \/ (p.conn.st = "open" /\ q.conn.st = "closed")
    /\ Whence(p, q)

LEMMA CalmStill ==
    ASSUME NEW p, NEW q, Calm(p, q), Whence(p, q)
    PROVE  Still(p, q)
BY DEF Calm, Still

LEMMA StillTrans ==
    ASSUME NEW p, NEW q, NEW r, Still(p, q), Still(q, r)
    PROVE  Still(p, r)
BY DEF Still, Whence

LEMMA StillForm ==
    ASSUME NEW s, NEW p, NEW q, Form(s, p), Still(p, q), p.ckt.st # "none", p # NoLink,
           p.crash = "no", ~(s = "client" /\ Connecting(p))
    PROVE  Form(s, q)
<1>1. q.ckt.st # "none" /\ ~(s = "client" /\ Connecting(q))
  BY DEF Still, Connecting
<1>2. s = "server" => q.conn.st # "none"
  BY DEF Form, Still
<1>3. /\ q.conn.st = "open" /\ ~q.conn.upstream => q.ckt.st \in Over
      /\ q.ckt.st = "open" /\ ~q.ckt.downstream =>
          q.conn.st \in Over \/ (q.conn.st = "none" /\ q.ckt.socks = "wait")
  BY DEF Form, Still, Whence, Over
<1>4. /\ q.ckt.socks = "wait" => q.conn.st = "none"
      /\ q.ckt.socks # "sent"
      /\ q.ckt.socks = "have" => q.ckt.enabled = {}
      /\ s = "server" => q.ckt.socks = "no" /\ (q.conn.st # "none" => q.conn.connected)
  BY <1>2 DEF Form, Still
<1> QED
  BY <1>1, <1>2, <1>3, <1>4 DEF Form

\* A callback on an open stream that is not being connected.
LEMMA StillTurn ==
    ASSUME RelayInv, NEW s \in Sides, NEW k \in Streams, NEW q, proc[s].run = "running",
           Callback(s, k, q), Sound(link[s][k], q),
           \/ broken[k]
           \/ /\ DataAt(s, k, q) /\ Form(s, link[s][k]) /\ Still(link[s][k], q)
              /\ link[s][k].ckt.st # "none" /\ link[s][k].crash = "no"
              /\ ~(s = "client" /\ Connecting(link[s][k]))
              /\ link[s][k].sent <= q.sent /\ q.crash = "no"
    PROVE  RelayInv'
<1>1. After(s, k, q, FALSE)
  BY DEF Callback
<1>2. CASE broken[k]
  BY <1>1, <1>2, Turn
<1>3. CASE ~broken[k]
  <2>1. link[s][k] # NoLink
    BY <1>3 DEF NoLink, NoCircuit
  <2>2. Form(s, q)
    BY <1>3, <2>1, StillForm
  <2>3. Fits(s, q, link[Other(s)][k].sent, wrote[s][k], wrote[Other(s)][k],
             ended[s][k], ended[Other(s)][k])
    BY <1>3, <2>2 DEF Fits, DataAt
  <2>4. mode = "simple" => q.ckt.socks = "no"
    <3>1. mode = "simple" => link[s][k].ckt.socks = "no"
      BY <1>3 DEF RelayInv, ModeInv
    <3> QED
      BY <3>1, <1>3 DEF Still
  <2> QED
    BY <1>1, <1>3, <2>3, <2>4, Turn
<1> QED
  BY <1>2, <1>3

LEMMA ErrorTurn ==
    ASSUME RelayInv, NEW s \in Sides, NEW k \in Streams, NEW q, proc[s].run = "running",
           ErrorCallback(s, k, q), Sound(link[s][k], q)
    PROVE  RelayInv'
BY Turn DEF ErrorCallback

-----------------------------------------------------------------------------
(***************************************************************************)
(* Traffic.                                                                *)
(***************************************************************************)
LEMMA NullSendFits ==
    ASSUME NEW p \in LinkRecs, NEW n \in Nat
    PROVE  LET q == NullSend(p, n)
           IN  /\ SameShape(p, q)
               /\ p.ckt.downstream => /\ Still(p, q) /\ q.crash = p.crash /\ q.sent = p.sent
                                      /\ q.ckt = p.ckt /\ q.conn = p.conn
                                      /\ q.got = p.got
               /\ \A ps, w, wo, e, eo :
                     /\ Data(p, ps, w, wo, e, eo) /\ p.ckt.downstream
                     /\ w \in Nat /\ p.taken <= n /\ n <= w
                     => Data(q, ps, w, wo, e, eo)
<1> DEFINE q == NullSend(p, n)
           x == [p EXCEPT !.crash = "null_downstream"]
           y == [p EXCEPT !.taken = n]
<1>0. p.taken \in Nat /\ p.sent \in Nat
  BY LinkFields
<1>1. CASE ~p.ckt.downstream
  <2>1. q = x
    BY <1>1 DEF NullSend
  <2>2. /\ x \in LinkRecs /\ x.ckt = p.ckt /\ x.conn = p.conn /\ x.event = p.event
        /\ x.crash # "no"
    BY DEF LinkRecs, Crashes
  <2> QED
    BY <1>1, <2>1, <2>2 DEF SameShape
<1>2. CASE p.ckt.downstream
  <2>1. q = y
    BY <1>2 DEF NullSend
  <2>2. /\ y \in LinkRecs /\ y.ckt = p.ckt /\ y.conn = p.conn /\ y.event = p.event
        /\ y.crash = p.crash /\ y.taken = n /\ y.sent = p.sent /\ y.got = p.got
        /\ y.given = p.given /\ y.shut_up = p.shut_up /\ y.shut_down = p.shut_down
    BY DEF LinkRecs
  <2> HIDE DEF y
  <2>3. SameShape(p, y) /\ Still(p, y)
    BY <2>2 DEF SameShape, Still, Whence
  <2>4. ASSUME NEW ps, NEW w, NEW wo, NEW e, NEW eo, Data(p, ps, w, wo, e, eo),
               w \in Nat, p.taken <= n, n <= w
        PROVE  Data(y, ps, w, wo, e, eo)
    <3>1. EndRead(p, w, e) => n = p.taken
      BY <1>0, <2>4 DEF EndRead
    <3> QED
      BY <3>1, <1>0, <2>2, <2>4 DEF Data, EndRead, EndSeen
  <2> QED
    BY <2>1, <2>2, <2>3, <2>4
<1> QED
  BY <1>1, <1>2

LEMMA UpstreamReadTurn ==
    ASSUME RelayInv, NEW s \in Sides, NEW k \in Streams, UpstreamRead(s, k)
    PROVE  RelayInv'
<1> DEFINE p == link[s][k]
           q == NullSend(p, wrote[s][k])
<1>0. /\ Running(s) /\ p.ckt.st = "open" /\ p.ckt.socks = "no" /\ "read" \in p.ckt.enabled
      /\ wrote[s][k] > p.taken /\ Callback(s, k, q)
  BY DEF UpstreamRead
<1>1. /\ proc[s].run = "running" /\ p \in LinkRecs /\ p.crash = "no"
      /\ wrote[s][k] \in Nat
      /\ ~broken[k] => DataAt(s, k, p) /\ Form(s, p)
  BY <1>0, Here
<1>2. p.taken \in Nat /\ p.sent \in Nat
  BY <1>1, LinkFields
<1> HIDE DEF p, q
<1>3. Sound(p, q)
  BY <1>1, NullSendFits, ShapeSound DEF q
<1>4. ASSUME ~broken[k]
      PROVE  DataAt(s, k, q) /\ Still(p, q) /\ p.sent <= q.sent /\ q.crash = "no"
             /\ ~(s = "client" /\ Connecting(p))
  <2>1. p.ckt.downstream
    <3>1. p.conn.st \in Over => p.taken = wrote[s][k]
      BY <1>1, <1>4 DEF DataAt, Data, EndRead
    <3> QED
      BY <3>1, <1>0, <1>1, <1>2, <1>4 DEF Form
  <2>2. DataAt(s, k, q)
    BY <2>1, <1>0, <1>1, <1>2, <1>4, NullSendFits DEF DataAt, q
  <2>3. Still(p, q) /\ q.crash = "no" /\ q.sent = p.sent
    BY <2>1, <1>1, NullSendFits DEF q
  <2>4. ~(s = "client" /\ Connecting(p))
    BY <1>0, <1>1, <1>4 DEF Form
  <2> QED
    BY <2>2, <2>3, <2>4, <1>2
<1> QED
  BY <1>0, <1>1, <1>3, <1>4, StillTurn DEF p

LEMMA UpstreamEofTurn ==
    ASSUME RelayInv, NEW s \in Sides, NEW k \in Streams, UpstreamEof(s, k)
    PROVE  RelayInv'
<1> DEFINE o == link[s][k]
           p == [o EXCEPT !.ckt.enabled = @ \ {"read"}]
           q == CircuitSendEof(p)
           r == IF q.ckt.read_eof /\ q.ckt.write_eof THEN NullCircuitClose(q) ELSE q
<1>0. /\ Running(s) /\ p.ckt.st = "open" /\ "read" \in o.ckt.enabled /\ ended[s][k]
      /\ p.ckt.socks = "no" => wrote[s][k] = p.taken
      /\ Callback(s, k, r)
  BY DEF UpstreamEof
<1>1. o.ckt.st = "open" /\ o \in LinkRecs
  <2>1. o \in LinkRecs
    BY LinkType DEF RelayInv
  <2>2. o.ckt \in CktRecs
    BY <2>1, LinkFields
  <2> QED
    BY <2>1, <2>2, <1>0 DEF LinkRecs, CktRecs
<1>2. /\ proc[s].run = "running" /\ o.crash = "no" /\ Agree(o) /\ o.ckt \in CktRecs
      /\ o.ckt.downstream = o.conn.upstream /\ o.sent \in Nat
      /\ ~broken[k] => DataAt(s, k, o) /\ Form(s, o)
  BY <1>0, <1>1, Here
<1>3. /\ p \in LinkRecs /\ p.ckt.st = o.ckt.st /\ p.conn = o.conn /\ p.event = o.event
      /\ p.ckt.downstream = o.ckt.downstream /\ p.crash = o.crash
      /\ p.ckt.socks = o.ckt.socks /\ p.ckt.enabled \subseteq o.ckt.enabled
      /\ p.taken = o.taken /\ p.sent = o.sent /\ p.got = o.got /\ p.given = o.given
      /\ p.shut_up = o.shut_up /\ p.shut_down = o.shut_down
      /\ p.ckt.upbuf = o.ckt.upbuf /\ p.ckt.read_eof = o.ckt.read_eof
      /\ p.ckt.write_eof = o.ckt.write_eof
      /\ p.ckt.pending_write_eof = o.ckt.pending_write_eof
  BY <1>1, <1>2 DEF LinkRecs, CktRecs
<1> HIDE DEF o, p
<1>4. SameShape(o, p) /\ Still(o, p) /\ Agree(p) /\ p.ckt.downstream = p.conn.upstream
  BY <1>2, <1>3 DEF SameShape, Still, Whence, Agree
<1>5. /\ Sound(p, q) /\ q.ckt.downstream = q.conn.upstream
      /\ Calm(p, q) /\ Whence(p, q) /\ Agree(q)
  BY <1>0, <1>3, <1>4, CircuitSendEofFits
<1>6. q \in LinkRecs
  BY <1>5 DEF Sound
<1>7. q.ckt.st \in {"open", "closed"}
  BY <1>0, <1>5 DEF Calm
<1>8. ~broken[k] => DataAt(s, k, q)
  <2> SUFFICES ASSUME ~broken[k] PROVE DataAt(s, k, q)
    OBVIOUS
  <2>1. DataAt(s, k, p)
    BY <1>2, <1>3 DEF DataAt, Data, EndRead, EndSeen
  <2>2. p.ckt.socks = "no" \/ p.conn.st = "none"
    BY <1>0, <1>2, <1>3 DEF Form, CktRecs
  <2>3. CASE p.ckt.socks = "no"
    <3>1. EndRead(p, wrote[s][k], ended[s][k])
      BY <1>0, <2>3 DEF EndRead
    <3> QED
      BY <2>1, <2>3, <3>1, <1>3, <1>4, CircuitSendEofFits DEF DataAt
  <2>4. CASE p.ckt.socks # "no"
    <3>1. q = NullCircuitClose(p) /\ p.conn.st = "none"
      BY <2>2, <2>4 DEF CircuitSendEof
    <3> QED
      BY <2>1, <3>1, <1>3, <1>4, NullCircuitCloseFits DEF DataAt
  <2> QED
    BY <2>3, <2>4
<1> HIDE DEF q
<1>9. /\ Sound(q, r) /\ Calm(q, r) /\ Whence(q, r)
      /\ ~broken[k] => DataAt(s, k, r)
  <2>1. CASE ~(q.ckt.read_eof /\ q.ckt.write_eof)
    <3>1. r = q
      BY <2>1
    <3> QED
      BY <3>1, <1>6, <1>8, SoundSame, CalmSame
  <2>2. CASE q.ckt.read_eof /\ q.ckt.write_eof
    <3>1. r = NullCircuitClose(q)
      BY <2>2
    <3>2. /\ Sound(q, r) /\ r.ckt.st = "closed" /\ Calm(q, r)
      BY <3>1, <1>5, <1>6, <1>7, NullCircuitCloseFits
    <3>3. ~broken[k] => DataAt(s, k, r)
      BY <2>2, <3>1, <1>5, <1>6, <1>8, NullCircuitCloseFits DEF DataAt
    <3> QED
      BY <3>2, <3>3 DEF Whence
  <2> QED
    BY <2>1, <2>2
<1> HIDE DEF r
<1>10. Sound(o, r)
  <2>1. Sound(o, p)
    BY <1>4, ShapeSound
  <2> QED
    BY <2>1, <1>5, <1>9, SoundTrans
<1>11. Still(o, r) /\ r.sent = o.sent /\ r.crash = "no"
  <2>1. Still(p, q) /\ Still(q, r)
    BY <1>5, <1>9, CalmStill
  <2>2. Still(o, r)
    BY <2>1, <1>4, StillTrans
  <2> QED
    BY <2>2, <1>2, <1>3, <1>5, <1>9 DEF Calm
<1>12. ~broken[k] => ~(s = "client" /\ Connecting(o))
  BY <1>0, <1>2 DEF Form
<1> QED
  BY <1>0, <1>1, <1>2, <1>9, <1>10, <1>11, <1>12, StillTurn DEF o

LEMMA UpstreamFlushTurn ==
    ASSUME RelayInv, NEW s \in Sides, NEW k \in Streams, UpstreamFlush(s, k)
    PROVE  RelayInv'
<1> DEFINE o == link[s][k]
           p == [o EXCEPT !.given = o.got, !.ckt.reply = FALSE]
           r == UpstreamFlushCb(p)
<1>0. /\ Running(s) /\ o.ckt.st = "open" /\ "write" \in o.ckt.enabled
      /\ Callback(s, k, r)
  BY DEF UpstreamFlush
<1>1. /\ proc[s].run = "running" /\ o.crash = "no" /\ Agree(o) /\ o.ckt \in CktRecs
      /\ o \in LinkRecs /\ o.ckt.downstream = o.conn.upstream /\ o.sent \in Nat
      /\ ~broken[k] => DataAt(s, k, o) /\ Form(s, o)
  BY <1>0, Here
<1>2. o.got \in Nat
  BY <1>1, LinkFields
<1>3. /\ p \in LinkRecs /\ p.ckt.st = o.ckt.st /\ p.conn = o.conn /\ p.event = o.event
      /\ p.ckt.downstream = o.ckt.downstream /\ p.crash = o.crash
      /\ p.ckt.socks = o.ckt.socks /\ p.ckt.enabled = o.ckt.enabled
      /\ p.taken = o.taken /\ p.sent = o.sent /\ p.got = o.got /\ p.given = o.got
      /\ p.shut_up = o.shut_up /\ p.shut_down = o.shut_down
      /\ p.ckt.upbuf = o.ckt.upbuf /\ p.ckt.read_eof = o.ckt.read_eof
      /\ p.ckt.write_eof = o.ckt.write_eof
      /\ p.ckt.pending_write_eof = o.ckt.pending_write_eof
  BY <1>1, <1>2 DEF LinkRecs, CktRecs
<1> HIDE DEF o, p
<1>4. SameShape(o, p) /\ Still(o, p) /\ Agree(p) /\ p.ckt.downstream = p.conn.upstream
  BY <1>1, <1>3 DEF SameShape, Still, Whence, Agree
<1>5. ~broken[k] => DataAt(s, k, p)
  BY <1>1, <1>2, <1>3 DEF DataAt, Data, EndRead, EndSeen
<1>6. Sound(p, r) /\ Calm(p, r) /\ Whence(p, r)
  BY <1>0, <1>3, <1>4, UpstreamFlushCbFits
<1>7. ~broken[k] => DataAt(s, k, r)
  BY <1>3, <1>4, <1>5, UpstreamFlushCbFits DEF DataAt
<1> HIDE DEF r
<1>8. Sound(o, r) /\ Still(o, r) /\ r.sent = o.sent /\ r.crash = "no"
  <2>1. Sound(o, p) /\ Still(p, r)
    BY <1>4, <1>6, ShapeSound, CalmStill
  <2>2. Sound(o, r) /\ Still(o, r)
    BY <2>1, <1>4, <1>6, SoundTrans, StillTrans
  <2> QED
    BY <2>2, <1>1, <1>3, <1>6 DEF Calm
<1>9. ~broken[k] => ~(s = "client" /\ Connecting(o))
  BY <1>0, <1>1 DEF Form
<1> QED
  BY <1>0, <1>1, <1>7, <1>8, <1>9, StillTurn DEF o

LEMMA DownstreamReadTurn ==
    ASSUME RelayInv, NEW s \in Sides, NEW k \in Streams, DownstreamRead(s, k)
    PROVE  RelayInv'
<1> DEFINE o == link[s][k]
           p == [o EXCEPT !.conn.ever_received = TRUE]
           n == link[Other(s)][k].sent
           q == NullRecv(p, n)
<1>a. o \in LinkRecs
  BY LinkType DEF RelayInv
<1>b. o.conn \in ConnRecs
  BY <1>a, LinkFields
<1>1. /\ p \in LinkRecs /\ p.ckt = o.ckt /\ p.event = o.event /\ p.crash = o.crash
      /\ p.conn.st = o.conn.st /\ p.conn.upstream = o.conn.upstream
      /\ p.conn.enabled = o.conn.enabled /\ p.conn.connected = o.conn.connected
      /\ p.conn.failed = o.conn.failed /\ p.conn.read_eof = o.conn.read_eof
      /\ p.conn.write_eof = o.conn.write_eof
      /\ p.conn.pending_write_eof = o.conn.pending_write_eof
      /\ p.taken = o.taken /\ p.sent = o.sent /\ p.got = o.got /\ p.given = o.given
      /\ p.shut_up = o.shut_up /\ p.shut_down = o.shut_down
  BY <1>a, <1>b DEF LinkRecs, ConnRecs
<1>0. /\ Running(s) /\ p.conn.st = "open" /\ "read" \in p.conn.enabled
      /\ n > p.got /\ Callback(s, k, q)
  BY DEF DownstreamRead
<1>2. /\ proc[s].run = "running" /\ o.crash = "no" /\ n \in Nat
      /\ o.sent \in Nat /\ wrote[Other(s)][k] \in Nat
      /\ ~broken[k] => /\ DataAt(s, k, o) /\ Form(s, o) /\ o.ckt.st # "none"
                       /\ n <= wrote[Other(s)][k]
  BY <1>0, <1>1, Here
<1>3. o.got \in Nat /\ o.given \in Nat
  BY <1>a, LinkFields
<1> HIDE DEF p
<1> DEFINE x == [p EXCEPT !.crash = "assert_upstream"]
           y == [p EXCEPT !.crash = "null_upbuf"]
           z == [p EXCEPT !.got = n]
<1>4. q \in {x, y, z} /\ (p.conn.upstream /\ p.ckt.upbuf => q = z)
  BY DEF NullRecv
<1>5. \A v \in {x, y, z} : SameShape(p, v)
  BY <1>1, <1>2 DEF LinkRecs, Crashes, SameShape
<1>6. /\ z.ckt = p.ckt /\ z.conn = p.conn /\ z.crash = p.crash /\ z.taken = p.taken
      /\ z.sent = p.sent /\ z.given = p.given /\ z.got = n
      /\ z.shut_up = p.shut_up /\ z.shut_down = p.shut_down
  BY <1>1 DEF LinkRecs
<1> HIDE DEF o, n, q, x, y, z
<1>7. Sound(o, q)
  <2>1. Sound(o, p) /\ Sound(p, q)
    BY <1>1, <1>4, <1>5, ShapeSound DEF SameShape
  <2> QED
    BY <2>1, SoundTrans
<1>8. ASSUME ~broken[k]
      PROVE  DataAt(s, k, q) /\ Still(o, q) /\ o.sent <= q.sent /\ q.crash = "no"
             /\ ~(s = "client" /\ Connecting(o))
  <2>1. ~EndSeen(o, wrote[Other(s)][k], ended[Other(s)][k])
    BY <1>0, <1>1, <1>2, <1>3, <1>8 DEF EndSeen
  <2>2. /\ Data(o, n, wrote[s][k], wrote[Other(s)][k], ended[s][k], ended[Other(s)][k])
        /\ Form(s, o)
    BY <1>2, <1>8 DEF DataAt, n
  <2>3. p.conn.upstream /\ p.ckt.upbuf
    BY <2>1, <2>2, <1>0, <1>1 DEF Data, Form
  <2>4. q = z
    BY <2>3, <1>4
  <2>5. Data(z, n, wrote[s][k], wrote[Other(s)][k], ended[s][k], ended[Other(s)][k])
    <3>1. ~o.conn.read_eof /\ ~o.ckt.pending_write_eof /\ ~o.ckt.write_eof /\ ~o.shut_up
      BY <2>1, <2>2 DEF Data
    <3>2. z.given <= z.got /\ z.got <= n
      BY <2>2, <1>0, <1>1, <1>2, <1>3, <1>6 DEF Data
    <3> QED
      BY <3>1, <3>2, <2>2, <1>1, <1>6 DEF Data, EndRead
  <2>6. Still(o, z)
    BY <1>1, <1>6 DEF Still, Whence
  <2>7. ~(s = "client" /\ Connecting(o))
    BY <2>2, <1>0, <1>1 DEF Form
  <2> QED
    BY <2>4, <2>5, <2>6, <2>7, <1>1, <1>2, <1>6 DEF DataAt, n
<1> QED
  BY <1>0, <1>2, <1>7, <1>8, StillTurn DEF o

LEMMA DownstreamFlushTurn ==
    ASSUME RelayInv, NEW s \in Sides, NEW k \in Streams, DownstreamFlush(s, k)
    PROVE  RelayInv'
<1> DEFINE o == link[s][k]
           p == [o EXCEPT !.sent = o.taken]
           r == DownstreamFlushCb(p)
<1>0. /\ Running(s) /\ o.conn.st = "open" /\ o.conn.connected
      /\ Callback(s, k, r)
  BY DEF DownstreamFlush
<1>1. /\ proc[s].run = "running" /\ o.crash = "no" /\ Agree(o) /\ o \in LinkRecs
      /\ o.ckt.downstream = o.conn.upstream /\ o.sent \in Nat
      /\ ~broken[k] => DataAt(s, k, o) /\ Form(s, o) /\ o.ckt.st # "none"
  BY <1>0, Here
<1>2. o.taken \in Nat
  BY <1>1, LinkFields
<1>3. /\ p \in LinkRecs /\ p.ckt = o.ckt /\ p.conn = o.conn /\ p.event = o.event
      /\ p.crash = o.crash
      /\ p.taken = o.taken /\ p.sent = o.taken /\ p.got = o.got /\ p.given = o.given
      /\ p.shut_up = o.shut_up /\ p.shut_down = o.shut_down
  BY <1>1, <1>2 DEF LinkRecs
<1> HIDE DEF o, p
<1>4. SameShape(o, p) /\ Still(o, p) /\ Agree(p) /\ p.ckt.downstream = p.conn.upstream
  BY <1>1, <1>3 DEF SameShape, Still, Whence, Agree
<1>5. Sound(p, r)
  BY <1>3, <1>4, DownstreamFlushCbFits
<1>6. Sound(o, r)
  BY <1>4, <1>5, ShapeSound, SoundTrans
<1>7. ASSUME ~broken[k]
      PROVE  DataAt(s, k, r) /\ Still(o, r) /\ o.sent <= r.sent /\ r.crash = "no"
             /\ ~(s = "client" /\ Connecting(o))
  <2>1. /\ Data(o, link[Other(s)][k].sent, wrote[s][k], wrote[Other(s)][k],
                ended[s][k], ended[Other(s)][k])
        /\ Form(s, o)
    BY <1>1, <1>7 DEF DataAt
  <2>2. DataAt(s, k, p) /\ o.sent <= p.sent
    BY <2>1, <1>1, <1>2, <1>3 DEF DataAt, Data, EndRead, EndSeen
  <2>3. p.conn.upstream \/ EndRead(p, wrote[s][k], ended[s][k])
    BY <2>1, <1>0, <1>3 DEF Data, Form, EndRead
  <2>4. p.ckt.upbuf /\ p.conn.st = "open"
    BY <2>2, <1>0, <1>3 DEF DataAt, Data
  <2>5. Calm(p, r) /\ Whence(p, r)
    BY <2>4, <1>3, <1>4, DownstreamFlushCbFits
  <2>6. DataAt(s, k, r)
    BY <2>2, <2>3, <2>4, <1>3, <1>4, DownstreamFlushCbFits DEF DataAt
  <2>7. Still(o, r)
    BY <2>5, <1>4, CalmStill, StillTrans
  <2>8. ~(s = "client" /\ Connecting(o))
    BY <1>0 DEF Connecting
  <2> QED
    BY <2>2, <2>5, <2>6, <2>7, <2>8, <1>1, <1>3 DEF Calm
<1> HIDE DEF r
<1> QED
  BY <1>0, <1>1, <1>6, <1>7, StillTurn DEF o

\* The end of the wire is the end of what the other program wrote.
LEMMA WireEndedSeen ==
    ASSUME RelayInv, NEW s \in Sides, NEW k \in Streams, ~broken[k], WireEnded(s, k),
           NEW p, p.got = link[Other(s)][k].sent
    PROVE  EndSeen(p, wrote[Other(s)][k], ended[Other(s)][k])
<1> DEFINE t == Other(s)
           r == link[t][k]
<1>1. t \in Sides /\ Other(t) = s
  BY SideFacts
<1>2. Fits(t, r, link[s][k].sent, wrote[t][k], wrote[s][k], ended[t][k], ended[s][k])
  BY <1>1 DEF RelayInv, WholeInv
<1>3. r.shut_down \/ r.conn.st = "deleted"
  BY DEF WireEnded
<1> HIDE DEF r
<1>4. r.ckt.st # "none"
  <2>1. NoLink.shut_down = FALSE /\ NoLink.conn.st = "none"
    BY DEF NoLink, NoConn
  <2> QED
    BY <2>1, <1>2, <1>3 DEF Fits, Form
<1>5. EndRead(r, wrote[t][k], ended[t][k]) /\ r.sent = r.taken
  BY <1>2, <1>3, <1>4 DEF Fits, Data, Over
<1> QED
  BY <1>5 DEF EndRead, EndSeen, r

LEMMA DownstreamEofTurn ==
    ASSUME RelayInv, NEW s \in Sides, NEW k \in Streams, DownstreamEof(s, k)
    PROVE  RelayInv'
<1> DEFINE o == link[s][k]
           p == [o EXCEPT !.conn.enabled = @ \ {"read"}]
           y == IF p.conn.upstream THEN CircuitRecvEof(p) ELSE p
           q == [y EXCEPT !.conn.read_eof = TRUE]
           r == IF q.conn.write_eof THEN NullConnClose(q) ELSE q
<1>a. o \in LinkRecs
  BY LinkType DEF RelayInv
<1>b. o.conn \in ConnRecs
  BY <1>a, LinkFields
<1>0. /\ Running(s) /\ p.conn.st = "open" /\ "read" \in o.conn.enabled
      /\ WireEnded(s, k) /\ link[Other(s)][k].sent = p.got /\ Callback(s, k, r)
  BY DEF DownstreamEof
<1>1. /\ p \in LinkRecs /\ p.ckt = o.ckt /\ p.event = o.event /\ p.crash = o.crash
      /\ p.conn.st = o.conn.st /\ p.conn.upstream = o.conn.upstream
      /\ p.conn.enabled = o.conn.enabled \ {"read"} /\ p.conn.connected = o.conn.connected
      /\ p.conn.failed = o.conn.failed /\ p.conn.read_eof = o.conn.read_eof
      /\ p.conn.write_eof = o.conn.write_eof
      /\ p.conn.pending_write_eof = o.conn.pending_write_eof
      /\ p.taken = o.taken /\ p.sent = o.sent /\ p.got = o.got /\ p.given = o.given
      /\ p.shut_up = o.shut_up /\ p.shut_down = o.shut_down
  BY <1>a, <1>b DEF LinkRecs, ConnRecs
<1>2. /\ proc[s].run = "running" /\ o.crash = "no" /\ Agree(o)
      /\ o.sent \in Nat /\ o.ckt.downstream = o.conn.upstream
      /\ ~broken[k] => DataAt(s, k, o) /\ Form(s, o) /\ o.ckt.st # "none"
  BY <1>0, <1>1, Here
<1> HIDE DEF o, p
<1>3. SameShape(o, p) /\ Still(o, p) /\ Agree(p)
  BY <1>1, <1>2 DEF SameShape, Still, Whence, Agree
<1>4. /\ SameShape(p, y) /\ Calm(p, y) /\ y.conn = p.conn
  <2>1. SameShape(p, p) /\ Calm(p, p)
    BY <1>1, CalmSame DEF SameShape
  <2> QED
    BY <2>1, <1>1, CircuitRecvEofFits
<1>5. ASSUME ~broken[k]
      PROVE  DataAt(s, k, y) /\ EndSeen(y, wrote[Other(s)][k], ended[Other(s)][k])
  <2>1. DataAt(s, k, p)
    BY <1>1, <1>2, <1>5 DEF DataAt, Data, EndRead, EndSeen
  <2>2. EndSeen(p, wrote[Other(s)][k], ended[Other(s)][k])
    BY <1>0, <1>5, WireEndedSeen
  <2>3. EndSeen(y, wrote[Other(s)][k], ended[Other(s)][k])
    BY <2>2, <1>4 DEF EndSeen, Calm
  <2> QED
    BY <2>1, <2>2, <2>3, <1>1, CircuitRecvEofFits DEF DataAt
<1>6. y \in LinkRecs
  BY <1>4 DEF SameShape
<1>7. y.conn \in ConnRecs
  BY <1>6, LinkFields
<1> HIDE DEF y
<1>8. /\ q \in LinkRecs /\ q.ckt = y.ckt /\ q.event = y.event /\ q.crash = y.crash
      /\ q.conn = [y.conn EXCEPT !.read_eof = TRUE]
      /\ q.taken = y.taken /\ q.sent = y.sent /\ q.got = y.got /\ q.given = y.given
      /\ q.shut_up = y.shut_up /\ q.shut_down = y.shut_down
  BY <1>6, <1>7 DEF LinkRecs, ConnRecs
<1> HIDE DEF q
<1>9. /\ q.conn.st = y.conn.st /\ q.conn.upstream = y.conn.upstream
      /\ q.conn.enabled = y.conn.enabled /\ q.conn.connected = y.conn.connected
      /\ q.conn.failed = y.conn.failed /\ q.conn.write_eof = y.conn.write_eof
      /\ q.conn.pending_write_eof = y.conn.pending_write_eof
  BY <1>7, <1>8 DEF ConnRecs
<1>10. SameShape(y, q) /\ Calm(y, q)
  BY <1>8, <1>9 DEF SameShape, Calm
<1>11. Agree(q) /\ q.ckt.downstream = q.conn.upstream /\ q.conn.st = "open"
  BY <1>0, <1>3, <1>4, <1>10 DEF SameShape, Agree
<1>12. ~broken[k] =>
          DataAt(s, k, q) /\ EndSeen(q, wrote[Other(s)][k], ended[Other(s)][k])
  BY <1>5, <1>8, <1>9 DEF DataAt, Data, EndRead, EndSeen
<1>13. Sound(q, r)
  BY <1>8, <1>11, NullConnCloseFits, SoundSame
<1>14. Sound(o, r)
  <2>1. Sound(o, p) /\ Sound(p, y) /\ Sound(y, q)
    BY <1>3, <1>4, <1>10, ShapeSound
  <2> QED
    BY <2>1, <1>13, SoundTrans
<1>15. ASSUME ~broken[k]
       PROVE  DataAt(s, k, r) /\ Still(o, r) /\ o.sent <= r.sent /\ r.crash = "no"
              /\ ~(s = "client" /\ Connecting(o))
  <2>1. q.ckt.upbuf
    BY <1>12, <1>15 DEF DataAt, Data
  <2>2. DataAt(s, k, r) /\ Calm(q, r) /\ Whence(q, r)
    <3>1. CASE ~q.conn.write_eof
      BY <3>1, <1>12, <1>15, CalmSame
    <3>2. CASE q.conn.write_eof
      <4>1. r = NullConnClose(q)
        BY <3>2
      <4>2. r.conn.st = "closed" /\ Calm(q, r)
        BY <4>1, <2>1, <1>8, <1>11, NullConnCloseFits
      <4>3. DataAt(s, k, r)
        BY <4>1, <3>2, <1>8, <1>11, <1>12, <1>15, NullConnCloseFits DEF DataAt
      <4> QED
        BY <4>2, <4>3 DEF Whence
    <3> QED
      BY <3>1, <3>2
  <2>3. Still(p, y) /\ Still(y, q) /\ Still(q, r)
    BY <2>2, <1>4, <1>10, CalmStill DEF SameShape, Whence
  <2>4. Still(o, r)
    BY <2>3, <1>3, StillTrans
  <2>5. ~(s = "client" /\ Connecting(o))
    BY <1>0, <1>2, <1>15 DEF Form
  <2> QED
    BY <2>2, <2>4, <2>5, <1>1, <1>2, <1>4, <1>10 DEF Calm
<1> HIDE DEF r
<1> QED
  BY <1>0, <1>2, <1>14, <1>15, StillTurn DEF o

-----------------------------------------------------------------------------
(***************************************************************************)
(* Errors: the stream counts as broken from here on.                       *)
(***************************************************************************)
LEMMA UpstreamErrorTurn ==
    ASSUME RelayInv, NEW s \in Sides, NEW k \in Streams, UpstreamError(s, k)
    PROVE  RelayInv'
<1>1. /\ Running(s) /\ link[s][k].ckt.st = "open"
      /\ ErrorCallback(s, k, NullCircuitClose(link[s][k]))
  BY DEF UpstreamError
<1>2. /\ proc[s].run = "running" /\ link[s][k] \in LinkRecs
      /\ link[s][k].ckt.downstream = link[s][k].conn.upstream
  BY <1>1, Here
<1> QED
  BY <1>1, <1>2, NullCircuitCloseFits, ErrorTurn

LEMMA DownstreamErrorTurn ==
    ASSUME RelayInv, NEW s \in Sides, NEW k \in Streams, DownstreamError(s, k)
    PROVE  RelayInv'
<1>1. /\ Running(s) /\ link[s][k].conn.st = "open"
      /\ ErrorCallback(s, k, NullConnClose(link[s][k]))
  BY DEF DownstreamError
<1>2. /\ proc[s].run = "running" /\ link[s][k] \in LinkRecs
      /\ link[s][k].ckt.downstream = link[s][k].conn.upstream
  BY <1>1, Here
<1> QED
  BY <1>1, <1>2, NullConnCloseFits, ErrorTurn

LEMMA ClientSide == "client" \in Sides /\ "server" \in Sides
BY DEF Sides

LEMMA SocksRefuseTurn ==
    ASSUME RelayInv, NEW k \in Streams, SocksRefuse(k)
    PROVE  RelayInv'
<1> DEFINE p == link["client"][k]
           q == [p EXCEPT !.ckt.socks = "sent", !.ckt.enabled = {"write"}, !.ckt.reply = TRUE]
<1>1. /\ Running("client") /\ p.ckt.st = "open"
      /\ \/ ErrorCallback("client", k, NullCircuitClose(p))
         \/ ErrorCallback("client", k, CircuitDoFlush(q))
  BY DEF SocksRefuse
<1>2. /\ proc["client"].run = "running" /\ p \in LinkRecs /\ p.ckt \in CktRecs
      /\ p.ckt.downstream = p.conn.upstream
  BY <1>1, ClientSide, Here
<1>3. SameShape(p, q) /\ q \in LinkRecs
  BY <1>2 DEF SameShape, LinkRecs, CktRecs, Both
<1> HIDE DEF p, q
<1>4. Sound(p, q) /\ q.ckt.downstream = q.conn.upstream
  BY <1>2, <1>3, ShapeSound DEF SameShape
<1>5. Sound(p, CircuitDoFlush(q))
  BY <1>3, <1>4, CircuitDoFlushFits, SoundTrans
<1> QED
  BY <1>1, <1>2, <1>5, NullCircuitCloseFits, ErrorTurn, ClientSide DEF p

LEMMA DownstreamConnectFailsTurn ==
    ASSUME RelayInv, NEW k \in Streams, DownstreamConnectFails(k)
    PROVE  RelayInv'
<1> DEFINE o == link["client"][k]
           p == [o EXCEPT !.conn.failed = TRUE]
           q == [p EXCEPT !.ckt.socks = "sent", !.ckt.reply = TRUE,
                          !.ckt.enabled = @ \cup {"write"}]
           x == [p EXCEPT !.crash = "assert_circuit"]
<1>1. /\ Running("client") /\ o.conn.st \in {"open", "closed"}
      /\ ErrorCallback("client", k, IF mode = "simple" THEN NullConnClose(p)
                                    ELSE IF ~p.conn.upstream THEN x ELSE CircuitDoFlush(q))
  BY DEF DownstreamConnectFails, Connecting
<1>2. /\ proc["client"].run = "running" /\ o \in LinkRecs /\ o.ckt \in CktRecs
      /\ o.conn \in ConnRecs /\ o.ckt.downstream = o.conn.upstream
  BY <1>1, ClientSide, Here
<1>3. SameShape(o, p) /\ p \in LinkRecs /\ p.ckt = o.ckt
  BY <1>2 DEF SameShape, LinkRecs, ConnRecs
<1> HIDE DEF o, p
<1>4. SameShape(p, x) /\ x \in LinkRecs
  BY <1>3 DEF SameShape, LinkRecs, Crashes
<1>5. SameShape(p, q) /\ q \in LinkRecs
  BY <1>2, <1>3 DEF SameShape, LinkRecs, CktRecs, Both
<1> HIDE DEF q, x
<1>6. /\ Sound(o, p) /\ Sound(p, x) /\ Sound(p, q)
      /\ p.ckt.downstream = p.conn.upstream /\ q.ckt.downstream = q.conn.upstream
  BY <1>2, <1>3, <1>4, <1>5, ShapeSound DEF SameShape
<1>7. Sound(o, x) /\ Sound(o, NullConnClose(p)) /\ Sound(o, q)
  BY <1>3, <1>6, NullConnCloseFits, SoundTrans
<1>8. Sound(o, CircuitDoFlush(q))
  BY <1>5, <1>6, <1>7, CircuitDoFlushFits, SoundTrans
<1> QED
  BY <1>1, <1>2, <1>7, <1>8, ErrorTurn, ClientSide DEF o

-----------------------------------------------------------------------------
(***************************************************************************)
(* Listeners and outbound connections.                                     *)
(***************************************************************************)
\* A callback that connects a stream which is already open.
LEMMA ConnectTurn ==
    ASSUME RelayInv, NEW s \in Sides, NEW k \in Streams, NEW q, proc[s].run = "running",
           Callback(s, k, q), Sound(link[s][k], q),
           \/ broken[k]
           \/ /\ DataAt(s, k, q) /\ Form(s, q) /\ link[s][k].sent <= q.sent
              /\ q.crash = "no" \/ proc[s].shutting_down
              /\ mode = "simple" => q.ckt.socks = "no"
    PROVE  RelayInv'
BY Turn DEF Callback, Fits, DataAt

\* Once connected, a stream is neither in the SOCKS handshake nor connecting.
LEMMA ConnectForm ==
    ASSUME NEW s, NEW p, NEW q, Form(s, p), SameShape(p, q), p.ckt.st # "none",
           p.conn.st # "none", p.crash = "no", q.ckt.socks = "no", q.conn.connected
    PROVE  Form(s, q)
<1>1. q.ckt.st # "none" /\ q.conn.st # "none" /\ ~Connecting(q)
  BY DEF SameShape, Connecting
<1>2. /\ q.conn.st = "open" /\ ~q.conn.upstream => q.ckt.st \in Over
      /\ q.ckt.st = "open" /\ ~q.ckt.downstream => q.conn.st \in Over
  BY DEF Form, SameShape
<1> QED
  BY <1>1, <1>2 DEF Form

LEMMA UpstreamConnectTurn ==
    ASSUME RelayInv, NEW k \in Streams, UpstreamConnect(k)
    PROVE  RelayInv'
<1> DEFINE p == link["server"][k]
           q == [p EXCEPT !.ckt.connected = TRUE, !.ckt.enabled = Both]
           r == IF p.ckt.pending_write_eof THEN CircuitRecvEof(q) ELSE q
<1>0. /\ Running("server") /\ p.ckt.st \in {"open", "closed"}
      /\ \/ Callback("server", k, r)
         \/ ErrorCallback("server", k, NullCircuitClose(p))
  BY DEF UpstreamConnect
<1>1. /\ proc["server"].run = "running" /\ p \in LinkRecs /\ p.ckt \in CktRecs
      /\ p.crash = "no" /\ p.ckt.downstream = p.conn.upstream /\ p.sent \in Nat
      /\ ~broken[k] => DataAt("server", k, p) /\ Form("server", p)
  BY <1>0, ClientSide, Here
<1>2. /\ q \in LinkRecs /\ q.ckt.st = p.ckt.st /\ q.conn = p.conn /\ q.event = p.event
      /\ q.ckt.downstream = p.ckt.downstream /\ q.crash = p.crash
      /\ q.ckt.socks = p.ckt.socks
      /\ q.taken = p.taken /\ q.sent = p.sent /\ q.got = p.got /\ q.given = p.given
      /\ q.shut_up = p.shut_up /\ q.shut_down = p.shut_down
      /\ q.ckt.upbuf = p.ckt.upbuf /\ q.ckt.read_eof = p.ckt.read_eof
      /\ q.ckt.write_eof = p.ckt.write_eof
      /\ q.ckt.pending_write_eof = p.ckt.pending_write_eof
  BY <1>1 DEF LinkRecs, CktRecs
<1> HIDE DEF p, q
<1>3. SameShape(p, q)
  BY <1>2 DEF SameShape
<1>4. SameShape(q, r) /\ Calm(q, r) /\ r.conn = q.conn
  <2>1. SameShape(q, q) /\ Calm(q, q)
    BY <1>2, CalmSame DEF SameShape
  <2> QED
    BY <2>1, <1>2, CircuitRecvEofFits
<1>5. SameShape(p, r)
  BY <1>3, <1>4 DEF SameShape
<1>6. ASSUME ~broken[k]
      PROVE  /\ DataAt("server", k, r) /\ Form("server", r) /\ p.sent <= r.sent
             /\ r.crash = "no" /\ r.ckt.socks = "no"
  <2>1. DataAt("server", k, q)
    BY <1>1, <1>2, <1>6 DEF DataAt, Data, EndRead, EndSeen
  <2>2. DataAt("server", k, r)
    <3>1. CASE p.ckt.pending_write_eof
      <4>1. EndSeen(q, wrote[Other("server")][k], ended[Other("server")][k])
        BY <2>1, <3>1, <1>2 DEF DataAt, Data
      <4> QED
        BY <2>1, <3>1, <4>1, <1>2, CircuitRecvEofFits DEF DataAt
    <3> QED
      BY <2>1, <3>1
  <2>3. p.conn.st # "none"
    BY <1>0, <1>1, <1>6 DEF Form, NoLink, NoCircuit
  <2>4. r.ckt.socks = "no" /\ r.conn.connected
    BY <2>3, <1>1, <1>2, <1>4, <1>6 DEF Form, Calm
  <2>5. Form("server", r)
    BY <2>3, <2>4, <1>0, <1>1, <1>5, <1>6, ConnectForm
  <2> QED
    BY <2>2, <2>4, <2>5, <1>1, <1>2, <1>4 DEF Calm
<1> HIDE DEF r
<1>7. CASE Callback("server", k, r)
  BY <1>1, <1>5, <1>6, <1>7, ShapeSound, ConnectTurn, ClientSide DEF p
<1>8. CASE ErrorCallback("server", k, NullCircuitClose(p))
  BY <1>1, <1>8, NullCircuitCloseFits, ErrorTurn, ClientSide DEF p
<1> QED
  BY <1>0, <1>7, <1>8

LEMMA DownstreamConnectTurn ==
    ASSUME RelayInv, NEW k \in Streams, DownstreamConnect(k)
    PROVE  RelayInv'
<1> DEFINE p == link["client"][k]
           q == [p EXCEPT !.ckt.enabled = Both, !.conn.enabled = Both,
                          !.conn.connected = TRUE]
           y == IF p.ckt.pending_write_eof THEN CircuitRecvEof(q) ELSE q
           r == IF ~p.conn.upstream \/ p.conn.write_eof THEN NullConnClose(p) ELSE y
<1>0. /\ Running("client") /\ Connecting(p) /\ mode = "simple" /\ Callback("client", k, r)
  BY DEF DownstreamConnect
<1>1. /\ proc["client"].run = "running" /\ p \in LinkRecs /\ p.ckt \in CktRecs
      /\ p.conn \in ConnRecs
      /\ p.crash = "no" /\ p.ckt.downstream = p.conn.upstream /\ p.sent \in Nat
      /\ ~broken[k] => DataAt("client", k, p) /\ Form("client", p) /\ p.ckt.st # "none"
  BY <1>0, ClientSide, Here DEF Connecting
<1>2. /\ q \in LinkRecs /\ q.event = p.event /\ q.crash = p.crash
      /\ q.taken = p.taken /\ q.sent = p.sent /\ q.got = p.got /\ q.given = p.given
      /\ q.shut_up = p.shut_up /\ q.shut_down = p.shut_down
      /\ q.ckt = [p.ckt EXCEPT !.enabled = Both]
      /\ q.conn = [p.conn EXCEPT !.enabled = Both, !.connected = TRUE]
  BY <1>1 DEF LinkRecs, CktRecs, ConnRecs
<1>3. p.conn.st \in {"open", "closed"}
  BY <1>0 DEF Connecting
<1> HIDE DEF p, q
<1>4. /\ q.ckt.st = p.ckt.st /\ q.ckt.downstream = p.ckt.downstream
      /\ q.ckt.socks = p.ckt.socks
      /\ q.ckt.upbuf = p.ckt.upbuf /\ q.ckt.read_eof = p.ckt.read_eof
      /\ q.ckt.write_eof = p.ckt.write_eof
      /\ q.ckt.pending_write_eof = p.ckt.pending_write_eof
      /\ q.conn.st = p.conn.st /\ q.conn.upstream = p.conn.upstream
      /\ q.conn.read_eof = p.conn.read_eof /\ q.conn.write_eof = p.conn.write_eof
      /\ q.conn.pending_write_eof = p.conn.pending_write_eof
      /\ q.conn.connected = TRUE
  BY <1>1, <1>2 DEF CktRecs, ConnRecs
<1>5. SameShape(p, q)
  BY <1>2, <1>4 DEF SameShape
<1>6. SameShape(q, y) /\ Calm(q, y)
  <2>1. SameShape(q, q) /\ Calm(q, q)
    BY <1>2, CalmSame DEF SameShape
  <2> QED
    BY <2>1, <1>2, CircuitRecvEofFits
<1>7. SameShape(p, y)
  BY <1>5, <1>6 DEF SameShape
<1>8. Sound(p, r)
  BY <1>1, <1>7, ShapeSound, NullConnCloseFits
<1>9. ASSUME ~broken[k]
      PROVE  /\ DataAt("client", k, r) /\ Form("client", r) /\ p.sent <= r.sent
             /\ r.crash = "no" /\ r.ckt.socks = "no"
  <2>1. r = y
    BY <1>0, <1>1, <1>9, ClientSide DEF Form
  <2>2. DataAt("client", k, q)
    BY <1>1, <1>2, <1>3, <1>4, <1>9 DEF DataAt, Data, EndRead, EndSeen
  <2>3. DataAt("client", k, y)
    <3>1. CASE p.ckt.pending_write_eof
      <4>1. EndSeen(q, wrote[Other("client")][k], ended[Other("client")][k])
        BY <2>2, <3>1, <1>4 DEF DataAt, Data
      <4> QED
        BY <2>2, <3>1, <4>1, <1>2, CircuitRecvEofFits DEF DataAt
    <3> QED
      BY <2>2, <3>1
  <2>4. p.ckt.socks = "no"
    BY <1>0, <1>9, ClientSide DEF RelayInv, ModeInv, p
  <2>5. y.ckt.socks = "no" /\ y.conn.connected
    BY <2>4, <1>4, <1>6 DEF Calm
  <2>6. Form("client", y)
    BY <2>5, <1>1, <1>3, <1>7, <1>9, ConnectForm
  <2> QED
    BY <2>1, <2>3, <2>5, <2>6, <1>1, <1>2, <1>6 DEF Calm
<1> HIDE DEF r
<1> QED
  BY <1>0, <1>1, <1>8, <1>9, ConnectTurn, ClientSide DEF p

LEMMA SocksDownstreamConnectTurn ==
    ASSUME RelayInv, NEW k \in Streams, SocksDownstreamConnect(k)
    PROVE  RelayInv'
<1> DEFINE p == link["client"][k]
           q == [p EXCEPT !.ckt.socks = "no", !.ckt.reply = TRUE, !.ckt.enabled = Both,
                          !.conn.enabled = Both, !.conn.connected = TRUE]
           x == [p EXCEPT !.crash = "assert_circuit"]
           r(n) == IF n > p.taken THEN NullSend(q, n) ELSE q
           y(n) == IF p.ckt.pending_write_eof THEN CircuitRecvEof(r(n)) ELSE r(n)
           z(n) == IF ~p.conn.upstream THEN x ELSE y(n)
<1>0. /\ Running("client") /\ Connecting(p) /\ mode = "socks"
      /\ \E n \in p.taken .. wrote["client"][k] : Callback("client", k, z(n))
  BY DEF SocksDownstreamConnect
<1>1. /\ proc["client"].run = "running" /\ p \in LinkRecs /\ p.ckt \in CktRecs
      /\ p.conn \in ConnRecs /\ wrote["client"][k] \in Nat
      /\ p.crash = "no" /\ p.ckt.downstream = p.conn.upstream /\ p.sent \in Nat
      /\ ~broken[k] => DataAt("client", k, p) /\ Form("client", p) /\ p.ckt.st # "none"
  BY <1>0, ClientSide, Here DEF Connecting
<1>t. p.taken \in Nat
  BY <1>1, LinkFields
<1>2. /\ q \in LinkRecs /\ q.event = p.event /\ q.crash = p.crash
      /\ q.taken = p.taken /\ q.sent = p.sent /\ q.got = p.got /\ q.given = p.given
      /\ q.shut_up = p.shut_up /\ q.shut_down = p.shut_down
      /\ q.ckt = [p.ckt EXCEPT !.socks = "no", !.reply = TRUE, !.enabled = Both]
      /\ q.conn = [p.conn EXCEPT !.enabled = Both, !.connected = TRUE]
  BY <1>1 DEF LinkRecs, CktRecs, ConnRecs
<1>3. p.conn.st \in {"open", "closed"}
  BY <1>0 DEF Connecting
<1>x. SameShape(p, x)
  BY <1>1 DEF LinkRecs, Crashes, SameShape
<1> HIDE DEF p, q, x
<1>4. /\ q.ckt.st = p.ckt.st /\ q.ckt.downstream = p.ckt.downstream
      /\ q.ckt.socks = "no"
      /\ q.ckt.upbuf = p.ckt.upbuf /\ q.ckt.read_eof = p.ckt.read_eof
      /\ q.ckt.write_eof = p.ckt.write_eof
      /\ q.ckt.pending_write_eof = p.ckt.pending_write_eof
      /\ q.conn.st = p.conn.st /\ q.conn.upstream = p.conn.upstream
      /\ q.conn.read_eof = p.conn.read_eof /\ q.conn.write_eof = p.conn.write_eof
      /\ q.conn.pending_write_eof = p.conn.pending_write_eof
      /\ q.conn.connected = TRUE
  BY <1>1, <1>2 DEF CktRecs, ConnRecs
<1>5. SameShape(p, q)
  BY <1>2, <1>4 DEF SameShape
<1>6. PICK n \in p.taken .. wrote["client"][k] : Callback("client", k, z(n))
  BY <1>0
<1>7. n \in Nat /\ p.taken <= n /\ n <= wrote["client"][k]
  BY <1>6, <1>1, <1>t
<1>8. SameShape(q, r(n))
  <2>1. SameShape(q, q)
    BY <1>2 DEF SameShape
  <2> QED
    BY <2>1, <1>2, <1>7, NullSendFits
<1>9. r(n) \in LinkRecs
  BY <1>8 DEF SameShape
<1>10. q.ckt.downstream =>
          /\ r(n).ckt = q.ckt /\ r(n).conn = q.conn /\ r(n).sent = q.sent
          /\ r(n).crash = q.crash /\ r(n).got = q.got
  BY <1>2, <1>7, NullSendFits
<1>11. ~broken[k] /\ q.ckt.downstream => DataAt("client", k, r(n))
  <2> SUFFICES ASSUME ~broken[k], q.ckt.downstream PROVE DataAt("client", k, r(n))
    OBVIOUS
  <2>1. DataAt("client", k, q)
    BY <1>1, <1>2, <1>3, <1>4 DEF DataAt, Data, EndRead, EndSeen
  <2>2. DataAt("client", k, NullSend(q, n))
    BY <2>1, <1>1, <1>2, <1>7, NullSendFits DEF DataAt
  <2> QED
    BY <2>1, <2>2
<1> HIDE DEF r
<1>12. SameShape(r(n), y(n)) /\ Calm(r(n), y(n)) /\ y(n).conn = r(n).conn
  <2>1. SameShape(r(n), r(n)) /\ Calm(r(n), r(n))
    BY <1>9, CalmSame DEF SameShape
  <2> QED
    BY <2>1, <1>9, CircuitRecvEofFits
<1>13. SameShape(p, y(n))
  BY <1>5, <1>8, <1>12 DEF SameShape
<1>14. Sound(p, z(n))
  BY <1>x, <1>13, ShapeSound
<1>15. ASSUME ~broken[k]
       PROVE  /\ DataAt("client", k, z(n)) /\ Form("client", z(n)) /\ p.sent <= z(n).sent
              /\ z(n).crash = "no"
  <2>1. p.conn.upstream
    BY <1>0, <1>1, <1>15 DEF Form
  <2>2. z(n) = y(n) /\ q.ckt.downstream
    BY <2>1, <1>1, <1>4
  <2>3. DataAt("client", k, y(n))
    <3>1. CASE p.ckt.pending_write_eof
      <4>1. EndSeen(r(n), wrote[Other("client")][k], ended[Other("client")][k])
        BY <2>2, <3>1, <1>4, <1>10, <1>11, <1>15 DEF DataAt, Data
      <4> QED
        BY <2>2, <3>1, <4>1, <1>9, <1>11, <1>15, CircuitRecvEofFits DEF DataAt
    <3> QED
      BY <2>2, <3>1, <1>11, <1>15
  <2>4. y(n).ckt.socks = "no" /\ y(n).conn.connected
    BY <2>2, <1>4, <1>10, <1>12 DEF Calm
  <2>5. Form("client", y(n))
    BY <2>4, <1>1, <1>3, <1>13, <1>15, ConnectForm
  <2> QED
    BY <2>2, <2>3, <2>5, <1>1, <1>2, <1>10, <1>12 DEF Calm
<1> HIDE DEF z
<1> QED
  BY <1>0, <1>1, <1>6, <1>14, <1>15, ConnectTurn, ClientSide DEF p

LEMMA SocksConnectTurn ==
    ASSUME RelayInv, NEW k \in Streams, SocksConnect(k)
    PROVE  RelayInv'
<1> DEFINE o == link["client"][k]
           p == [o EXCEPT !.ckt.socks = "have", !.ckt.enabled = {}]
           x == [p EXCEPT !.crash = "assert_shutdown"]
           a == AddDownstream(p)
           q == CreateConn("client", p)
<1>0. /\ Running("client") /\ o.ckt.st = "open" /\ o.ckt.socks = "wait"
      /\ \/ Callback("client", k, q)
         \/ ErrorCallback("client", k, NullCircuitClose(p))
  BY DEF SocksConnect
<1>1. /\ proc["client"].run = "running" /\ o \in LinkRecs /\ o.ckt \in CktRecs
      /\ o.conn \in ConnRecs /\ Agree(o)
      /\ o.crash = "no" /\ o.ckt.downstream = o.conn.upstream /\ o.sent \in Nat
      /\ ~broken[k] => DataAt("client", k, o) /\ Form("client", o)
  BY <1>0, ClientSide, Here
<1>2. /\ p \in LinkRecs /\ p.conn = o.conn /\ p.event = o.event /\ p.crash = o.crash
      /\ p.taken = o.taken /\ p.sent = o.sent /\ p.got = o.got /\ p.given = o.given
      /\ p.shut_up = o.shut_up /\ p.shut_down = o.shut_down
      /\ p.ckt = [o.ckt EXCEPT !.socks = "have", !.enabled = {}]
  BY <1>1 DEF LinkRecs, CktRecs
<1> HIDE DEF o, p
<1>3. /\ p.ckt \in CktRecs
      /\ p.ckt.st = o.ckt.st /\ p.ckt.downstream = o.ckt.downstream
      /\ p.ckt.socks = "have" /\ p.ckt.enabled = {}
      /\ p.ckt.upbuf = o.ckt.upbuf /\ p.ckt.read_eof = o.ckt.read_eof
      /\ p.ckt.write_eof = o.ckt.write_eof
      /\ p.ckt.pending_write_eof = o.ckt.pending_write_eof
  BY <1>1, <1>2 DEF CktRecs
<1>4. SameShape(o, p)
  BY <1>2, <1>3 DEF SameShape
<1>5. SameShape(p, x)
  BY <1>2 DEF SameShape, LinkRecs, Crashes
<1>6. /\ x.ckt = p.ckt /\ x.conn = p.conn /\ x.sent = p.sent /\ x.crash = "assert_shutdown"
      /\ x.taken = p.taken /\ x.got = p.got /\ x.given = p.given
      /\ x.shut_up = p.shut_up /\ x.shut_down = p.shut_down
  BY <1>2 DEF LinkRecs
<1>7. /\ a \in LinkRecs /\ a.event = p.event /\ a.crash = p.crash
      /\ a.taken = p.taken /\ a.sent = p.sent /\ a.got = p.got /\ a.given = p.given
      /\ a.shut_up = p.shut_up /\ a.shut_down = p.shut_down
      /\ a.ckt = [p.ckt EXCEPT !.downstream = TRUE]
      /\ a.conn = [p.conn EXCEPT !.st = "open", !.upstream = TRUE]
  BY <1>1, <1>2, <1>3 DEF AddDownstream, LinkRecs, CktRecs, ConnRecs, States
<1>8. q = IF proc["client"].shutting_down THEN x ELSE a
  BY DEF CreateConn
<1> HIDE DEF x, a, q
<1>9. /\ a.ckt.st = p.ckt.st /\ a.ckt.downstream = TRUE /\ a.ckt.socks = p.ckt.socks
      /\ a.ckt.enabled = p.ckt.enabled /\ a.ckt.upbuf = p.ckt.upbuf
      /\ a.ckt.read_eof = p.ckt.read_eof /\ a.ckt.write_eof = p.ckt.write_eof
      /\ a.ckt.pending_write_eof = p.ckt.pending_write_eof
      /\ a.conn.st = "open" /\ a.conn.upstream = TRUE /\ a.conn.enabled = o.conn.enabled
      /\ a.conn.read_eof = o.conn.read_eof /\ a.conn.write_eof = o.conn.write_eof
      /\ a.conn.pending_write_eof = o.conn.pending_write_eof
  BY <1>1, <1>2, <1>3, <1>7 DEF CktRecs, ConnRecs
<1>10. Sound(p, a)
  BY <1>0, <1>3, <1>7, <1>9 DEF Sound, Agree, Waits
<1>11. Sound(o, q)
  <2>1. Sound(o, p) /\ Sound(p, x)
    BY <1>4, <1>5, ShapeSound
  <2> QED
    BY <2>1, <1>8, <1>10, SoundTrans
<1>12. ASSUME ~broken[k]
       PROVE  /\ DataAt("client", k, q) /\ Form("client", q) /\ o.sent <= q.sent
              /\ q.crash = "no" \/ proc["client"].shutting_down
              /\ mode = "simple" => q.ckt.socks = "no"
  <2>1. /\ DataAt("client", k, o) /\ o.conn.st = "none" /\ mode # "simple"
    BY <1>0, <1>1, <1>12, ClientSide DEF Form, RelayInv, ModeInv, o
  <2>2. ~o.conn.write_eof /\ o.conn.enabled = {}
    BY <2>1 DEF DataAt, Data
  <2>3. CASE q = x /\ proc["client"].shutting_down
    <3>1. DataAt("client", k, x)
      BY <2>1, <1>2, <1>3, <1>6 DEF DataAt, Data, EndRead, EndSeen
    <3>2. Form("client", x)
      BY <2>1, <1>0, <1>2, <1>3, <1>6 DEF Form, Connecting
    <3> QED
      BY <2>1, <2>3, <3>1, <3>2, <1>1, <1>2, <1>6
  <2>4. CASE q = a
    <3>1. DataAt("client", k, a)
      BY <2>1, <2>2, <1>0, <1>2, <1>3, <1>7, <1>9 DEF DataAt, Data, EndRead, EndSeen, Over
    <3>2. Form("client", a)
      BY <2>2, <1>0, <1>3, <1>9 DEF Form, Connecting
    <3> QED
      BY <2>1, <2>4, <3>1, <3>2, <1>1, <1>2, <1>7
  <2> QED
    BY <2>3, <2>4, <1>8
<1>13. CASE Callback("client", k, q)
  BY <1>1, <1>11, <1>12, <1>13, ConnectTurn, ClientSide DEF o
<1>14. CASE ErrorCallback("client", k, NullCircuitClose(p))
  <2>1. Sound(o, p) /\ p.ckt.downstream = p.conn.upstream
    BY <1>1, <1>2, <1>3, <1>4, ShapeSound
  <2>2. Sound(o, NullCircuitClose(p))
    BY <2>1, <1>2, NullCircuitCloseFits, SoundTrans
  <2> QED
    BY <2>2, <1>1, <1>14, ErrorTurn, ClientSide DEF o
<1> QED
  BY <1>0, <1>13, <1>14

LEMMA NoLinkType == NoLink \in LinkRecs /\ NoCircuit \in CktRecs /\ NoConn \in ConnRecs
<1>1. NoCircuit \in CktRecs /\ NoConn \in ConnRecs
  BY DEF NoCircuit, NoConn, CktRecs, ConnRecs, States, Both
<1> QED
  BY <1>1 DEF NoLink, LinkRecs, Crashes

\* A fresh circuit on the slot of a stream.
LEMMA FreshTurn ==
    ASSUME RelayInv, NEW s \in Sides, NEW k \in Streams, Running(s), proc[s].listening
    PROVE  /\ proc[s].run = "running" /\ ~proc[s].shutting_down
           /\ link[s][k].crash = "no" /\ link[s][k].event = FALSE
           /\ ~broken[k] /\ (link[s][k].ckt.st = "none" \/ (s = "server" /\ link[s][k].conn.st = "none"))
                 => link[s][k].sent = 0
           /\ link[Other(s)][k].sent \in Nat /\ wrote[s][k] \in Nat
<1>0. TypeOK /\ ProcInv /\ LinkInv /\ WholeInv
  BY DEF RelayInv
<1>1. proc[s].run = "running" /\ ~proc[s].shutting_down
  BY <1>0 DEF ProcInv, Running
<1>2. link[s][k].crash = "no" /\ link[s][k].event = FALSE
  BY <1>0, <1>1 DEF LinkInv
<1>3. ASSUME ~broken[k],
             link[s][k].ckt.st = "none" \/ (s = "server" /\ link[s][k].conn.st = "none")
      PROVE  link[s][k].sent = 0
  <2>1. link[s][k] = NoLink
    BY <1>0, <1>3 DEF WholeInv, Fits, Form
  <2> QED
    BY <2>1 DEF NoLink
<1>4. link[Other(s)][k] \in LinkRecs /\ wrote[s][k] \in Nat
  BY <1>0, SideFacts, LinkType
<1> QED
  BY <1>1, <1>2, <1>3, <1>4, LinkFields

LEMMA ClientAcceptTurn ==
    ASSUME RelayInv, NEW k \in Streams, ClientAccept(k)
    PROVE  RelayInv'
<1> DEFINE o == link["client"][k]
           c == [NoCircuit EXCEPT !.st = "open", !.upbuf = TRUE, !.connected = TRUE]
           p == [NoLink EXCEPT !.ckt.st = "open", !.ckt.upbuf = TRUE,
                               !.ckt.connected = TRUE]
           w == [p EXCEPT !.ckt.socks = "wait", !.ckt.enabled = Both]
           a == AddDownstream(p)
<1>0. /\ Running("client") /\ proc["client"].listening /\ o.ckt.st = "none"
      /\ \/ mode = "socks" /\ Callback("client", k, w)
         \/ Callback("client", k, CreateConn("client", p))
         \/ ErrorCallback("client", k, NullCircuitClose(p))
  BY DEF ClientAccept
<1>1. /\ proc["client"].run = "running" /\ ~proc["client"].shutting_down
      /\ o.crash = "no" /\ o.event = FALSE /\ (~broken[k] => o.sent = 0)
      /\ link[Other("client")][k].sent \in Nat /\ wrote["client"][k] \in Nat
  BY <1>0, ClientSide, FreshTurn
<1>2. /\ p \in LinkRecs /\ p.event = FALSE /\ p.crash = "no" /\ p.conn = NoConn
      /\ p.ckt = c
      /\ p.taken = 0 /\ p.sent = 0 /\ p.got = 0 /\ p.given = 0
      /\ p.shut_up = FALSE /\ p.shut_down = FALSE
  <2>1. c \in CktRecs
    BY NoLinkType DEF CktRecs, States
  <2>2. p = [NoLink EXCEPT !.ckt = c]
    BY NoLinkType DEF NoLink
  <2> HIDE DEF c, p
  <2>3. p \in LinkRecs
    BY <2>1, <2>2, NoLinkType DEF LinkRecs
  <2> QED
    BY <2>2, <2>3 DEF NoLink
<1>3. /\ c \in CktRecs /\ c.st = "open" /\ c.upbuf = TRUE /\ c.downstream = FALSE
      /\ c.socks = "no" /\ c.read_eof = FALSE /\ c.write_eof = FALSE
      /\ c.pending_write_eof = FALSE /\ c.enabled = {}
  BY NoLinkType DEF NoCircuit, CktRecs, States
<1>4. /\ NoConn.st = "none" /\ NoConn.upstream = FALSE /\ NoConn.write_eof = FALSE
      /\ NoConn.read_eof = FALSE /\ NoConn.pending_write_eof = FALSE
      /\ NoConn.enabled = {}
  BY DEF NoConn
<1> HIDE DEF o, p, c
<1>5. Sound(o, p) /\ p.ckt.downstream = p.conn.upstream
  BY <1>1, <1>2, <1>3, <1>4 DEF Sound, Agree, Waits
<1>6. CASE mode = "socks" /\ Callback("client", k, w)
  <2>1. /\ w \in LinkRecs /\ w.event = p.event /\ w.crash = p.crash /\ w.conn = p.conn
        /\ w.taken = p.taken /\ w.sent = p.sent /\ w.got = p.got /\ w.given = p.given
        /\ w.shut_up = p.shut_up /\ w.shut_down = p.shut_down
        /\ w.ckt = [p.ckt EXCEPT !.socks = "wait", !.enabled = Both]
    BY <1>2, <1>3 DEF LinkRecs, CktRecs
  <2> HIDE DEF w
  <2>2. /\ w.ckt.st = "open" /\ w.ckt.downstream = FALSE
        /\ w.ckt.socks = "wait" /\ w.ckt.upbuf = TRUE
        /\ w.ckt.read_eof = FALSE /\ w.ckt.write_eof = FALSE
        /\ w.ckt.pending_write_eof = FALSE
    BY <1>2, <1>3, <2>1 DEF CktRecs
  <2>3. Sound(o, w)
    BY <1>1, <1>2, <1>4, <2>1, <2>2 DEF Sound, Agree, Waits
  <2>4. DataAt("client", k, w)
    BY <1>1, <1>2, <1>4, <2>1, <2>2 DEF DataAt, Data, Over
  <2>5. Form("client", w)
    BY <1>2, <1>4, <2>1, <2>2 DEF Form, Connecting
  <2> QED
    BY <1>1, <1>2, <1>6, <2>1, <2>3, <2>4, <2>5, ConnectTurn, ClientSide DEF o
<1>7. CASE Callback("client", k, CreateConn("client", p))
  <2>1. CreateConn("client", p) = a
    BY <1>1 DEF CreateConn
  <2>2. /\ a \in LinkRecs /\ a.event = p.event /\ a.crash = p.crash
        /\ a.taken = p.taken /\ a.sent = p.sent /\ a.got = p.got /\ a.given = p.given
        /\ a.shut_up = p.shut_up /\ a.shut_down = p.shut_down
        /\ a.ckt = [p.ckt EXCEPT !.downstream = TRUE]
        /\ a.conn = [p.conn EXCEPT !.st = "open", !.upstream = TRUE]
    BY ZenonT(60), <1>2, <1>3, NoLinkType DEF AddDownstream, LinkRecs, CktRecs, ConnRecs, States
  <2> HIDE DEF a
  <2>3. /\ a.ckt.st = "open" /\ a.ckt.downstream = TRUE
        /\ a.ckt.socks = "no" /\ a.ckt.upbuf = TRUE /\ a.ckt.enabled = {}
        /\ a.ckt.read_eof = FALSE /\ a.ckt.write_eof = FALSE
        /\ a.ckt.pending_write_eof = FALSE
    BY <1>2, <1>3, <2>2 DEF CktRecs
  <2>4. /\ a.conn.st = "open" /\ a.conn.upstream = TRUE /\ a.conn.enabled = {}
        /\ a.conn.read_eof = FALSE /\ a.conn.write_eof = FALSE
        /\ a.conn.pending_write_eof = FALSE
    BY <1>2, <1>4, <2>2, NoLinkType DEF ConnRecs
  <2>5. Sound(o, a)
    BY <1>1, <1>2, <2>2, <2>3, <2>4 DEF Sound, Agree, Waits
  <2>6. DataAt("client", k, a)
    BY <1>1, <1>2, <2>2, <2>3, <2>4 DEF DataAt, Data, Over
  <2>7. Form("client", a)
    BY <2>3, <2>4 DEF Form
  <2>8. ~broken[k] => o.sent <= a.sent
    BY <1>1, <1>2, <2>2
  <2>9. Callback("client", k, a) /\ a.crash = "no"
    BY <1>2, <1>7, <2>1, <2>2
  <2> QED
    BY <1>1, <2>3, <2>5, <2>6, <2>7, <2>8, <2>9, ConnectTurn, ClientSide DEF o
<1>8. CASE ErrorCallback("client", k, NullCircuitClose(p))
  <2>1. Sound(o, NullCircuitClose(p))
    BY <1>2, <1>5, NullCircuitCloseFits, SoundTrans
  <2> QED
    BY <2>1, <1>1, <1>8, ErrorTurn, ClientSide DEF o
<1> QED
  BY <1>0, <1>6, <1>7, <1>8

LEMMA ServerAcceptTurn ==
    ASSUME RelayInv, NEW k \in Streams, ServerAccept(k)
    PROVE  RelayInv'
<1> DEFINE o == link["server"][k]
           c == [NoCircuit EXCEPT !.downstream = TRUE, !.st = "open"]
           d == [NoConn EXCEPT !.st = "open", !.upstream = TRUE, !.connected = TRUE,
                               !.enabled = Both]
           p == [AddDownstream(NoLink) EXCEPT !.ckt.st = "open",
                      !.conn.connected = TRUE, !.conn.enabled = Both]
           q == [p EXCEPT !.ckt.upbuf = TRUE]
<1>0. /\ Running("server") /\ proc["server"].listening /\ o.conn.st = "none"
      /\ \/ Callback("server", k, q)
         \/ ErrorCallback("server", k, p)
  BY DEF ServerAccept
<1>1. /\ proc["server"].run = "running" /\ ~proc["server"].shutting_down
      /\ o.crash = "no" /\ o.event = FALSE /\ (~broken[k] => o.sent = 0)
      /\ link[Other("server")][k].sent \in Nat /\ wrote["server"][k] \in Nat
  BY <1>0, ClientSide, FreshTurn
<1>2. /\ c \in CktRecs /\ c.st = "open" /\ c.downstream = TRUE
      /\ c.socks = "no" /\ c.read_eof = FALSE /\ c.write_eof = FALSE
      /\ c.pending_write_eof = FALSE
  BY NoLinkType DEF NoCircuit, CktRecs, States
<1>3. /\ d \in ConnRecs /\ d.st = "open" /\ d.upstream = TRUE /\ d.connected = TRUE
      /\ d.read_eof = FALSE /\ d.write_eof = FALSE /\ d.pending_write_eof = FALSE
  BY NoLinkType DEF NoConn, ConnRecs, States
<1>4. p = [NoLink EXCEPT !.ckt = c, !.conn = d]
  BY ZenonT(60), NoLinkType DEF AddDownstream, NoLink
<1> HIDE DEF o, p, c, d
<1>5. p \in LinkRecs
  BY <1>2, <1>3, <1>4, NoLinkType DEF LinkRecs
<1>6. /\ p.event = FALSE /\ p.crash = "no" /\ p.conn = d /\ p.ckt = c
      /\ p.taken = 0 /\ p.sent = 0 /\ p.got = 0 /\ p.given = 0
      /\ p.shut_up = FALSE /\ p.shut_down = FALSE
  BY <1>4 DEF NoLink
<1>7. Sound(o, p)
  BY <1>1, <1>2, <1>3, <1>5, <1>6 DEF Sound, Agree, Waits
<1>8. CASE ErrorCallback("server", k, p)
  BY <1>1, <1>7, <1>8, ErrorTurn, ClientSide DEF o
<1>9. CASE Callback("server", k, q)
  <2>1. /\ q \in LinkRecs /\ q.event = FALSE /\ q.crash = "no" /\ q.conn = d
        /\ q.taken = 0 /\ q.sent = 0 /\ q.got = 0 /\ q.given = 0
        /\ q.shut_up = FALSE /\ q.shut_down = FALSE
        /\ q.ckt = [c EXCEPT !.upbuf = TRUE]
    BY <1>2, <1>5, <1>6 DEF LinkRecs, CktRecs
  <2> HIDE DEF q
  <2>2. /\ q.ckt.st = "open" /\ q.ckt.downstream = TRUE /\ q.ckt.upbuf = TRUE
        /\ q.ckt.socks = "no" /\ q.ckt.read_eof = FALSE /\ q.ckt.write_eof = FALSE
        /\ q.ckt.pending_write_eof = FALSE
    BY <1>2, <2>1 DEF CktRecs
  <2>3. Sound(o, q)
    BY <1>1, <1>3, <2>1, <2>2 DEF Sound, Agree, Waits
  <2>4. DataAt("server", k, q)
    BY <1>1, <1>3, <2>1, <2>2 DEF DataAt, Data, Over
  <2>5. Form("server", q)
    BY <1>3, <2>1, <2>2 DEF Form
  <2>6. ~broken[k] => o.sent <= q.sent
    BY <1>1, <2>1
  <2>7. q.crash = "no" /\ q.ckt.socks = "no"
    BY <2>1, <2>2
  <2> QED
    BY <1>1, <1>9, <2>3, <2>4, <2>5, <2>6, <2>7, ConnectTurn, ClientSide DEF o
<1> QED
  BY <1>0, <1>8, <1>9

-----------------------------------------------------------------------------
(***************************************************************************)
(* Deferred deletion, shutdown, and the programs.                          *)
(***************************************************************************)
LEMMA DeletedFits ==
    ASSUME NEW p \in LinkRecs
    PROVE  LET q == Deleted(p)
           IN  /\ q \in LinkRecs /\ q.event = p.event /\ q.crash = p.crash /\ q.sent = p.sent
               /\ ~Waits(q) /\ (Agree(p) => Agree(q))
               /\ p.ckt.st # "open" => q.ckt.st \in {"none", "deleted"}
               /\ p.conn.st # "open" => q.conn.st \in {"none", "deleted"}
               /\ q.ckt.socks = p.ckt.socks
               /\ \A s, ps, w, wo, e, eo :
                     Fits(s, p, ps, w, wo, e, eo) => Fits(s, q, ps, w, wo, e, eo)
<1> DEFINE q == Deleted(p)
           c == [p.ckt EXCEPT !.st = IF @ = "closed" THEN "deleted" ELSE @]
           d == [p.conn EXCEPT !.st = IF @ = "closed" THEN "deleted" ELSE @]
<1>0. p.ckt \in CktRecs /\ p.conn \in ConnRecs
  BY LinkFields
<1>1. /\ c \in CktRecs /\ c.st = IF p.ckt.st = "closed" THEN "deleted" ELSE p.ckt.st
      /\ c.downstream = p.ckt.downstream /\ c.socks = p.ckt.socks
      /\ c.enabled = p.ckt.enabled /\ c.upbuf = p.ckt.upbuf
      /\ c.read_eof = p.ckt.read_eof /\ c.write_eof = p.ckt.write_eof
      /\ c.pending_write_eof = p.ckt.pending_write_eof
      /\ p.ckt.st # "closed" => c = p.ckt
  BY <1>0 DEF CktRecs, States
<1>2. /\ d \in ConnRecs /\ d.st = IF p.conn.st = "closed" THEN "deleted" ELSE p.conn.st
      /\ d.upstream = p.conn.upstream /\ d.enabled = p.conn.enabled
      /\ d.connected = p.conn.connected /\ d.failed = p.conn.failed
      /\ d.read_eof = p.conn.read_eof /\ d.write_eof = p.conn.write_eof
      /\ d.pending_write_eof = p.conn.pending_write_eof
      /\ p.conn.st # "closed" => d = p.conn
  BY <1>0 DEF ConnRecs, States
<1>3. q = [p EXCEPT !.ckt = c, !.conn = d]
  BY DEF Deleted, LinkRecs
<1>s. p.ckt.st \in States /\ p.conn.st \in States
  BY <1>0 DEF CktRecs, ConnRecs
<1> HIDE DEF q, c, d
<1>4. /\ q \in LinkRecs /\ q.ckt = c /\ q.conn = d
      /\ q.event = p.event /\ q.crash = p.crash
      /\ q.taken = p.taken /\ q.sent = p.sent /\ q.got = p.got /\ q.given = p.given
      /\ q.shut_up = p.shut_up /\ q.shut_down = p.shut_down
  BY <1>1, <1>2, <1>3 DEF LinkRecs
<1>5. p = NoLink => q = NoLink
  <2> SUFFICES ASSUME p = NoLink PROVE q = p
    OBVIOUS
  <2>1. c = p.ckt /\ d = p.conn
    BY <1>1, <1>2 DEF NoLink, NoCircuit, NoConn
  <2> QED
    BY <2>1, <1>3 DEF LinkRecs
<1>6. ~Waits(q) /\ (Agree(p) => Agree(q))
  BY <1>1, <1>2, <1>4 DEF Waits, Agree
<1>7. /\ p.ckt.st # "open" => q.ckt.st \in {"none", "deleted"}
      /\ p.conn.st # "open" => q.conn.st \in {"none", "deleted"}
  BY <1>1, <1>2, <1>4, <1>s DEF States
<1>8. ASSUME NEW s, NEW ps, NEW w, NEW wo, NEW e, NEW eo, Fits(s, p, ps, w, wo, e, eo)
      PROVE  Fits(s, q, ps, w, wo, e, eo)
  <2>1. /\ q.ckt.st = "none" <=> p.ckt.st = "none"
        /\ q.ckt.st \in Over <=> p.ckt.st \in Over
        /\ q.ckt.st = "open" <=> p.ckt.st = "open"
        /\ q.conn.st = "none" <=> p.conn.st = "none"
        /\ q.conn.st \in Over <=> p.conn.st \in Over
        /\ q.conn.st = "open" <=> p.conn.st = "open"
        /\ Connecting(q) => Connecting(p)
    BY <1>1, <1>2, <1>4 DEF Over, Connecting
  <2>2. Form(s, q)
    BY <1>1, <1>2, <1>4, <1>5, <1>8, <2>1 DEF Fits, Form
  <2>3. p.ckt.st = "none" \/ Data(q, ps, w, wo, e, eo)
    BY <1>1, <1>2, <1>4, <1>8, <2>1 DEF Fits, Data, EndRead, EndSeen
  <2> QED
    BY <2>1, <2>2, <2>3 DEF Fits
<1> QED
  BY <1>1, <1>4, <1>6, <1>7, <1>8 DEF q

LEMMA CleanupTurn ==
    ASSUME RelayInv, NEW s \in Sides, Cleanup(s)
    PROVE  RelayInv'
<1>0. TypeOK /\ ProcInv /\ LinkInv /\ WholeInv /\ ModeInv /\ CrashNeedsError
  BY DEF RelayInv
<1>1. /\ wrote' = wrote /\ ended' = ended /\ mode' = mode /\ broken' = broken
      /\ link' = [link EXCEPT ![s] = [k \in Streams |-> Deleted(link[s][k])]]
      /\ Running(s)
  BY DEF Cleanup
<1> DEFINE run == IF proc[s].shutting_down /\ Circuits(s) = {} /\ Conns(s) = {}
                  THEN "exiting" ELSE proc[s].run
<1>2. proc' = [proc EXCEPT ![s] = [proc[s] EXCEPT !.cleanup = FALSE, !.run = run]]
  BY DEF Cleanup
<1>3. run \in {"running", "exiting"}
  BY <1>1 DEF Running
<1>r. run = "exiting" => \/ proc[s].shutting_down /\ Circuits(s) = {} /\ Conns(s) = {}
                         \/ proc[s].run = "exiting"
  OBVIOUS
<1> HIDE DEF run
<1>4. \A t \in Sides, k \in Streams : link[t][k] \in LinkRecs
  BY <1>0, LinkType
<1>5. /\ \A k \in Streams : link'[s][k] = Deleted(link[s][k])
      /\ \A t \in Sides : t # s => link'[t] = link[t]
      /\ link' \in [Sides -> [Streams -> LinkRecs]]
  BY <1>0, <1>1, <1>4, DeletedFits DEF TypeOK
<1>6. proc[s] \in ProcRecs
  BY <1>0 DEF TypeOK
<1>7. /\ proc' \in [Sides -> ProcRecs]
      /\ \A t \in Sides : t # s => proc'[t] = proc[t]
      /\ proc'[s] = [proc[s] EXCEPT !.cleanup = FALSE, !.run = run]
  <2>1. [proc[s] EXCEPT !.cleanup = FALSE, !.run = run] \in ProcRecs
    BY <1>3, <1>6 DEF ProcRecs
  <2> QED
    BY <2>1, <1>0, <1>2 DEF TypeOK
<1>8. /\ proc'[s].run = run /\ proc'[s].shutting_down = proc[s].shutting_down
      /\ proc'[s].listening = proc[s].listening /\ proc'[s].crash = proc[s].crash
  BY <1>6, <1>7 DEF ProcRecs
<1>9. TypeOK'
  BY <1>0, <1>1, <1>5, <1>7 DEF TypeOK
<1>10. ProcInv'
  <2> SUFFICES ASSUME NEW t \in Sides
               PROVE  /\ Running(t)' /\ Waiting(t)' # {} => proc'[t].cleanup
                      /\ proc'[t].shutting_down => ~proc'[t].listening
                      /\ proc'[t].run \in {"exiting", "exited"} => proc'[t].shutting_down
                      /\ proc'[t].crash # "no" => proc'[t].run = "crashed"
    BY DEF ProcInv
  <2>1. CASE t # s
    <3>1. proc'[t] = proc[t] /\ Waiting(t)' = Waiting(t)
      BY <2>1, <1>5, <1>7 DEF Waiting
    <3>2. Running(t)' = Running(t)
      BY <3>1 DEF Running
    <3> QED
      BY <3>1, <3>2, <1>0 DEF ProcInv
  <2>2. CASE t = s
    <3>1. Waiting(s)' = {}
      <4>1. \A k \in Streams : ~Waits(link'[s][k])
        BY <1>4, <1>5, DeletedFits
      <4> QED
        BY <4>1 DEF Waiting, Waits
    <3>2. proc[s].crash = "no"
      BY <1>0, <1>1 DEF ProcInv, Running
    <3> QED
      BY <2>2, <3>1, <3>2, <1>0, <1>3, <1>8, <1>r DEF ProcInv
  <2> QED
    BY <2>1, <2>2
<1>11. LinkInv'
  <2> SUFFICES ASSUME NEW t \in Sides, NEW j \in Streams
               PROVE  /\ link'[t][j].event = FALSE
                      /\ proc'[t].run # "crashed" =>
                            link'[t][j].crash = "no" /\ Agree(link'[t][j])
                      /\ proc'[t].run \in {"exiting", "exited"} =>
                            /\ link'[t][j].ckt.st \in {"none", "deleted"}
                            /\ link'[t][j].conn.st \in {"none", "deleted"}
    BY DEF LinkInv
  <2>1. CASE t # s
    BY <2>1, <1>0, <1>5, <1>7 DEF LinkInv
  <2>2. CASE t = s
    <3>1. link[s][j].crash = "no" /\ link[s][j].event = FALSE /\ Agree(link[s][j])
      BY <1>0, <1>1 DEF LinkInv, Running
    <3>2. run = "exiting" => link[s][j].ckt.st # "open" /\ link[s][j].conn.st # "open"
      BY <1>0, <1>r DEF LinkInv, Circuits, Conns
    <3>3. run # "exited"
      BY <1>3
    <3> QED
      BY <2>2, <3>1, <3>2, <3>3, <1>4, <1>5, <1>8, DeletedFits
  <2> QED
    BY <2>1, <2>2
<1>12. \A t \in Sides, k \in Streams :
          /\ link'[t][k].sent = link[t][k].sent
          /\ link'[t][k].ckt.socks = link[t][k].ckt.socks
          /\ \A ps, w, wo, e, eo :
                Fits(t, link[t][k], ps, w, wo, e, eo) => Fits(t, link'[t][k], ps, w, wo, e, eo)
  BY <1>4, <1>5, DeletedFits
<1>13. WholeInv'
  <2> SUFFICES ASSUME NEW k \in Streams, ~broken[k], NEW t \in Sides
               PROVE  Fits(t, link'[t][k], link'[Other(t)][k].sent, wrote[t][k],
                           wrote[Other(t)][k], ended[t][k], ended[Other(t)][k])
    BY <1>1 DEF WholeInv
  <2>1. Fits(t, link[t][k], link[Other(t)][k].sent, wrote[t][k],
             wrote[Other(t)][k], ended[t][k], ended[Other(t)][k])
    BY <1>0 DEF WholeInv
  <2> QED
    BY <2>1, <1>12, SideFacts
<1>14. ModeInv'
  BY <1>0, <1>1, <1>12 DEF ModeInv
<1>15. CrashNeedsError'
  <2>1. \A t \in Sides : /\ proc'[t].crash = proc[t].crash
                         /\ proc'[t].shutting_down = proc[t].shutting_down
    BY <1>7, <1>8
  <2> QED
    BY <2>1, <1>0, <1>1 DEF CrashNeedsError
<1> QED
  BY <1>9, <1>10, <1>11, <1>13, <1>14, <1>15 DEF RelayInv

LEMMA CloseAllFits ==
    ASSUME NEW p \in LinkRecs, Agree(p)
    PROVE  /\ CloseAll(p) \in LinkRecs /\ CloseAll(p).crash = p.crash /\ Agree(CloseAll(p))
<1> DEFINE q == IF p.ckt.st = "open" THEN NullCircuitClose(p) ELSE p
           r == IF q.conn.st = "open" THEN NullConnClose(q) ELSE q
<1>0. p.ckt \in CktRecs /\ p.conn \in ConnRecs /\ p.ckt.downstream = p.conn.upstream
  BY LinkFields DEF Agree
<1>1. /\ q \in LinkRecs /\ q.crash = p.crash
      /\ q.ckt.downstream = FALSE /\ q.conn.upstream = FALSE
  <2>1. CASE p.ckt.st = "open"
    BY <2>1, <1>0, NullCircuitCloseFits DEF Sound, Calm
  <2>2. CASE p.ckt.st # "open"
    <3>1. q = p
      BY <2>2
    <3>2. p.conn.upstream = FALSE /\ p.ckt.downstream = FALSE
      BY <2>2, <1>0 DEF Agree, ConnRecs
    <3> QED
      BY <3>1, <3>2
  <2> QED
    BY <2>1, <2>2
<1> HIDE DEF q
<1>2. CASE q.conn.st = "open"
  <2>1. r = ConnBaseClose(q)
    BY <1>1, <1>2 DEF NullConnClose
  <2>2. Sound(q, r) /\ r.conn.upstream = FALSE /\ r.ckt.downstream = FALSE /\ Calm(q, r)
    BY <2>1, <1>1, <1>2, ConnBaseCloseFits
  <2>3. r \in LinkRecs /\ r.crash = p.crash /\ Agree(r)
    BY <2>2, <1>1 DEF Sound, Calm, Agree
  <2> QED
    BY <2>3 DEF CloseAll, q
<1>3. CASE q.conn.st # "open"
  <2>1. r = q /\ Agree(q)
    BY <1>1, <1>3 DEF Agree
  <2> QED
    BY <2>1, <1>1 DEF CloseAll, q
<1> QED
  BY <1>2, <1>3

LEMMA ShutdownTurn ==
    ASSUME RelayInv, NEW s \in Sides, NEW how \in Shutdowns, Shutdown(s, how)
    PROVE  RelayInv'
<1>0. TypeOK /\ ProcInv /\ LinkInv /\ WholeInv /\ ModeInv /\ CrashNeedsError
  BY DEF RelayInv
<1>1. /\ wrote' = wrote /\ ended' = ended /\ mode' = mode /\ Running(s)
      /\ broken' = [k \in Streams |-> broken[k] \/ how = "signal"]
  BY DEF Shutdown
<1>b. /\ broken' \in [Streams -> BOOLEAN]
      /\ \A k \in Streams : broken'[k] = (broken[k] \/ how = "signal")
  BY <1>1
<1>2. proc[s] \in ProcRecs
  BY <1>0 DEF TypeOK
<1>3. CASE proc[s].run = "exiting"
  <2>1. /\ link' = link
        /\ proc' = [proc EXCEPT ![s] = [proc[s] EXCEPT !.run = "crashed",
                                                       !.crash = "freed_state"]]
    BY <1>3 DEF Shutdown
  <2>2. [proc[s] EXCEPT !.run = "crashed", !.crash = "freed_state"] \in ProcRecs
    BY <1>2 DEF ProcRecs, Crashes
  <2>3. /\ proc' \in [Sides -> ProcRecs] /\ \A t \in Sides : t # s => proc'[t] = proc[t]
        /\ proc'[s] = [proc[s] EXCEPT !.run = "crashed", !.crash = "freed_state"]
    BY <2>1, <2>2, <1>0 DEF TypeOK
  <2>4. /\ proc'[s].run = "crashed" /\ proc'[s].shutting_down = proc[s].shutting_down
        /\ proc'[s].listening = proc[s].listening
    BY <2>3, <1>2 DEF ProcRecs
  <2>5. proc[s].shutting_down
    BY <1>0, <1>3 DEF ProcInv
  <2>6. TypeOK'
    BY <1>0, <1>1, <1>b, <2>1, <2>3 DEF TypeOK
  <2>7. ProcInv'
    <3> SUFFICES ASSUME NEW t \in Sides
                 PROVE  /\ Running(t)' /\ Waiting(t)' # {} => proc'[t].cleanup
                        /\ proc'[t].shutting_down => ~proc'[t].listening
                        /\ proc'[t].run \in {"exiting", "exited"} => proc'[t].shutting_down
                        /\ proc'[t].crash # "no" => proc'[t].run = "crashed"
      BY DEF ProcInv
    <3>1. CASE t # s
      <4>1. proc'[t] = proc[t] /\ Waiting(t)' = Waiting(t)
        BY <3>1, <2>1, <2>3 DEF Waiting
      <4>2. Running(t)' = Running(t)
        BY <4>1 DEF Running
      <4> QED
        BY <4>1, <4>2, <1>0 DEF ProcInv
    <3>2. CASE t = s
      BY <3>2, <2>4, <1>0 DEF ProcInv, Running
    <3> QED
      BY <3>1, <3>2
  <2>8. LinkInv'
    BY <1>0, <2>1, <2>3, <2>4 DEF LinkInv
  <2>9. WholeInv' /\ ModeInv'
    BY <1>0, <1>1, <1>b, <2>1 DEF WholeInv, ModeInv
  <2>10. CrashNeedsError'
    BY <1>0, <1>b, <2>3, <2>4, <2>5 DEF CrashNeedsError
  <2> QED
    BY <2>6, <2>7, <2>8, <2>9, <2>10 DEF RelayInv
<1>4. CASE proc[s].run # "exiting"
  <2> DEFINE asked == proc[s].asked \cup {how}
             x == [proc[s] EXCEPT !.listening = FALSE, !.asked = asked,
                                  !.shutting_down = TRUE, !.cleanup = TRUE]
  <2>1. /\ proc' = [proc EXCEPT ![s] = x]
        /\ link' = IF how = "stdin" THEN link
                   ELSE [link EXCEPT ![s] = [k \in Streams |->
                            [CloseAll(link[s][k]) EXCEPT !.event = FALSE]]]
    BY <1>4 DEF Shutdown
  <2>2. /\ x \in ProcRecs /\ x.shutting_down = TRUE /\ x.listening = FALSE
        /\ x.cleanup = TRUE /\ x.run = proc[s].run /\ x.crash = proc[s].crash
    BY <1>2 DEF ProcRecs
  <2> HIDE DEF x
  <2>3. /\ proc' \in [Sides -> ProcRecs] /\ \A t \in Sides : t # s => proc'[t] = proc[t]
        /\ proc'[s] = x
    BY <2>1, <2>2, <1>0 DEF TypeOK
  <2>4. proc[s].run = "running"
    BY <1>1, <1>4 DEF Running
  <2>5. \A k \in Streams : /\ link[s][k] \in LinkRecs /\ Agree(link[s][k])
                           /\ link[s][k].crash = "no" /\ link[s][k].event = FALSE
    BY <1>0, <2>4, LinkType DEF LinkInv
  <2>6. \A k \in Streams : LET z == [CloseAll(link[s][k]) EXCEPT !.event = FALSE]
                           IN  /\ z \in LinkRecs /\ z.event = FALSE /\ z.crash = "no"
                               /\ Agree(z)
    <3> SUFFICES ASSUME NEW k \in Streams
                 PROVE  LET z == [CloseAll(link[s][k]) EXCEPT !.event = FALSE]
                        IN  /\ z \in LinkRecs /\ z.event = FALSE /\ z.crash = "no"
                            /\ Agree(z)
      OBVIOUS
    <3> DEFINE q == CloseAll(link[s][k])
               z == [q EXCEPT !.event = FALSE]
    <3>1. q \in LinkRecs /\ q.crash = "no" /\ Agree(q)
      BY <2>5, CloseAllFits
    <3> HIDE DEF q
    <3>2. /\ z \in LinkRecs /\ z.event = FALSE /\ z.crash = q.crash
          /\ z.ckt = q.ckt /\ z.conn = q.conn
      BY <3>1, EventCleared
    <3> HIDE DEF z
    <3>3. Agree(z)
      BY <3>1, <3>2 DEF Agree
    <3> QED
      BY <3>1, <3>2, <3>3 DEF z, q
  <2>7. /\ \A t \in Sides : t # s => link'[t] = link[t]
        /\ \A k \in Streams : /\ link'[s][k] \in LinkRecs /\ Agree(link'[s][k])
                              /\ link'[s][k].crash = "no" /\ link'[s][k].event = FALSE
        /\ link' \in [Sides -> [Streams -> LinkRecs]]
    <3>1. CASE how = "stdin"
      BY <3>1, <2>1, <2>5, <1>0 DEF TypeOK
    <3>2. CASE how # "stdin"
      <4> DEFINE f == [k \in Streams |-> [CloseAll(link[s][k]) EXCEPT !.event = FALSE]]
      <4>1. /\ f \in [Streams -> LinkRecs]
            /\ \A k \in Streams : /\ f[k] \in LinkRecs /\ Agree(f[k])
                                  /\ f[k].crash = "no" /\ f[k].event = FALSE
        BY <2>6
      <4>2. link' = [link EXCEPT ![s] = f]
        BY <3>2, <2>1
      <4> HIDE DEF f
      <4>3. /\ \A t \in Sides : t # s => link'[t] = link[t]
            /\ link'[s] = f /\ link' \in [Sides -> [Streams -> LinkRecs]]
        BY <4>1, <4>2, <1>0 DEF TypeOK
      <4> QED
        BY <4>1, <4>3
    <3> QED
      BY <3>1, <3>2
  <2>8. TypeOK'
    BY <1>0, <1>1, <1>b, <2>3, <2>7 DEF TypeOK
  <2>9. ProcInv'
    <3> SUFFICES ASSUME NEW t \in Sides
                 PROVE  /\ Running(t)' /\ Waiting(t)' # {} => proc'[t].cleanup
                        /\ proc'[t].shutting_down => ~proc'[t].listening
                        /\ proc'[t].run \in {"exiting", "exited"} => proc'[t].shutting_down
                        /\ proc'[t].crash # "no" => proc'[t].run = "crashed"
      BY DEF ProcInv
    <3>1. CASE t # s
      <4>1. proc'[t] = proc[t] /\ Waiting(t)' = Waiting(t)
        BY <3>1, <2>3, <2>7 DEF Waiting
      <4>2. Running(t)' = Running(t)
        BY <4>1 DEF Running
      <4> QED
        BY <4>1, <4>2, <1>0 DEF ProcInv
    <3>2. CASE t = s
      BY <3>2, <2>2, <2>3, <1>0 DEF ProcInv
    <3> QED
      BY <3>1, <3>2
  <2>10. LinkInv'
    <3>1. proc'[s].run = "running"
      BY <2>2, <2>3, <2>4
    <3> QED
      BY <3>1, <1>0, <2>3, <2>7 DEF LinkInv
  <2>11. WholeInv' /\ ModeInv'
    <3>1. CASE how = "stdin"
      <4>1. link' = link
        BY <3>1, <2>1
      <4> QED
        BY <4>1, <1>0, <1>1, <1>b DEF WholeInv, ModeInv
    <3>2. CASE how # "stdin"
      <4>1. how = "signal"
        BY <3>2, RelayAssumption
      <4>2. \A k \in Streams : broken'[k]
        BY <4>1, <1>b
      <4> QED
        BY <4>2 DEF WholeInv, ModeInv
    <3> QED
      BY <3>1, <3>2
  <2>12. CrashNeedsError'
    <3>1. \A k \in Streams : broken[k] => broken'[k]
      BY <1>b
    <3> QED
      BY <3>1, <1>0, <2>2, <2>3 DEF CrashNeedsError
  <2> QED
    BY <2>8, <2>9, <2>10, <2>11, <2>12 DEF RelayInv
<1> QED
  BY <1>3, <1>4

LEMMA LoopExitTurn ==
    ASSUME RelayInv, NEW s \in Sides, LoopExit(s)
    PROVE  RelayInv'
<1>0. TypeOK /\ ProcInv /\ LinkInv /\ WholeInv /\ ModeInv /\ CrashNeedsError
  BY DEF RelayInv
<1>1. /\ wrote' = wrote /\ ended' = ended /\ mode' = mode /\ broken' = broken /\ link' = link
      /\ proc' = [proc EXCEPT ![s] = [proc[s] EXCEPT !.run = "exited"]]
      /\ proc[s].run = "exiting"
  BY DEF LoopExit
<1>2. proc[s] \in ProcRecs
  BY <1>0 DEF TypeOK
<1>3. [proc[s] EXCEPT !.run = "exited"] \in ProcRecs
  BY <1>2 DEF ProcRecs
<1>4. /\ proc' \in [Sides -> ProcRecs] /\ \A t \in Sides : t # s => proc'[t] = proc[t]
      /\ proc'[s] = [proc[s] EXCEPT !.run = "exited"]
  BY <1>0, <1>1, <1>3 DEF TypeOK
<1>5. /\ proc'[s].run = "exited" /\ proc'[s].shutting_down = proc[s].shutting_down
      /\ proc'[s].listening = proc[s].listening /\ proc'[s].crash = proc[s].crash
  BY <1>2, <1>4 DEF ProcRecs
<1>6. TypeOK'
  BY <1>0, <1>1, <1>4 DEF TypeOK
<1>7. ProcInv'
  <2> SUFFICES ASSUME NEW t \in Sides
               PROVE  /\ Running(t)' /\ Waiting(t)' # {} => proc'[t].cleanup
                      /\ proc'[t].shutting_down => ~proc'[t].listening
                      /\ proc'[t].run \in {"exiting", "exited"} => proc'[t].shutting_down
                      /\ proc'[t].crash # "no" => proc'[t].run = "crashed"
    BY DEF ProcInv
  <2>1. CASE t # s
    <3>1. proc'[t] = proc[t] /\ Waiting(t)' = Waiting(t)
      BY <2>1, <1>1, <1>4 DEF Waiting
    <3>2. Running(t)' = Running(t)
      BY <3>1 DEF Running
    <3> QED
      BY <3>1, <3>2, <1>0 DEF ProcInv
  <2>2. CASE t = s
    BY <2>2, <1>0, <1>1, <1>5 DEF ProcInv, Running
  <2> QED
    BY <2>1, <2>2
<1>8. LinkInv'
  BY <1>0, <1>1, <1>4, <1>5 DEF LinkInv
<1>9. WholeInv' /\ ModeInv'
  BY <1>0, <1>1 DEF WholeInv, ModeInv
<1>10. CrashNeedsError'
  BY <1>0, <1>1, <1>4, <1>5 DEF CrashNeedsError
<1> QED
  BY <1>6, <1>7, <1>8, <1>9, <1>10 DEF RelayInv

\* The programs write and end only while their sides are open.
LEMMA MoreWrittenFits ==
    ASSUME NEW p \in LinkRecs, NEW s, NEW ps, NEW w \in Nat, NEW wo, NEW e, NEW eo,
           Fits(s, p, ps, w, wo, e, eo)
    PROVE  /\ ~e => /\ Fits(s, p, ps, w + 1, wo, e, eo)
                    /\ \A f : Fits(s, p, ps, w, wo, f, eo)
           /\ ~eo => \A v : Fits(s, p, ps, w, v, e, eo) /\ Fits(s, p, ps, w, wo, e, v)
<1>0. p.taken \in Nat
  BY LinkFields
<1>1. ASSUME ~e, NEW f
      PROVE  Fits(s, p, ps, w + 1, wo, e, eo) /\ Fits(s, p, ps, w, wo, f, eo)
  <2>1. CASE p.ckt.st = "none"
    BY <2>1 DEF Fits
  <2>2. CASE p.ckt.st # "none"
    <3>1. /\ Data(p, ps, w, wo, e, eo) /\ ~p.ckt.read_eof /\ ~p.conn.pending_write_eof
          /\ ~p.conn.write_eof /\ ~p.shut_down /\ p.conn.st \notin Over
      BY <1>1, <2>2 DEF Fits, Data, EndRead
    <3>2. p.taken <= w + 1
      BY <3>1, <1>0 DEF Data
    <3>3. Data(p, ps, w + 1, wo, e, eo)
      BY <3>1, <3>2 DEF Data
    <3>4. Data(p, ps, w, wo, f, eo)
      BY <3>1 DEF Data
    <3> QED
      BY <3>3, <3>4 DEF Fits
  <2> QED
    BY <2>1, <2>2
<1>2. ASSUME ~eo, NEW v
      PROVE  Fits(s, p, ps, w, v, e, eo) /\ Fits(s, p, ps, w, wo, e, v)
  <2>1. CASE p.ckt.st = "none"
    BY <2>1 DEF Fits
  <2>2. CASE p.ckt.st # "none"
    <3>1. /\ Data(p, ps, w, wo, e, eo) /\ ~p.conn.read_eof /\ ~p.ckt.pending_write_eof
          /\ ~p.ckt.write_eof /\ ~p.shut_up
      BY <1>2, <2>2 DEF Fits, Data, EndSeen
    <3> QED
      BY <3>1 DEF Fits, Data
  <2> QED
    BY <2>1, <2>2
<1> QED
  BY <1>1, <1>2

\* Nothing but what the programs have done is different.
LEMMA ProgramTurn ==
    ASSUME RelayInv, UNCHANGED <<mode, proc, link, broken>>,
           wrote' \in [Sides -> [Streams -> Nat]], ended' \in [Sides -> [Streams -> BOOLEAN]],
           WholeInv'
    PROVE  RelayInv'
<1>0. TypeOK /\ ProcInv /\ LinkInv /\ ModeInv /\ CrashNeedsError
  BY DEF RelayInv
<1>1. TypeOK'
  BY <1>0 DEF TypeOK
<1>2. ProcInv' /\ LinkInv' /\ ModeInv' /\ CrashNeedsError'
  BY <1>0 DEF ProcInv, LinkInv, ModeInv, CrashNeedsError, Running, Waiting
<1> QED
  BY <1>1, <1>2 DEF RelayInv

LEMMA WriteTurn ==
    ASSUME RelayInv, NEW s \in Sides, NEW k \in Streams, Write(s, k)
    PROVE  RelayInv'
<1>0. TypeOK /\ WholeInv
  BY DEF RelayInv
<1>1. /\ wrote' = [wrote EXCEPT ![s][k] = @ + 1] /\ ~ended[s][k]
      /\ UNCHANGED <<mode, proc, link, ended, broken, faults>>
  BY DEF Write
<1>2. /\ wrote' \in [Sides -> [Streams -> Nat]]
      /\ wrote'[s][k] = wrote[s][k] + 1
      /\ \A t \in Sides, j \in Streams : t # s \/ j # k => wrote'[t][j] = wrote[t][j]
  BY <1>0, <1>1 DEF TypeOK
<1>3. WholeInv'
  <2> SUFFICES ASSUME NEW j \in Streams, ~broken[j], NEW t \in Sides
               PROVE  Fits(t, link[t][j], link[Other(t)][j].sent, wrote'[t][j],
                           wrote'[Other(t)][j], ended[t][j], ended[Other(t)][j])
    BY <1>1 DEF WholeInv
  <2>1. Fits(t, link[t][j], link[Other(t)][j].sent, wrote[t][j],
             wrote[Other(t)][j], ended[t][j], ended[Other(t)][j])
    BY <1>0 DEF WholeInv
  <2>2. link[t][j] \in LinkRecs /\ wrote[t][j] \in Nat
    BY <1>0, LinkType
  <2>3. Other(t) \in Sides /\ Other(t) # t
    BY SideFacts
  <2>4. CASE j # k
    BY <2>1, <2>3, <2>4, <1>2
  <2>5. CASE j = k /\ t = s
    BY <2>1, <2>2, <2>3, <2>5, <1>1, <1>2, MoreWrittenFits
  <2>6. CASE j = k /\ t # s
    <3>1. Other(t) = s
      BY <2>6 DEF Sides, Other
    <3>2. wrote'[t][j] = wrote[t][j] /\ ~ended[Other(t)][j]
      BY <2>6, <3>1, <1>1, <1>2
    <3> QED
      BY <2>1, <2>2, <3>2, MoreWrittenFits
  <2> QED
    BY <2>4, <2>5, <2>6
<1>4. ended' \in [Sides -> [Streams -> BOOLEAN]]
  BY <1>0, <1>1 DEF TypeOK
<1> QED
  BY <1>1, <1>2, <1>3, <1>4, ProgramTurn

LEMMA FinishTurn ==
    ASSUME RelayInv, NEW s \in Sides, NEW k \in Streams, Finish(s, k)
    PROVE  RelayInv'
<1>0. TypeOK /\ WholeInv
  BY DEF RelayInv
<1>1. /\ ended' = [ended EXCEPT ![s][k] = TRUE] /\ ~ended[s][k]
      /\ UNCHANGED <<mode, proc, link, wrote, broken, faults>>
  BY DEF Finish
<1>2. /\ ended' \in [Sides -> [Streams -> BOOLEAN]]
      /\ ended'[s][k] = TRUE
      /\ \A t \in Sides, j \in Streams : t # s \/ j # k => ended'[t][j] = ended[t][j]
  BY <1>0, <1>1 DEF TypeOK
<1>3. WholeInv'
  <2> SUFFICES ASSUME NEW j \in Streams, ~broken[j], NEW t \in Sides
               PROVE  Fits(t, link[t][j], link[Other(t)][j].sent, wrote[t][j],
                           wrote[Other(t)][j], ended'[t][j], ended'[Other(t)][j])
    BY <1>1 DEF WholeInv
  <2>1. Fits(t, link[t][j], link[Other(t)][j].sent, wrote[t][j],
             wrote[Other(t)][j], ended[t][j], ended[Other(t)][j])
    BY <1>0 DEF WholeInv
  <2>2. link[t][j] \in LinkRecs /\ wrote[t][j] \in Nat
    BY <1>0, LinkType
  <2>3. Other(t) \in Sides /\ Other(t) # t
    BY SideFacts
  <2>4. CASE j # k
    BY <2>1, <2>3, <2>4, <1>2
  <2>5. CASE j = k /\ t = s
    <3>1. Fits(t, link[t][j], link[Other(t)][j].sent, wrote[t][j],
               wrote[Other(t)][j], ended'[t][j], ended[Other(t)][j])
      <4>1. ~ended[t][j]
        BY <2>5, <1>1
      <4>2. \A f : Fits(t, link[t][j], link[Other(t)][j].sent, wrote[t][j],
                       wrote[Other(t)][j], f, ended[Other(t)][j])
        BY <2>1, <2>2, <4>1, MoreWrittenFits
      <4> QED
        BY <4>2
    <3>2. ended'[Other(t)][j] = ended[Other(t)][j]
      BY <2>3, <2>5, <1>2
    <3> QED
      BY <3>1, <3>2
  <2>6. CASE j = k /\ t # s
    <3>1. Other(t) = s
      BY <2>6 DEF Sides, Other
    <3>2. ended'[t][j] = ended[t][j] /\ ~ended[Other(t)][j]
      BY <2>6, <3>1, <1>1, <1>2
    <3>3. Fits(t, link[t][j], link[Other(t)][j].sent, wrote[t][j],
               wrote[Other(t)][j], ended[t][j], ended'[Other(t)][j])
      <4>1. \A f : Fits(t, link[t][j], link[Other(t)][j].sent, wrote[t][j],
                       wrote[Other(t)][j], ended[t][j], f)
        <5>1. ~ended[Other(t)][j]
          BY <3>2
        <5> QED
          BY <2>1, <2>2, <5>1, MoreWrittenFits
      <4> QED
        BY <4>1
    <3> QED
      BY <3>2, <3>3
  <2> QED
    BY <2>4, <2>5, <2>6
<1>4. wrote' \in [Sides -> [Streams -> Nat]]
  BY <1>0, <1>1 DEF TypeOK
<1> QED
  BY <1>1, <1>2, <1>3, <1>4, ProgramTurn

-----------------------------------------------------------------------------
(***************************************************************************)
(* The theorems.                                                           *)
(***************************************************************************)
LEMMA InitFits ==
    ASSUME Init
    PROVE  RelayInv
<1>1. TypeOK
  <2>1. [listening |-> TRUE, shutting_down |-> FALSE, cleanup |-> FALSE,
         run |-> "running", crash |-> "no", asked |-> {}] \in ProcRecs
    BY DEF ProcRecs, Crashes
  <2> QED
    BY <2>1, NoLinkType DEF Init, TypeOK
<1>2. ProcInv /\ CrashNeedsError
  BY DEF Init, ProcInv, CrashNeedsError, Waiting, NoLink, NoCircuit, NoConn
<1>3. LinkInv
  BY DEF Init, LinkInv, Agree, NoLink, NoCircuit, NoConn
<1>4. WholeInv
  <2>1. NoLink.ckt.st = "none" /\ NoLink.conn.st = "none" /\ NoLink.ckt.socks = "no"
    BY DEF NoLink, NoCircuit, NoConn
  <2>2. \A s \in Sides : Form(s, NoLink)
    BY <2>1 DEF Form, Connecting
  <2> QED
    BY <2>1, <2>2, SideFacts DEF WholeInv, Fits, Init
<1>5. ModeInv
  BY DEF Init, ModeInv, NoLink, NoCircuit
<1> QED
  BY <1>1, <1>2, <1>3, <1>4, <1>5 DEF RelayInv

LEMMA NextFits ==
    ASSUME RelayInv, [Next]_vars
    PROVE  RelayInv'
<1>1. CASE UNCHANGED vars
  BY <1>1, ProgramTurn DEF vars, RelayInv, TypeOK, WholeInv
<1>2. CASE ProgramNext
  BY <1>2, WriteTurn, FinishTurn DEF ProgramNext
<1>3. CASE \E k \in Streams : \/ ClientAccept(k) \/ SocksConnect(k) \/ SocksRefuse(k)
                              \/ DownstreamConnectFails(k)
  BY <1>3, ClientAcceptTurn, SocksConnectTurn, SocksRefuseTurn, DownstreamConnectFailsTurn
<1>4. ASSUME NEW s \in Sides, LoopStep(s)
      PROVE  RelayInv'
  BY <1>4, UpstreamReadTurn, UpstreamEofTurn, UpstreamFlushTurn, DownstreamReadTurn,
     DownstreamEofTurn, DownstreamFlushTurn, DownstreamConnectTurn,
     SocksDownstreamConnectTurn, ServerAcceptTurn, UpstreamConnectTurn, CleanupTurn,
     LoopExitTurn DEF LoopStep
<1>5. CASE \E s \in Sides, k \in Streams : UpstreamError(s, k) \/ DownstreamError(s, k)
  BY <1>5, UpstreamErrorTurn, DownstreamErrorTurn
<1>6. CASE \E s \in Sides, how \in Shutdowns : Shutdown(s, how)
  BY <1>6, ShutdownTurn
<1> QED
  BY <1>1, <1>2, <1>3, <1>4, <1>5, <1>6 DEF Next

LEMMA RelayInvariant == Spec => []RelayInv
<1>1. Init => RelayInv
  BY InitFits
<1>2. RelayInv /\ [Next]_vars => RelayInv'
  BY NextFits
<1> QED
  BY <1>1, <1>2, PTL DEF Spec

\* No dangling pointer: every way to close a circuit or a connection
\* (network.cc's event and flush callbacks, null.cc's close and
\* drop_downstream, connections.cc's shutdown) breaks both pointers, whatever
\* called it and however the calls nest.
THEOREM PointersAgree == Spec => []LinksAgree
<1>1. RelayInv => LinksAgree
  BY DEF RelayInv, LinkInv, LinksAgree, Agree
<1> QED
  BY <1>1, RelayInvariant, PTL

\* Whatever close() leaves for deletion has a cleanup event coming
\* (connections.cc, need_event).
THEOREM ClosedAreNotForgotten == Spec => []ClosedAreCollected
<1>1. RelayInv => ClosedAreCollected
  BY DEF RelayInv, ProcInv, ClosedAreCollected
<1> QED
  BY <1>1, RelayInvariant, PTL

\* The event loop ends only when every circuit and connection is deleted
\* (close_cleanup_cb, ~conn_global_state).
THEOREM LoopEndsClean == Spec => []ExitIsClean
<1>1. RelayInv => ExitIsClean
  BY DEF RelayInv, ProcInv, LinkInv, ExitIsClean
<1> QED
  BY <1>1, RelayInvariant, PTL

\* A program is told end of file only after the other program's end and all
\* of its data, unless the stream was broken (circuit_recv_eof,
\* upstream_flush_cb, circuit_do_flush).
THEOREM EndOfFileIsTruthful == Spec => []EndOfFileTruthful
<1>1. RelayInv => EndOfFileTruthful
  <2> SUFFICES ASSUME RelayInv, NEW s \in Sides, NEW k \in Streams, link[s][k].shut_up,
                      ~broken[k]
               PROVE  ended[Other(s)][k] /\ link[s][k].given = wrote[Other(s)][k]
    BY DEF EndOfFileTruthful
  <2>1. Fits(s, link[s][k], link[Other(s)][k].sent, wrote[s][k], wrote[Other(s)][k],
             ended[s][k], ended[Other(s)][k])
    BY DEF RelayInv, WholeInv
  <2>2. link[s][k].ckt.st # "none"
    BY <2>1 DEF Fits, Form, NoLink
  <2> QED
    BY <2>1, <2>2 DEF Fits, Data, EndSeen
<1> QED
  BY <1>1, RelayInvariant, PTL

\* Without an error on some stream and without a shutdown no assertion of
\* null.cc, connections.cc or network.cc fails and no null buffer is read.
THEOREM CrashesNeedErrors == Spec => []CrashNeedsError
<1>1. RelayInv => CrashNeedsError
  BY DEF RelayInv
<1> QED
  BY <1>1, RelayInvariant, PTL
=============================================================================
