--------------------------- MODULE ChopConnProofs ---------------------------
(***************************************************************************)
(* The invariants of ChopConn, for any number of connections, any limits   *)
(* and any faults.                                                         *)
(*                                                                         *)
(* A callback is a chain of calls, and in the middle of one the circuit    *)
(* may have no timer and the connection at hand may be half closed.  So    *)
(* the invariant comes in parts:  Core holds after every call; Lonely and  *)
(* Settled are what a callback may disturb and must restore.  They speak   *)
(* of the record x that the calls pass on, and of the variables as they    *)
(* were when the callback began.                                           *)
(***************************************************************************)
EXTENDS ChopConn, TLAPS

ConnRecs ==
    [st : {"none", "open", "gone"}, up : BOOLEAN, connected : BOOLEAN,
     hs : BOOLEAN, can : BOOLEAN, did : BOOLEAN, timer : BOOLEAN,
     out : BOOLEAN, read_eof : BOOLEAN, write_eof : BOOLEAN,
     pending : BOOLEAN, ever : BOOLEAN, nomore : BOOLEAN, shut : BOOLEAN,
     peer_eof : BOOLEAN, greeted : BOOLEAN, messages : Nat,
     proxied : {"no", "linked", "finishing"},
     b_out : {"none", "linked", "finishing", "gone"},
     b_out_full : BOOLEAN, choked : BOOLEAN, b_choked : BOOLEAN, fits : BOOLEAN,
     wrong : SUBSET {"shut", "proxied"}]

CktRecs ==
    [st : {"none", "open", "gone"}, up : {"none", "connecting", "connected"},
     sent_fin : BOOLEAN, received_fin : BOOLEAN, upstream_eof : BOOLEAN,
     read_eof : BOOLEAN, write_eof : BOOLEAN, pending : BOOLEAN,
     out : BOOLEAN, flush : BOOLEAN, axe : BOOLEAN, axed : BOOLEAN,
     reset : BOOLEAN]

CrashKinds == {"no", "not_in_table", "assert_shutdown", "write_after_eof",
               "iterator", "dangling", "cannot_send", "must_send"}

States == [conn : [Conns -> ConnRecs], ckt : CktRecs,
           table : {"absent", "null", "ckt"}, crash : CrashKinds]

-----------------------------------------------------------------------------
(* What holds of one connection.                                           *)

\* The proxy's flow control.
Draining(k) ==
    /\ k.st = "open" /\ k.proxied = "linked" =>
          k.b_out = "linked" /\ (k.choked => k.b_out_full) /\ (k.b_choked => k.out)
    /\ k.st = "open" /\ k.proxied = "finishing" => k.out
    /\ k.b_out = "finishing" => k.b_out_full

\* The must-send timer runs on a server that may speak or, over HTTP, was asked
\* twice; who speaks or has spoken was asked.
Owing(k) ==
    /\ k.timer => /\ k.st = "open" /\ ~Client /\ k.ever
                  /\ k.can \/ (setup.steg = "http" /\ k.messages > 1)
    /\ ~Client /\ (k.can \/ k.did) => k.ever
    /\ k.ever => k.messages > 0
    /\ ~k.fits => "covers" \in faults

\* Turns: a client may speak until it has shaken hands; an attached server
\* may speak or has spoken; who has spoken is closing.
Turns(k) ==
    /\ Client /\ k.st = "open" /\ ~k.hs => HasRoom(k)
    /\ ~Client /\ TurnTaking /\ k.up => k.can \/ k.did
    /\ k.nomore => k.pending
    /\ k.nomore /\ k.st = "open" /\ k.proxied = "no" /\ ~k.out => k.write_eof

\* The ends of a connection; g excuses a connection that went to the proxy
\* without leaving its circuit first.
Ends(k, g) ==
    /\ k.up => k.st = "open"
    /\ ~Client /\ k.st = "open" => k.connected
    /\ k.peer_eof /\ k.st = "open" /\ k.proxied = "no" => k.read_eof
    /\ k.proxied # "no" /\ k.st = "open" => ~Client
    /\ k.b_out = "linked" => k.proxied = "linked" /\ k.st # "none"
    /\ k.proxied # "no" /\ (k.up \/ k.timer) => g
    /\ k.b_out = "linked" /\ k.st = "gone" => g
    /\ k.st = "open" /\ k.b_choked => k.proxied # "no"

Own(k, g) == Draining(k) /\ Owing(k) /\ Turns(k) /\ Ends(k, g)

-----------------------------------------------------------------------------
(* What holds of the circuit.                                              *)

\* The table knows the circuit, and only an open one has timers.
Registered(x) ==
    /\ x.ckt.st = "open" <=> x.table = "ckt"
    /\ x.ckt.st = "none" <=> x.table = "absent"
    /\ x.ckt.flush \/ x.ckt.axe => x.ckt.st = "open"
    /\ x.ckt.st = "none" => ~x.ckt.sent_fin

\* Upstream is told of an end that came from the peer, as a FIN or an RST, or
\* from the axe.
Finished(x) ==
    /\ x.ckt.pending \/ x.ckt.write_eof => x.ckt.received_fin \/ x.ckt.axed \/ x.ckt.reset
    /\ x.ckt.received_fin => x.ckt.pending

\* The axe hangs over a server whose connections are all silent.
AxeHangs(x) == ~Client /\ x.ckt.axe => \A c \in Conns : x.conn[c].up => ~HasRoom(x.conn[c])

\* What was gone when the callback began is gone.
Kept(x) == ckt.st = "gone" => x.ckt.st = "gone"

Core(x, g) ==
    /\ x \in States
    /\ \A c \in Conns : Own(x.conn[c], g) /\ (x.conn[c].up => x.ckt.st = "open")
    /\ Registered(x) /\ Finished(x) /\ AxeHangs(x) /\ Kept(x)

-----------------------------------------------------------------------------
(* What holds between callbacks.                                           *)

\* A circuit without connections has its timer or only drains.
LonelyServer(x) ==
    x.ckt.st = "open" /\ ~Client /\ (\A c \in Conns : ~x.conn[c].up) => x.ckt.axe \/ x.ckt.axed

Lonely(x) ==
    x.ckt.st = "open" /\ (\A c \in Conns : ~x.conn[c].up) =>
        \/ x.ckt.sent_fin /\ x.ckt.received_fin /\ x.ckt.pending
        \/ IF Client THEN x.ckt.flush ELSE x.ckt.axe \/ x.ckt.axed

\* An unlinked connection that was heard of still has output, or waits for
\* the peer's end of file alone.
Settled(k, finSent) ==
    k.st = "open" /\ ~k.up /\ k.proxied = "no" /\ k.ever =>
        finSent \/ k.out \/ (k.write_eof /\ ~k.read_eof)

AllSettled(x) == \A c \in Conns : Settled(x.conn[c], x.ckt.sent_fin)

Excused == stopping = "forced" \/ "garbage" \in faults

\* A forced shutdown leaves nothing open.
Emptied(x) == stopping = "forced" => x.ckt.st # "open" /\ \A c \in Conns : x.conn[c].st # "open"

SetupOK == setup \in [role : {"client", "server"}, steg : {"plain", "turns", "http"},
                      proxy : BOOLEAN]

ConnInv ==
    /\ Now \in States /\ SetupOK /\ stopping \in {"no", "graceful", "forced"}
    /\ ChokedWillDrain /\ CrashHasCause
    /\ Alive => Core(Now, Excused) /\ Lonely(Now) /\ AllSettled(Now) /\ Emptied(Now)

-----------------------------------------------------------------------------
(* Calls that change one connection.                                       *)

LEMMA GoneOwn ==
    ASSUME NEW g \in BOOLEAN, NEW k \in ConnRecs, Own(k, g), k.b_out = "linked" => g
    PROVE  /\ Gone(k) \in ConnRecs /\ Own(Gone(k), g)
           /\ Gone(k).st = "gone" /\ Gone(k).up = FALSE
           /\ \A f : Settled(Gone(k), f)
<1>1. Gone(k) \in ConnRecs
  BY DEF ConnRecs, Gone
<1>2. LET s == Gone(k)
      IN  /\ s.st = "gone" /\ s.up = FALSE /\ s.timer = FALSE /\ s.nomore = k.nomore
          /\ s.pending = k.pending /\ s.b_out = k.b_out /\ s.proxied = k.proxied
          /\ s.b_out_full = k.b_out_full /\ s.can = k.can /\ s.did = k.did
          /\ s.ever = k.ever /\ s.messages = k.messages /\ s.fits = k.fits
  BY DEF ConnRecs, Gone
<1> QED BY <1>1, <1>2 DEF Own, Draining, Owing, Turns, Ends, Settled

LEMMA FlushUnlinkedOwn ==
    ASSUME NEW g \in BOOLEAN, NEW k \in ConnRecs, Own(k, g), k.up = TRUE
    PROVE  /\ FlushUnlinked(k) \in ConnRecs /\ Own(FlushUnlinked(k), g)
           /\ FlushUnlinked(k).up = FALSE
           /\ \A f : Settled(FlushUnlinked(k), f)
<1> DEFINE p == [k EXCEPT !.up = FALSE, !.pending = TRUE]
<1>1. p \in ConnRecs /\ p.up = FALSE /\ p.b_out = k.b_out /\ p.proxied = k.proxied
      /\ p.out = k.out /\ p.connected = k.connected /\ p.ever = k.ever
      /\ p.read_eof = k.read_eof
  BY ZenonT(60) DEF ConnRecs
<1>2. Own(p, g)
  BY DEF ConnRecs, Own, Draining, Owing, Turns, HasRoom, Ends
<1>3. p.b_out = "linked" => g
  BY <1>1 DEF Own, Ends
<1> DEFINE q == [p EXCEPT !.write_eof = TRUE]
<1>4. q \in ConnRecs /\ q.up = FALSE /\ q.write_eof = TRUE /\ q.read_eof = p.read_eof
  BY ZenonT(60), <1>1 DEF ConnRecs
<1>5. Own(q, g)
  BY <1>1, <1>2 DEF ConnRecs, Own, Draining, Owing, Turns, HasRoom, Ends
<1>6. FlushUnlinked(k) = IF p.out \/ ~(p.connected \/ p.ever) THEN p
                         ELSE IF p.read_eof THEN Gone(p) ELSE q
  BY DEF FlushUnlinked
<1> HIDE DEF p, q
<1>7. CASE p.out \/ ~(p.connected \/ p.ever)
  BY <1>1, <1>2, <1>6, <1>7 DEF Settled
<1>8. CASE ~(p.out \/ ~(p.connected \/ p.ever)) /\ p.read_eof
  BY <1>1, <1>2, <1>3, <1>6, <1>8, GoneOwn
<1>9. CASE ~(p.out \/ ~(p.connected \/ p.ever)) /\ ~p.read_eof
  BY <1>1, <1>4, <1>5, <1>6, <1>9 DEF Settled
<1> QED BY <1>7, <1>8, <1>9

LEMMA TransmitOwn ==
    ASSUME NEW g \in BOOLEAN, NEW k \in ConnRecs, Own(k, g), HasRoom(k)
    PROVE  /\ StegTransmit(k) \in ConnRecs /\ Own(StegTransmit(k), g)
           /\ StegTransmit(k).up = k.up /\ StegTransmit(k).st = k.st
           /\ StegTransmit(k).out = TRUE /\ StegTransmit(k).timer = FALSE
           /\ StegTransmit(k).proxied = k.proxied
           /\ HasRoom(StegTransmit(k)) => HasRoom(k)
           /\ \A f : Settled(StegTransmit(k), f)
<1>1. Wrongs(k) \subseteq {"shut", "proxied"}
  BY DEF Wrongs
<1> DEFINE n == NostegTransmit(k)
<1>2. n \in ConnRecs /\ n = [k EXCEPT !.out = TRUE, !.wrong = @ \cup Wrongs(k)]
  BY <1>1 DEF ConnRecs, NostegTransmit
<1>3. CASE TurnTaking
  <2>1. StegTransmit(k) = [NostegRrTransmit(k) EXCEPT !.hs = TRUE, !.timer = FALSE]
    BY <1>3 DEF StegTransmit
  <2>2. NostegRrTransmit(k) = [n EXCEPT !.can = FALSE, !.did = TRUE, !.nomore = TRUE,
                              !.timer = FALSE, !.pending = TRUE]
    BY DEF NostegRrTransmit
  <2> DEFINE r == NostegRrTransmit(k)
  <2>3. r \in ConnRecs
    BY ZenonT(60), <1>2, <2>2 DEF ConnRecs
  <2>4. StegTransmit(k) \in ConnRecs
    BY ZenonT(60), <2>1, <2>3 DEF ConnRecs
  <2>5. LET s == StegTransmit(k)
        IN  /\ s.st = k.st /\ s.up = k.up /\ s.connected = k.connected /\ s.hs = TRUE
            /\ s.can = FALSE /\ s.did = TRUE /\ s.timer = FALSE /\ s.out = TRUE
            /\ s.read_eof = k.read_eof /\ s.pending = TRUE /\ s.peer_eof = k.peer_eof
            /\ s.proxied = k.proxied /\ s.b_out = k.b_out
            /\ s.b_out_full = k.b_out_full /\ s.choked = k.choked
            /\ s.ever = k.ever /\ s.messages = k.messages /\ s.fits = k.fits
            /\ s.b_choked = k.b_choked
    BY <1>2, <2>1, <2>2 DEF ConnRecs
  <2> QED BY <2>4, <2>5, <1>3 DEF Own, Draining, Owing, Turns, HasRoom, Ends, Settled
<1>4. CASE ~TurnTaking
  <2>1. StegTransmit(k) = [n EXCEPT !.hs = TRUE, !.timer = FALSE]
    BY <1>4 DEF StegTransmit
  <2>2. n \in ConnRecs
    BY <1>2
  <2> HIDE DEF n
  <2>4. StegTransmit(k) \in ConnRecs
    BY ZenonT(60), <2>1, <2>2 DEF ConnRecs
  <2>5. LET s == StegTransmit(k)
        IN  /\ s.st = k.st /\ s.up = k.up /\ s.connected = k.connected /\ s.hs = TRUE
            /\ s.can = k.can /\ s.did = k.did /\ s.timer = FALSE /\ s.out = TRUE
            /\ s.read_eof = k.read_eof /\ s.pending = k.pending /\ s.peer_eof = k.peer_eof
            /\ s.nomore = k.nomore /\ s.write_eof = k.write_eof
            /\ s.proxied = k.proxied /\ s.b_out = k.b_out
            /\ s.b_out_full = k.b_out_full /\ s.choked = k.choked
            /\ s.ever = k.ever /\ s.messages = k.messages /\ s.fits = k.fits
            /\ s.b_choked = k.b_choked
    BY <1>2, <2>1 DEF ConnRecs
  <2> QED BY <2>4, <2>5, <1>4 DEF Own, Draining, Owing, Turns, HasRoom, Ends, Settled
<1> QED BY <1>3, <1>4

LEMMA ReceiveOwn ==
    ASSUME NEW g \in BOOLEAN, NEW k \in ConnRecs, Own(k, g), k.st = "open", k.proxied = "no",
           k.ever = TRUE, ~Client /\ k.did => k.messages > 1, SetupOK
    PROVE  /\ StegReceive(k) \in ConnRecs /\ Own(StegReceive(k), g)
           /\ StegReceive(k).up = k.up /\ StegReceive(k).st = k.st
           /\ StegReceive(k).connected = k.connected
           /\ StegReceive(k).greeted = k.greeted
           /\ StegReceive(k).ever = TRUE /\ StegReceive(k).proxied = "no"
           /\ ~Client /\ TurnTaking => StegReceive(k).can \/ StegReceive(k).did
           /\ ~Client /\ k.up /\ HasRoom(StegReceive(k)) => HasRoom(k)
<1> DEFINE n == [k EXCEPT !.can = TRUE, !.timer = TRUE]
           e == [k EXCEPT !.read_eof = TRUE]
           h == [k EXCEPT !.can = ~k.did, !.timer = TRUE, !.read_eof = TRUE]
<1>1. CASE setup.steg = "turns" /\ ~Client /\ ~k.did
  <2>1. StegReceive(k) = n
    BY <1>1 DEF StegReceive, NostegRrReceive
  <2>2. n \in ConnRecs
    BY DEF ConnRecs
  <2>3. /\ n.st = k.st /\ n.up = k.up /\ n.connected = k.connected /\ n.hs = k.hs
        /\ n.can = TRUE /\ n.did = k.did /\ n.timer = TRUE /\ n.out = k.out
        /\ n.read_eof = k.read_eof /\ n.write_eof = k.write_eof /\ n.ever = k.ever
        /\ n.pending = k.pending /\ n.peer_eof = k.peer_eof
        /\ n.nomore = k.nomore /\ n.greeted = k.greeted /\ n.messages = k.messages
        /\ n.proxied = k.proxied /\ n.b_out = k.b_out /\ n.fits = k.fits
        /\ n.b_out_full = k.b_out_full /\ n.b_choked = k.b_choked
    BY DEF ConnRecs
  <2> HIDE DEF n
  <2> QED BY <1>1, <2>1, <2>2, <2>3 DEF TurnTaking, Own, Draining, Owing, Turns, HasRoom, Ends
<1>2. CASE setup.steg = "http" /\ Client
  <2>1. StegReceive(k) = e
    BY <1>2 DEF StegReceive
  <2>2. e \in ConnRecs
    BY DEF ConnRecs
  <2>3. /\ e.st = k.st /\ e.up = k.up /\ e.connected = k.connected /\ e.hs = k.hs
        /\ e.can = k.can /\ e.did = k.did /\ e.timer = k.timer /\ e.out = k.out
        /\ e.read_eof = TRUE /\ e.write_eof = k.write_eof /\ e.ever = k.ever
        /\ e.pending = k.pending /\ e.peer_eof = k.peer_eof
        /\ e.nomore = k.nomore /\ e.greeted = k.greeted /\ e.messages = k.messages
        /\ e.proxied = k.proxied /\ e.b_out = k.b_out /\ e.fits = k.fits
        /\ e.b_out_full = k.b_out_full /\ e.b_choked = k.b_choked
    BY DEF ConnRecs
  <2> HIDE DEF e
  <2> QED BY <1>2, <2>1, <2>2, <2>3 DEF TurnTaking, Own, Draining, Owing, Turns, HasRoom, Ends
<1>3. CASE setup.steg = "http" /\ ~Client
  <2>1. StegReceive(k) = h
    BY <1>3 DEF StegReceive, HttpServerReceive
  <2>2. h \in ConnRecs
    BY DEF ConnRecs
  <2>3. /\ h.st = k.st /\ h.up = k.up /\ h.connected = k.connected /\ h.hs = k.hs
        /\ h.can = ~k.did /\ h.did = k.did /\ h.timer = TRUE /\ h.out = k.out
        /\ h.read_eof = TRUE /\ h.write_eof = k.write_eof /\ h.ever = k.ever
        /\ h.pending = k.pending /\ h.peer_eof = k.peer_eof
        /\ h.nomore = k.nomore /\ h.greeted = k.greeted /\ h.messages = k.messages
        /\ h.proxied = k.proxied /\ h.b_out = k.b_out /\ h.fits = k.fits
        /\ h.b_out_full = k.b_out_full /\ h.b_choked = k.b_choked
    BY DEF ConnRecs
  <2> HIDE DEF h
  <2> QED BY <1>3, <2>1, <2>2, <2>3 DEF TurnTaking, Own, Draining, Owing, Turns, HasRoom, Ends
<1>4. CASE ~(setup.steg = "turns" /\ ~Client /\ ~k.did) /\ setup.steg # "http"
  <2>1. StegReceive(k) = k
    BY <1>4 DEF StegReceive, NostegRrReceive
  <2>2. ~Client /\ TurnTaking => k.did
    BY <1>4 DEF TurnTaking
  <2> QED BY <2>1, <2>2
<1> QED BY <1>1, <1>2, <1>3, <1>4

-----------------------------------------------------------------------------
(* One connection of the record changes, or only the circuit.              *)

LEMMA StateParts ==
    ASSUME NEW x \in States
    PROVE  /\ x.conn \in [Conns -> ConnRecs] /\ x.ckt \in CktRecs
           /\ x.table \in {"absent", "null", "ckt"} /\ x.crash \in CrashKinds
           /\ \A c \in Conns : x.conn[c] \in ConnRecs
BY DEF States

LEMMA ConnPut ==
    ASSUME NEW x \in States, NEW c \in Conns, NEW k \in ConnRecs
    PROVE  LET y == [x EXCEPT !.conn[c] = k]
           IN  /\ y \in States /\ y.ckt = x.ckt /\ y.table = x.table /\ y.crash = x.crash
               /\ y.conn[c] = k
               /\ \A d \in Conns : y.conn[d] = IF d = c THEN k ELSE x.conn[d]
BY DEF States

LEMMA CktPut ==
    ASSUME NEW x \in States, NEW t \in CktRecs
    PROVE  LET y == [x EXCEPT !.ckt = t]
           IN  /\ y \in States /\ y.ckt = t /\ y.table = x.table /\ y.crash = x.crash
               /\ y.conn = x.conn
BY DEF States

LEMMA ConnChanged ==
    ASSUME NEW g \in BOOLEAN, NEW x, Core(x, g), NEW c \in Conns,
           NEW k \in ConnRecs, Own(k, g),
           k.up => x.ckt.st = "open",
           ~Client /\ k.up /\ HasRoom(k) => ~x.ckt.axe \/ (x.conn[c].up /\ HasRoom(x.conn[c]))
    PROVE  LET y == [x EXCEPT !.conn[c] = k]
           IN  /\ Core(y, g) /\ y.ckt = x.ckt /\ y.table = x.table
               /\ y.crash = x.crash /\ y.conn[c] = k
               /\ \A d \in Conns : y.conn[d] = IF d = c THEN k ELSE x.conn[d]
<1> DEFINE y == [x EXCEPT !.conn[c] = k]
<1>1. x \in States
  BY DEF Core
<1>2. /\ y \in States /\ y.ckt = x.ckt /\ y.table = x.table /\ y.crash = x.crash
      /\ y.conn[c] = k
      /\ \A d \in Conns : y.conn[d] = IF d = c THEN k ELSE x.conn[d]
  BY <1>1, ConnPut
<1> HIDE DEF y
<1>3. \A d \in Conns : Own(y.conn[d], g) /\ (y.conn[d].up => y.ckt.st = "open")
  <2> TAKE d \in Conns
  <2>1. CASE d = c
    BY <2>1, <1>2
  <2>2. CASE d # c
    BY <2>2, <1>2 DEF Core
  <2> QED BY <2>1, <2>2
<1>4. Registered(y) /\ Finished(y) /\ Kept(y)
  BY <1>2 DEF Core, Registered, Finished, Kept
<1>5. AxeHangs(y)
  <2> SUFFICES ASSUME ~Client, y.ckt.axe, NEW d \in Conns, y.conn[d].up
               PROVE  ~HasRoom(y.conn[d])
    BY DEF AxeHangs
  <2>1. CASE d = c
    BY <2>1, <1>2 DEF Core, AxeHangs
  <2>2. CASE d # c
    BY <2>2, <1>2 DEF Core, AxeHangs
  <2> QED BY <2>1, <2>2
<1>6. Core(y, g)
  BY <1>1, <1>2, <1>3, <1>4, <1>5 DEF Core
<1> QED BY <1>2, <1>6 DEF y

LEMMA CktChanged ==
    ASSUME NEW g \in BOOLEAN, NEW x, Core(x, g), NEW t \in CktRecs, t.st = x.ckt.st,
           t.st = "none" => ~t.sent_fin,
           t.flush => x.ckt.flush \/ t.st = "open",
           t.axe => t.st = "open",
           t.axe => x.ckt.axe \/ Client \/ \A c \in Conns : x.conn[c].up => ~HasRoom(x.conn[c]),
           t.pending \/ t.write_eof => t.received_fin \/ t.axed \/ t.reset,
           t.received_fin => t.pending
    PROVE  LET y == [x EXCEPT !.ckt = t]
           IN  Core(y, g) /\ y.ckt = t /\ y.table = x.table /\ y.crash = x.crash /\ y.conn = x.conn
<1> DEFINE y == [x EXCEPT !.ckt = t]
<1>1. x \in States
  BY DEF Core
<1>2. /\ y \in States /\ y.ckt = t /\ y.table = x.table /\ y.crash = x.crash
      /\ y.conn = x.conn
  BY <1>1, CktPut
<1> HIDE DEF y
<1>3. \A d \in Conns : Own(y.conn[d], g) /\ (y.conn[d].up => y.ckt.st = "open")
  BY <1>2 DEF Core
<1>4. Registered(y) /\ Finished(y) /\ Kept(y)
  BY <1>2 DEF Core, Registered, Finished, Kept
<1>5. AxeHangs(y)
  BY <1>2 DEF Core, AxeHangs
<1>6. Core(y, g)
  BY <1>2, <1>3, <1>4, <1>5 DEF Core
<1> QED BY <1>2, <1>6 DEF y

-----------------------------------------------------------------------------
(* Closing and flushing.                                                   *)

\* What a call on the circuit leaves of the connections: the settled ones
\* are settled, and no connection is attached.
Settles(x, y) ==
    \A d \in Conns : Settled(x.conn[d], x.ckt.sent_fin) => Settled(y.conn[d], y.ckt.sent_fin)

Spares(x, y) ==
    \A d \in Conns : /\ y.conn[d].up => x.conn[d].up
                     /\ ~x.conn[d].up => y.conn[d] = x.conn[d]

LEMMA CktCloseCore ==
    ASSUME NEW g \in BOOLEAN, NEW x, Core(x, g), x.ckt.st = "open"
    PROVE  LET y == CktClose(x)
           IN  /\ Core(y, g) /\ Settles(x, y) /\ Spares(x, y)
               /\ y.ckt.st = "gone" /\ y.ckt.sent_fin = x.ckt.sent_fin /\ y.crash = x.crash
<1> DEFINE y == CktClose(x)
           f == [c \in Conns |-> IF x.conn[c].up THEN FlushUnlinked(x.conn[c]) ELSE x.conn[c]]
           t == [x.ckt EXCEPT !.st = "gone", !.flush = FALSE, !.axe = FALSE]
<1>1. x \in States /\ x.table = "ckt"
  BY DEF Core, Registered
<1>2. y = [x EXCEPT !.conn = f, !.ckt = t, !.table = "null"]
  BY <1>1 DEF CktClose
<1>3. \A c \in Conns : x.conn[c] \in ConnRecs /\ x.conn[c].up \in BOOLEAN
  BY <1>1, StateParts DEF ConnRecs
<1>4. ASSUME NEW c \in Conns
      PROVE  /\ f[c] \in ConnRecs /\ Own(f[c], g) /\ f[c].up = FALSE
             /\ x.conn[c].up => \A s : Settled(f[c], s)
             /\ ~x.conn[c].up => f[c] = x.conn[c]
  <2>1. CASE x.conn[c].up = TRUE
    BY <1>3, <2>1, FlushUnlinkedOwn DEF Core
  <2>2. CASE x.conn[c].up = FALSE
    BY <1>3, <2>2 DEF Core
  <2> QED BY <1>3, <2>1, <2>2
<1>5. f \in [Conns -> ConnRecs]
  BY <1>4
<1>6. /\ t \in CktRecs /\ t.st = "gone" /\ t.flush = FALSE /\ t.axe = FALSE
      /\ t.sent_fin = x.ckt.sent_fin /\ t.received_fin = x.ckt.received_fin
      /\ t.pending = x.ckt.pending /\ t.write_eof = x.ckt.write_eof /\ t.axed = x.ckt.axed /\ t.reset = x.ckt.reset
  BY <1>1, StateParts DEF CktRecs
<1> HIDE DEF f, t
<1>7. y \in States /\ y.conn = f /\ y.ckt = t /\ y.table = "null" /\ y.crash = x.crash
  BY <1>1, <1>2, <1>5, <1>6 DEF States
<1> HIDE DEF y
<1>8. Registered(y) /\ Finished(y) /\ Kept(y) /\ AxeHangs(y)
  BY <1>6, <1>7 DEF Core, Registered, Finished, Kept, AxeHangs
<1>9. Core(y, g)
  BY <1>4, <1>7, <1>8 DEF Core
<1>10. Spares(x, y)
  BY <1>4, <1>7 DEF Spares
<1>11. Settles(x, y)
  <2> SUFFICES ASSUME NEW d \in Conns, Settled(x.conn[d], x.ckt.sent_fin)
               PROVE  Settled(y.conn[d], y.ckt.sent_fin)
    BY DEF Settles
  <2>1. CASE x.conn[d].up
    BY <1>4, <1>7, <2>1
  <2>2. CASE ~x.conn[d].up
    BY <1>4, <1>6, <1>7, <2>2
  <2> QED BY <2>1, <2>2
<1> QED BY <1>6, <1>7, <1>9, <1>10, <1>11 DEF y

LEMMA UpFlushCbCore ==
    ASSUME NEW g \in BOOLEAN, NEW x, Core(x, g), x.ckt.st = "open"
    PROVE  LET y == UpFlushCb(x)
           IN  /\ Core(y, g) /\ Settles(x, y) /\ Spares(x, y)
               /\ y.ckt.sent_fin = x.ckt.sent_fin /\ y.crash = x.crash
               /\ Lonely(x) => Lonely(y)
<1>1. x \in States /\ x.ckt \in CktRecs
  BY StateParts DEF Core
<1> DEFINE t == [x.ckt EXCEPT !.write_eof = TRUE]
           z == [x EXCEPT !.ckt = t]
           y == UpFlushCb(x)
<1>2. /\ t \in CktRecs /\ t.st = x.ckt.st /\ t.flush = x.ckt.flush /\ t.axe = x.ckt.axe
      /\ t.sent_fin = x.ckt.sent_fin /\ t.received_fin = x.ckt.received_fin
      /\ t.pending = x.ckt.pending /\ t.axed = x.ckt.axed /\ t.reset = x.ckt.reset
  BY <1>1 DEF CktRecs
<1>3. y = IF x.ckt.out \/ x.ckt.up # "connected" \/ ~x.ckt.pending THEN x
          ELSE IF z.ckt.read_eof THEN CktClose(z) ELSE z
  BY DEF UpFlushCb
<1> HIDE DEF t
<1>4. CASE ~x.ckt.pending \/ x.ckt.out \/ x.ckt.up # "connected"
  <2>1. y = x
    BY <1>3, <1>4
  <2> QED BY <2>1 DEF Settles, Spares
<1>5. CASE ~(~x.ckt.pending \/ x.ckt.out \/ x.ckt.up # "connected")
  <2>1. Core(z, g) /\ z.ckt = t /\ z.crash = x.crash /\ z.conn = x.conn
    <3>1. Registered(x) /\ Finished(x)
      BY DEF Core
    <3> QED BY <1>2, <1>5, <3>1, CktChanged DEF Registered, Finished
  <2>2. Settles(x, z) /\ Spares(x, z) /\ (Lonely(x) => Lonely(z))
    BY <1>2, <2>1 DEF Settles, Spares, Lonely
  <2> HIDE DEF z
  <2>3. CASE z.ckt.read_eof
    <3>1. y = CktClose(z)
      BY <1>3, <1>5, <2>3
    <3>2. /\ Core(y, g) /\ Settles(z, y) /\ Spares(z, y)
          /\ y.ckt.st = "gone" /\ y.ckt.sent_fin = z.ckt.sent_fin /\ y.crash = z.crash
      BY <1>2, <2>1, <3>1, CktCloseCore
    <3> QED BY <1>2, <2>1, <2>2, <3>2 DEF Settles, Spares, Lonely
  <2>4. CASE ~z.ckt.read_eof
    <3>1. y = z
      BY <1>3, <1>5, <2>4
    <3> QED BY <1>2, <2>1, <2>2, <3>1
  <2> QED BY <2>3, <2>4
<1> QED BY <1>4, <1>5

LEMMA CktDoFlushCore ==
    ASSUME NEW g \in BOOLEAN, NEW x, Core(x, g), x.ckt.st = "open",
           x.ckt.received_fin \/ x.ckt.axed
    PROVE  LET y == CktDoFlush(x)
           IN  /\ Core(y, g) /\ Settles(x, y) /\ Spares(x, y)
               /\ y.ckt.sent_fin = x.ckt.sent_fin /\ y.crash = x.crash
               /\ Lonely(x) \/ (x.ckt.sent_fin /\ x.ckt.received_fin) => Lonely(y)
<1>1. x \in States /\ x.ckt \in CktRecs
  BY StateParts DEF Core
<1> DEFINE t == [x.ckt EXCEPT !.pending = TRUE]
           z == [x EXCEPT !.ckt = t]
           y == CktDoFlush(x)
<1>2. /\ t \in CktRecs /\ t.st = x.ckt.st /\ t.flush = x.ckt.flush /\ t.axe = x.ckt.axe
      /\ t.sent_fin = x.ckt.sent_fin /\ t.received_fin = x.ckt.received_fin
      /\ t.pending = TRUE /\ t.axed = x.ckt.axed /\ t.reset = x.ckt.reset
  BY <1>1 DEF CktRecs
<1>3. y = UpFlushCb(z)
  BY DEF CktDoFlush
<1> HIDE DEF t
<1>4. Core(z, g) /\ z.ckt = t /\ z.crash = x.crash /\ z.conn = x.conn
  <2>1. Registered(x) /\ Finished(x)
    BY DEF Core
  <2> QED BY <1>2, <2>1, CktChanged DEF Registered, Finished
<1> HIDE DEF z
<1>5. /\ Core(y, g) /\ Settles(z, y) /\ Spares(z, y)
      /\ y.ckt.sent_fin = z.ckt.sent_fin /\ y.crash = z.crash
      /\ Lonely(z) => Lonely(y)
  BY <1>2, <1>3, <1>4, UpFlushCbCore
<1>6. Lonely(x) \/ (x.ckt.sent_fin /\ x.ckt.received_fin) => Lonely(z)
  BY <1>2, <1>4 DEF Lonely
<1> QED BY <1>2, <1>4, <1>5, <1>6 DEF Settles, Spares

\* The same for every connection but c.
SettlesOthers(x, y, c) ==
    \A d \in Conns \ {c} :
        Settled(x.conn[d], x.ckt.sent_fin) => Settled(y.conn[d], y.ckt.sent_fin)

LEMMA DropDownstreamCore ==
    ASSUME NEW g \in BOOLEAN, NEW x, Core(x, g), NEW c \in Conns, x.conn[c].up
    PROVE  LET y == DropDownstream(x, c)
           IN  /\ Core(y, g) /\ Lonely(y) /\ SettlesOthers(x, y, c)
               /\ y.conn[c] = [x.conn[c] EXCEPT !.up = FALSE]
               /\ y.ckt.sent_fin = x.ckt.sent_fin /\ y.crash = x.crash
<1>1. x \in States /\ x.ckt \in CktRecs /\ x.conn[c] \in ConnRecs
  BY StateParts DEF Core
<1> DEFINE k == [x.conn[c] EXCEPT !.up = FALSE]
           z == [x EXCEPT !.conn[c] = k]
           y == DropDownstream(x, c)
<1>2. k \in ConnRecs /\ k.up = FALSE
  BY <1>1 DEF ConnRecs
<1>3. Own(k, g)
  <2>1. Own(x.conn[c], g)
    BY DEF Core
  <2> QED BY <1>1, <2>1 DEF ConnRecs, Own, Draining, Owing, Turns, HasRoom, Ends
<1>4. y = IF Downstreams(z) # {} THEN z
          ELSE IF z.ckt.sent_fin /\ z.ckt.received_fin THEN CktDoFlush(z)
          ELSE IF Client THEN [z EXCEPT !.ckt.flush = TRUE]
          ELSE [z EXCEPT !.ckt.axe = TRUE]
  BY DEF DropDownstream
<1>5. x.ckt.st = "open"
  BY DEF Core
<1> HIDE DEF k
<1>6. /\ Core(z, g) /\ z.ckt = x.ckt /\ z.table = x.table /\ z.crash = x.crash /\ z.conn[c] = k
      /\ \A d \in Conns : z.conn[d] = IF d = c THEN k ELSE x.conn[d]
  BY <1>2, <1>3, <1>5, ConnChanged
<1>7. SettlesOthers(x, z, c)
  BY <1>6 DEF SettlesOthers
<1> HIDE DEF z
<1>8. CASE Downstreams(z) # {}
  <2>1. y = z
    BY <1>4, <1>8
  <2>2. Lonely(z)
    BY <1>8 DEF Downstreams, Lonely
  <2> QED BY <1>6, <1>7, <2>1, <2>2 DEF k
<1>9. CASE Downstreams(z) = {} /\ z.ckt.sent_fin /\ z.ckt.received_fin
  <2>1. y = CktDoFlush(z)
    BY <1>4, <1>9
  <2>2. /\ Core(y, g) /\ Settles(z, y) /\ Spares(z, y)
        /\ y.ckt.sent_fin = z.ckt.sent_fin /\ y.crash = z.crash /\ Lonely(y)
    BY <1>5, <1>6, <1>9, <2>1, CktDoFlushCore
  <2>3. y.conn[c] = k
    BY <1>2, <1>6, <2>2 DEF Spares
  <2>4. SettlesOthers(x, y, c)
    BY <1>7, <2>2 DEF Settles, SettlesOthers
  <2> QED BY <1>6, <2>2, <2>3, <2>4 DEF k
<1>10. CASE Downstreams(z) = {} /\ ~(z.ckt.sent_fin /\ z.ckt.received_fin) /\ Client
  <2> DEFINE t == [z.ckt EXCEPT !.flush = TRUE]
             w == [z EXCEPT !.ckt = t]
  <2>1. y = w
    BY <1>4, <1>10
  <2>2. /\ t \in CktRecs /\ t.st = x.ckt.st /\ t.flush = TRUE /\ t.axe = x.ckt.axe
        /\ t.sent_fin = x.ckt.sent_fin /\ t.received_fin = x.ckt.received_fin
        /\ t.pending = x.ckt.pending /\ t.write_eof = x.ckt.write_eof /\ t.axed = x.ckt.axed /\ t.reset = x.ckt.reset
    BY <1>1, <1>6 DEF CktRecs
  <2> HIDE DEF t
  <2>3. Core(w, g) /\ w.ckt = t /\ w.crash = z.crash /\ w.conn = z.conn
    <3>1. Registered(z) /\ Finished(z)
      BY <1>6 DEF Core
    <3> QED BY <1>5, <1>6, <2>2, <3>1, CktChanged DEF Registered, Finished
  <2> HIDE DEF w
  <2>4. Lonely(w)
    BY <1>10, <2>2, <2>3 DEF Lonely
  <2>5. SettlesOthers(x, w, c)
    BY <1>6, <1>7, <2>2, <2>3 DEF SettlesOthers
  <2> QED BY <1>6, <2>1, <2>2, <2>3, <2>4, <2>5 DEF k
<1>11. CASE Downstreams(z) = {} /\ ~(z.ckt.sent_fin /\ z.ckt.received_fin) /\ ~Client
  <2> DEFINE t == [z.ckt EXCEPT !.axe = TRUE]
             w == [z EXCEPT !.ckt = t]
  <2>1. y = w
    BY <1>4, <1>11
  <2>2. /\ t \in CktRecs /\ t.st = x.ckt.st /\ t.axe = TRUE /\ t.flush = x.ckt.flush
        /\ t.sent_fin = x.ckt.sent_fin /\ t.received_fin = x.ckt.received_fin
        /\ t.pending = x.ckt.pending /\ t.write_eof = x.ckt.write_eof /\ t.axed = x.ckt.axed /\ t.reset = x.ckt.reset
    BY <1>1, <1>6 DEF CktRecs
  <2> HIDE DEF t
  <2>3. Core(w, g) /\ w.ckt = t /\ w.crash = z.crash /\ w.conn = z.conn
    <3>1. Registered(z) /\ Finished(z)
      BY <1>6 DEF Core
    <3>2. \A d \in Conns : ~z.conn[d].up
      BY <1>11 DEF Downstreams
    <3> QED BY <1>5, <1>6, <2>2, <3>1, <3>2, CktChanged DEF Registered, Finished
  <2> HIDE DEF w
  <2>4. Lonely(w)
    BY <1>11, <2>2, <2>3 DEF Lonely
  <2>5. SettlesOthers(x, w, c)
    BY <1>6, <1>7, <2>2, <2>3 DEF SettlesOthers
  <2> QED BY <1>6, <2>1, <2>2, <2>3, <2>4, <2>5 DEF k
<1> QED BY <1>8, <1>9, <1>10, <1>11

LEMMA EmancipateCore ==
    ASSUME NEW g \in BOOLEAN, NEW x, Core(x, g), NEW c \in Conns
    PROVE  LET y == Emancipate(x, c)
           IN  /\ Core(y, g) /\ SettlesOthers(x, y, c)
               /\ x.conn[c].up \/ Lonely(x) => Lonely(y)
               /\ y.conn[c] = [x.conn[c] EXCEPT !.timer = FALSE, !.up = FALSE]
               /\ y.ckt.sent_fin = x.ckt.sent_fin /\ y.crash = x.crash
               /\ ~x.conn[c].up => y.ckt = x.ckt /\ y.table = x.table
<1>1. x \in States /\ x.conn[c] \in ConnRecs
  BY StateParts DEF Core
<1> DEFINE k == [x.conn[c] EXCEPT !.timer = FALSE]
           z == [x EXCEPT !.conn[c] = k]
           y == Emancipate(x, c)
           e == [x.conn[c] EXCEPT !.timer = FALSE, !.up = FALSE]
<1>2. k \in ConnRecs /\ k.up = x.conn[c].up /\ k.can = x.conn[c].can /\ k.fits = x.conn[c].fits
  BY <1>1 DEF ConnRecs
<1>3. Own(k, g)
  <2>1. Own(x.conn[c], g)
    BY DEF Core
  <2> QED BY <1>1, <2>1 DEF ConnRecs, Own, Draining, Owing, Turns, HasRoom, Ends
<1>4. y = IF z.conn[c].up THEN DropDownstream(z, c) ELSE z
  BY DEF Emancipate
<1>5. x.conn[c].up => x.ckt.st = "open"
  BY DEF Core
<1>6. e = [k EXCEPT !.up = FALSE]
  OBVIOUS
<1>7. x.conn[c].up = FALSE => e = k
  BY <1>1 DEF ConnRecs
<1> HIDE DEF k, e
<1>8. /\ Core(z, g) /\ z.ckt = x.ckt /\ z.table = x.table /\ z.crash = x.crash /\ z.conn[c] = k
      /\ \A d \in Conns : z.conn[d] = IF d = c THEN k ELSE x.conn[d]
  BY <1>2, <1>3, <1>5, ConnChanged DEF HasRoom
<1>9. SettlesOthers(x, z, c)
  BY <1>8 DEF SettlesOthers
<1> HIDE DEF z
<1>10. CASE x.conn[c].up = TRUE
  <2>1. y = DropDownstream(z, c)
    BY <1>2, <1>4, <1>8, <1>10
  <2>2. /\ Core(y, g) /\ Lonely(y) /\ SettlesOthers(z, y, c)
        /\ y.conn[c] = [z.conn[c] EXCEPT !.up = FALSE]
        /\ y.ckt.sent_fin = z.ckt.sent_fin /\ y.crash = z.crash
    BY <1>2, <1>8, <1>10, <2>1, DropDownstreamCore
  <2>3. SettlesOthers(x, y, c)
    BY <1>9, <2>2 DEF SettlesOthers
  <2> QED BY <1>6, <1>8, <1>10, <2>2, <2>3 DEF e
<1>11. CASE x.conn[c].up = FALSE
  <2>1. y = z
    BY <1>2, <1>4, <1>8, <1>11
  <2>2. Lonely(x) => Lonely(z)
    BY <1>2, <1>8 DEF Lonely
  <2> QED BY <1>7, <1>8, <1>9, <1>11, <2>1, <2>2 DEF e
<1>12. x.conn[c].up \in BOOLEAN
  BY <1>1 DEF ConnRecs
<1> QED BY <1>10, <1>11, <1>12

LEMMA ConnCloseCore ==
    ASSUME NEW g \in BOOLEAN, NEW x, Core(x, g), NEW c \in Conns,
           x.conn[c].b_out = "linked" => g
    PROVE  LET y == ConnClose(x, c)
           IN  /\ Core(y, g) /\ SettlesOthers(x, y, c) /\ y.crash = x.crash
               /\ Settled(y.conn[c], y.ckt.sent_fin)
               /\ x.conn[c].up \/ Lonely(x) => Lonely(y)
               /\ y.conn[c].st = "gone" /\ y.conn[c].up = FALSE
               /\ y.conn[c].proxied = x.conn[c].proxied /\ y.conn[c].b_out = x.conn[c].b_out
               /\ y.conn[c].timer = FALSE
<1>1. x \in States /\ x.conn[c] \in ConnRecs
  BY StateParts DEF Core
<1> DEFINE z == Emancipate(x, c)
           e == [x.conn[c] EXCEPT !.timer = FALSE, !.up = FALSE]
           k == Gone(e)
           y == ConnClose(x, c)
<1>2. /\ Core(z, g) /\ SettlesOthers(x, z, c)
      /\ x.conn[c].up \/ Lonely(x) => Lonely(z)
      /\ z.conn[c] = e /\ z.ckt.sent_fin = x.ckt.sent_fin /\ z.crash = x.crash
  BY ZenonT(60), EmancipateCore
<1>3. e \in ConnRecs /\ e.b_out = x.conn[c].b_out /\ e.proxied = x.conn[c].proxied /\ e.up = FALSE
  BY <1>1 DEF ConnRecs
<1>4. Own(e, g)
  BY <1>2 DEF Core
<1>5. y = [z EXCEPT !.conn[c] = Gone(z.conn[c])]
  BY DEF ConnClose
<1>6. y = [z EXCEPT !.conn[c] = k]
  BY <1>2, <1>5
<1> HIDE DEF z, e
<1>7. /\ k \in ConnRecs /\ Own(k, g) /\ k.st = "gone" /\ k.up = FALSE
      /\ \A f : Settled(k, f)
  BY <1>3, <1>4, GoneOwn
<1>8. k.b_out = e.b_out /\ k.proxied = e.proxied /\ k.timer = FALSE
  BY <1>3 DEF ConnRecs, Gone
<1> HIDE DEF k, y
<1>9. /\ Core(y, g) /\ y.ckt = z.ckt /\ y.table = z.table /\ y.crash = z.crash /\ y.conn[c] = k
      /\ \A d \in Conns : y.conn[d] = IF d = c THEN k ELSE z.conn[d]
  BY <1>2, <1>6, <1>7, ConnChanged
<1>10. SettlesOthers(x, y, c)
  BY <1>2, <1>9 DEF SettlesOthers
<1>11. Lonely(z) => Lonely(y)
  BY <1>2, <1>3, <1>7, <1>9 DEF Lonely
<1> QED BY <1>2, <1>3, <1>7, <1>8, <1>9, <1>10, <1>11 DEF y

\* DownFlushCb, for a connection whose output may just have drained.
LEMMA DownFlushCbCore ==
    ASSUME NEW g \in BOOLEAN, NEW x, NEW c \in Conns, NEW b \in BOOLEAN,
           Core([x EXCEPT !.conn[c].out = b], g), x \in States,
           b \/ ~x.conn[c].out,
           (x.conn[c].connected /\ x.conn[c].proxied = "no") \/ x.conn[c].out = b,
           x.conn[c].b_out = "linked" => g
    PROVE  LET y == DownFlushCb(x, c)
           IN  /\ Core(y, g) /\ SettlesOthers(x, y, c) /\ y.crash = x.crash
               /\ Settled(y.conn[c], y.ckt.sent_fin)
               /\ Lonely(x) => Lonely(y)
<1> DEFINE k == x.conn[c]
           o == [x EXCEPT !.conn[c].out = b]
           ko == [k EXCEPT !.out = b]
           w == [k EXCEPT !.write_eof = TRUE]
           z == [x EXCEPT !.conn[c] = w]
           due == ~k.out /\ ((k.pending /\ k.connected) \/ (~k.up /\ k.ever))
           y == DownFlushCb(x, c)
<1>1. k \in ConnRecs
  BY StateParts
<1>2. y = IF ~due THEN x ELSE IF k.read_eof THEN ConnClose(z, c) ELSE z
  BY DEF DownFlushCb
<1>3. ko \in ConnRecs
  BY <1>1 DEF ConnRecs
<1>4. /\ o.ckt = x.ckt /\ o.table = x.table /\ o.crash = x.crash /\ o.conn[c] = ko
      /\ \A d \in Conns : o.conn[d] = IF d = c THEN ko ELSE x.conn[d]
  BY <1>3, ConnPut
<1>5. Core(o, g) /\ Own(ko, g) /\ (ko.up => o.ckt.st = "open")
  BY <1>4 DEF Core
<1>6. CASE ~due
  <2>1. y = x
    BY <1>2, <1>6
  <2>2. Own(k, g)
    BY <1>1, <1>5, <1>6 DEF ConnRecs, Own, Draining, Owing, Turns, HasRoom, Ends
  <2>3. Settled(k, x.ckt.sent_fin)
    BY <1>6 DEF Settled
  <2>4. k.up = ko.up /\ k.can = ko.can /\ k.fits = ko.fits
    BY <1>1 DEF ConnRecs
  <2>5. [o EXCEPT !.conn[c] = k] = x
    BY DEF States
  <2> HIDE DEF k, o, ko
  <2>6. Core([o EXCEPT !.conn[c] = k], g)
    BY <1>1, <1>4, <1>5, <2>2, <2>4, ConnChanged DEF HasRoom
  <2> QED BY <2>1, <2>3, <2>5, <2>6 DEF SettlesOthers, k
<1>7. CASE due
  <2>1. /\ w \in ConnRecs /\ w.up = k.up /\ w.b_out = k.b_out /\ w.write_eof = TRUE
        /\ w.read_eof = k.read_eof /\ w.can = k.can /\ w.fits = k.fits
    BY <1>1 DEF ConnRecs
  <2>2. Own(w, g)
    BY <1>1, <1>5, <1>7 DEF ConnRecs, Own, Draining, Owing, Turns, HasRoom, Ends
  <2>3. w.up => o.ckt.st = "open"
    <3>1. ko.up = k.up
      BY <1>1 DEF ConnRecs
    <3> QED BY <1>5, <2>1, <3>1
  <2>4. HasRoom(w) => HasRoom(ko)
    BY <1>1, <2>1 DEF ConnRecs, HasRoom
  <2>5. w.up => ko.up
    BY <1>1, <2>1 DEF ConnRecs
  <2>6. z = [o EXCEPT !.conn[c] = w]
    BY DEF States
  <2> HIDE DEF w, o, ko, z
  <2>7. /\ Core(z, g) /\ z.ckt = o.ckt /\ z.table = o.table /\ z.crash = o.crash /\ z.conn[c] = w
        /\ \A d \in Conns : z.conn[d] = IF d = c THEN w ELSE o.conn[d]
    BY <1>4, <1>5, <2>1, <2>2, <2>3, <2>4, <2>5, <2>6, ConnChanged
  <2>8. SettlesOthers(x, z, c) /\ (Lonely(x) => Lonely(z))
    BY <1>4, <2>1, <2>7 DEF SettlesOthers, Lonely
  <2> HIDE DEF z
  <2>9. CASE k.read_eof
    <3>1. y = ConnClose(z, c)
      BY <1>2, <1>7, <2>9
    <3>2. z.conn[c].b_out = "linked" => g
      BY <2>1, <2>7
    <3>3. /\ Core(y, g) /\ SettlesOthers(z, y, c) /\ y.crash = z.crash
          /\ Settled(y.conn[c], y.ckt.sent_fin)
          /\ Lonely(z) => Lonely(y)
      BY ZenonT(60), <2>7, <3>1, <3>2, ConnCloseCore
    <3> QED BY <1>4, <2>7, <2>8, <3>3 DEF SettlesOthers
  <2>10. CASE ~k.read_eof
    <3>1. y = z
      BY <1>2, <1>7, <2>10
    <3>2. Settled(w, z.ckt.sent_fin)
      BY <2>1, <2>10 DEF Settled
    <3> QED BY <1>4, <2>7, <2>8, <3>1, <3>2
  <2> QED BY <2>9, <2>10
<1> QED BY <1>6, <1>7

LEMMA ConnDoFlushCore ==
    ASSUME NEW g \in BOOLEAN, NEW x, Core(x, g), NEW c \in Conns,
           x.conn[c].b_out = "linked" => g
    PROVE  LET y == ConnDoFlush(x, c)
           IN  /\ Core(y, g) /\ SettlesOthers(x, y, c) /\ y.crash = x.crash
               /\ Settled(y.conn[c], y.ckt.sent_fin)
               /\ Lonely(x) => Lonely(y)
<1>1. x \in States /\ x.conn[c] \in ConnRecs
  BY StateParts DEF Core
<1> DEFINE k == [x.conn[c] EXCEPT !.pending = TRUE]
           z == [x EXCEPT !.conn[c] = k]
           y == ConnDoFlush(x, c)
<1>2. /\ k \in ConnRecs /\ k.up = x.conn[c].up /\ k.can = x.conn[c].can /\ k.fits = x.conn[c].fits
      /\ k.b_out = x.conn[c].b_out /\ k.out \in BOOLEAN
  BY <1>1 DEF ConnRecs
<1>3. Own(k, g)
  <2>1. Own(x.conn[c], g)
    BY DEF Core
  <2> QED BY <1>1, <2>1 DEF ConnRecs, Own, Draining, Owing, Turns, HasRoom, Ends
<1>4. y = DownFlushCb(z, c)
  BY DEF ConnDoFlush
<1>5. x.conn[c].up => x.ckt.st = "open"
  BY DEF Core
<1> HIDE DEF k
<1>6. /\ Core(z, g) /\ z.ckt = x.ckt /\ z.table = x.table /\ z.crash = x.crash /\ z.conn[c] = k
      /\ \A d \in Conns : z.conn[d] = IF d = c THEN k ELSE x.conn[d]
  BY <1>2, <1>3, <1>5, ConnChanged DEF HasRoom
<1>7. SettlesOthers(x, z, c) /\ (Lonely(x) => Lonely(z))
  BY <1>2, <1>6 DEF SettlesOthers, Lonely
<1> HIDE DEF z
<1>8. z \in States
  BY <1>6 DEF Core
<1>9. [z EXCEPT !.conn[c].out = k.out] = z
  BY <1>2, <1>6, <1>8, StateParts DEF States, ConnRecs
<1>10. /\ Core(y, g) /\ SettlesOthers(z, y, c) /\ y.crash = z.crash
       /\ Settled(y.conn[c], y.ckt.sent_fin)
       /\ Lonely(z) => Lonely(y)
  <2> DEFINE b == k.out
  <2>1. Core([z EXCEPT !.conn[c].out = b], g)
    BY <1>6, <1>9
  <2>2. b \in BOOLEAN /\ (b \/ ~z.conn[c].out)
    BY <1>2, <1>6
  <2> HIDE DEF b
  <2> QED BY <1>2, <1>4, <1>6, <1>8, <2>1, <2>2, DownFlushCbCore DEF b
<1> QED BY <1>6, <1>7, <1>10 DEF SettlesOthers

-----------------------------------------------------------------------------
(* Attaching, sending and the ends of the circuit.                         *)

LEMMA AddDownstreamCore ==
    ASSUME NEW g \in BOOLEAN, NEW x, Core(x, g), NEW c \in Conns, x.ckt.st = "open",
           x.conn[c].st = "open", x.conn[c].proxied = "no",
           ~Client /\ TurnTaking => x.conn[c].can \/ x.conn[c].did
    PROVE  LET y == AddDownstream(x, c)
           IN  /\ Core(y, g) /\ SettlesOthers(x, y, c) /\ y.crash = x.crash
               /\ y.conn[c].up /\ Lonely(y) /\ y.ckt.st = "open"
               /\ y.conn[c].proxied = "no"
<1>1. x \in States /\ x.conn[c] \in ConnRecs /\ x.ckt \in CktRecs
  BY StateParts DEF Core
<1> DEFINE t == [x.ckt EXCEPT !.axe = FALSE]
           z == [x EXCEPT !.ckt = t]
           k == [x.conn[c] EXCEPT !.up = TRUE]
           y == AddDownstream(x, c)
<1>2. y = [z EXCEPT !.conn[c] = k]
  BY <1>1 DEF AddDownstream, States
<1>3. /\ t \in CktRecs /\ t.st = x.ckt.st /\ t.axe = FALSE /\ t.flush = x.ckt.flush
      /\ t.sent_fin = x.ckt.sent_fin /\ t.received_fin = x.ckt.received_fin
      /\ t.pending = x.ckt.pending /\ t.write_eof = x.ckt.write_eof /\ t.axed = x.ckt.axed /\ t.reset = x.ckt.reset
  BY <1>1 DEF CktRecs
<1>4. k \in ConnRecs /\ k.up = TRUE /\ k.proxied = "no"
  BY <1>1 DEF ConnRecs
<1>5. Own(k, g)
  <2>1. Own(x.conn[c], g)
    BY DEF Core
  <2> QED BY <1>1, <2>1 DEF ConnRecs, Own, Draining, Owing, Turns, HasRoom, Ends
<1> HIDE DEF t, k
<1>6. Core(z, g) /\ z.ckt = t /\ z.crash = x.crash /\ z.conn = x.conn
  <2>1. Registered(x) /\ Finished(x)
    BY DEF Core
  <2> QED BY <1>3, <2>1, CktChanged DEF Registered, Finished
<1> HIDE DEF z, y
<1>7. /\ Core(y, g) /\ y.ckt = z.ckt /\ y.crash = z.crash /\ y.conn[c] = k
      /\ \A d \in Conns : y.conn[d] = IF d = c THEN k ELSE z.conn[d]
  BY <1>2, <1>3, <1>4, <1>5, <1>6, ConnChanged
<1>8. SettlesOthers(x, y, c)
  BY <1>3, <1>6, <1>7 DEF SettlesOthers
<1>9. Lonely(y)
  BY <1>4, <1>7 DEF Lonely
<1> QED BY <1>3, <1>4, <1>6, <1>7, <1>8, <1>9 DEF y

\* A transmission that says nothing of the circuit.
LEMMA TransmitCore ==
    ASSUME NEW g \in BOOLEAN, NEW x, Core(x, g), NEW c \in Conns, HasRoom(x.conn[c])
    PROVE  LET y == [x EXCEPT !.conn[c] = StegTransmit(@)]
           IN  /\ Core(y, g) /\ Settles(x, y) /\ y.crash = x.crash /\ y.ckt = x.ckt
               /\ \A d \in Conns : y.conn[d].up = x.conn[d].up
               /\ y.conn[c].proxied = x.conn[c].proxied
               /\ Settled(y.conn[c], y.ckt.sent_fin)
<1>1. x \in States /\ x.conn[c] \in ConnRecs /\ Own(x.conn[c], g)
  BY StateParts DEF Core
<1> DEFINE k == StegTransmit(x.conn[c])
           y == [x EXCEPT !.conn[c] = k]
<1>2. /\ k \in ConnRecs /\ Own(k, g) /\ k.up = x.conn[c].up /\ k.proxied = x.conn[c].proxied
      /\ HasRoom(k) => HasRoom(x.conn[c])
      /\ \A f : Settled(k, f)
  BY <1>1, TransmitOwn
<1>3. x.conn[c].up => x.ckt.st = "open"
  BY DEF Core
<1> HIDE DEF k
<1>4. /\ Core(y, g) /\ y.ckt = x.ckt /\ y.crash = x.crash /\ y.conn[c] = k
      /\ \A d \in Conns : y.conn[d] = IF d = c THEN k ELSE x.conn[d]
  BY <1>2, <1>3, ConnChanged
<1>5. y = [x EXCEPT !.conn[c] = StegTransmit(@)]
  BY DEF k
<1> HIDE DEF y
<1>6. Settles(x, y)
  BY <1>2, <1>4 DEF Settles
<1> QED BY <1>2, <1>4, <1>5, <1>6

LEMMA EmitCore ==
    ASSUME NEW g \in BOOLEAN, NEW x, Core(x, g), NEW c \in Conns, x.conn[c].up,
           HasRoom(x.conn[c]), NEW fin \in BOOLEAN
    PROVE  LET y == Emit(x, c, fin)
           IN  /\ Core(y, g) /\ Settles(x, y) /\ y.crash = x.crash /\ Lonely(y)
               /\ y.conn[c].up /\ y.conn[c].proxied = x.conn[c].proxied
               /\ Settled(y.conn[c], y.ckt.sent_fin)
               /\ y.ckt.st = "open"
               /\ \A d \in Conns : y.conn[d].up = x.conn[d].up
<1>1. x \in States /\ x.ckt \in CktRecs /\ x.ckt.st = "open"
  BY StateParts DEF Core
<1> DEFINE z == [x EXCEPT !.conn[c] = StegTransmit(@)]
           t == [x.ckt EXCEPT !.sent_fin = @ \/ fin, !.read_eof = @ \/ fin]
           y == Emit(x, c, fin)
<1>2. y = [z EXCEPT !.ckt = t]
  BY <1>1 DEF Emit, States
<1>3. /\ t \in CktRecs /\ t.st = x.ckt.st /\ t.axe = x.ckt.axe /\ t.flush = x.ckt.flush
      /\ t.sent_fin = (x.ckt.sent_fin \/ fin) /\ t.received_fin = x.ckt.received_fin
      /\ t.pending = x.ckt.pending /\ t.write_eof = x.ckt.write_eof /\ t.axed = x.ckt.axed /\ t.reset = x.ckt.reset
  BY ZenonT(60), <1>1 DEF CktRecs
<1>4. /\ Core(z, g) /\ Settles(x, z) /\ z.crash = x.crash /\ z.ckt = x.ckt
      /\ \A d \in Conns : z.conn[d].up = x.conn[d].up
      /\ z.conn[c].proxied = x.conn[c].proxied
      /\ Settled(z.conn[c], z.ckt.sent_fin)
  BY TransmitCore
<1> HIDE DEF t, z
<1>5. Core(y, g) /\ y.ckt = t /\ y.crash = z.crash /\ y.conn = z.conn
  <2>1. Registered(z) /\ Finished(z)
    BY <1>4 DEF Core
  <2> QED BY <1>1, <1>2, <1>3, <1>4, <2>1, CktChanged DEF Registered, Finished
<1> HIDE DEF y
<1>6. Settles(x, y) /\ Settled(y.conn[c], y.ckt.sent_fin)
  BY <1>3, <1>4, <1>5 DEF Settles, Settled
<1>7. Lonely(y)
  BY <1>4, <1>5 DEF Lonely
<1> QED BY <1>1, <1>3, <1>4, <1>5, <1>6, <1>7 DEF y

LEMMA CrashedCore ==
    ASSUME NEW g \in BOOLEAN, NEW x, Core(x, g), NEW why \in CrashKinds
    PROVE  LET y == Crashed(x, why)
           IN  /\ Core(y, g) /\ y.conn = x.conn /\ y.ckt = x.ckt /\ y.table = x.table
               /\ y.crash = IF x.crash = "no" THEN why ELSE x.crash
<1> DEFINE y == Crashed(x, why)
           b == IF x.crash = "no" THEN why ELSE x.crash
<1>1. x \in States /\ b \in CrashKinds
  BY StateParts DEF Core
<1>2. y = [x EXCEPT !.crash = b]
  BY DEF Crashed
<1> HIDE DEF b
<1>3. y \in States /\ y.conn = x.conn /\ y.ckt = x.ckt /\ y.table = x.table /\ y.crash = b
  BY <1>1, <1>2 DEF States
<1> HIDE DEF y
<1>4. Core(y, g)
  BY <1>3 DEF Core, Registered, Finished, AxeHangs, Kept
<1> QED BY <1>3, <1>4 DEF b, y

\* What makes an HTTP server that must send unable to.
Stuck(x) ==
    /\ ~Client /\ setup.steg = "http"
    /\ "covers" \in faults \/ \E c \in Conns : x.conn[c].messages > 1

LEMMA StuckIs ==
    ASSUME NEW g \in BOOLEAN, NEW x, NEW c \in Conns, x.conn[c] \in ConnRecs,
           Own(x.conn[c], g), x.conn[c].timer, ~HasRoom(x.conn[c])
    PROVE  Stuck(x)
BY DEF Own, Owing, HasRoom, TurnTaking, Stuck, ConnRecs

LEMMA ConnSendCore ==
    ASSUME NEW g \in BOOLEAN, NEW x, Core(x, g), Lonely(x), NEW c \in Conns,
           NEW ok \in BOOLEAN, NEW fin \in BOOLEAN,
           HasRoom(x.conn[c]) \/ x.conn[c].timer, x.conn[c].b_out = "linked" => g
    PROVE  LET y == ConnSend(x, c, ok, fin)
           IN  /\ Core(y, g) /\ Settles(x, y) /\ Lonely(y)
               /\ y.crash = x.crash \/ (y.crash = "cannot_send" /\ Stuck(y))
               /\ ok => y.conn[c].proxied = x.conn[c].proxied
<1>1. x \in States /\ x.conn[c] \in ConnRecs
  BY StateParts DEF Core
<1> DEFINE k == [x.conn[c] EXCEPT !.timer = FALSE]
           z == [x EXCEPT !.conn[c] = k]
           y == ConnSend(x, c, ok, fin)
<1>2. /\ k \in ConnRecs /\ k.up = x.conn[c].up /\ k.can = x.conn[c].can /\ k.fits = x.conn[c].fits
      /\ k.b_out = x.conn[c].b_out /\ k.proxied = x.conn[c].proxied
      /\ k.messages = x.conn[c].messages
  BY <1>1 DEF ConnRecs
<1>3. Own(k, g)
  <2>1. Own(x.conn[c], g)
    BY DEF Core
  <2> QED BY <1>1, <2>1 DEF ConnRecs, Own, Draining, Owing, Turns, HasRoom, Ends
<1>4. \A f : Settled(x.conn[c], f) => Settled(k, f)
  BY <1>1 DEF ConnRecs, Settled
<1>5. x.conn[c].up => x.ckt.st = "open"
  BY DEF Core
<1>6. y = IF z.conn[c].write_eof THEN z
          ELSE IF ~HasRoom(z.conn[c]) THEN Crashed(z, "cannot_send")
          ELSE IF z.conn[c].up
          THEN IF ok THEN Emit(z, c, fin) ELSE ConnDoFlush(DropDownstream(z, c), c)
          ELSE IF ok THEN [z EXCEPT !.conn[c] = StegTransmit(@)] ELSE ConnDoFlush(z, c)
  BY DEF ConnSend
<1> HIDE DEF k
<1>7. /\ Core(z, g) /\ z.ckt = x.ckt /\ z.crash = x.crash /\ z.conn[c] = k
      /\ \A d \in Conns : z.conn[d] = IF d = c THEN k ELSE x.conn[d]
  BY <1>2, <1>3, <1>5, ConnChanged DEF HasRoom
<1> HIDE DEF z, y
<1>8. Settles(x, z) /\ Lonely(z)
  BY <1>2, <1>4, <1>7 DEF Settles, Lonely
<1>9. CASE ~z.conn[c].write_eof /\ ~HasRoom(z.conn[c])
  <2>1. y = Crashed(z, "cannot_send")
    BY <1>6, <1>9
  <2>2. /\ Core(y, g) /\ y.conn = z.conn /\ y.ckt = z.ckt
        /\ y.crash = IF z.crash = "no" THEN "cannot_send" ELSE z.crash
    BY <1>7, <2>1, CrashedCore DEF CrashKinds
  <2>3. x.conn[c].timer /\ ~HasRoom(x.conn[c])
    BY <1>2, <1>7, <1>9 DEF HasRoom
  <2>4. Stuck(x)
    BY <1>1, <2>3, StuckIs DEF Core
  <2>5. Stuck(y)
    BY <1>2, <1>7, <2>2, <2>4 DEF Stuck
  <2> QED BY <1>2, <1>7, <1>8, <2>2, <2>5 DEF Settles, Lonely, y
<1>10. CASE z.conn[c].write_eof
  BY <1>2, <1>6, <1>7, <1>8, <1>10 DEF y
<1>11. CASE ~z.conn[c].write_eof /\ HasRoom(z.conn[c]) /\ z.conn[c].up /\ ok
  <2>1. y = Emit(z, c, fin)
    BY <1>6, <1>11
  <2>2. /\ Core(y, g) /\ Settles(z, y) /\ y.crash = z.crash /\ Lonely(y)
        /\ y.conn[c].proxied = z.conn[c].proxied
    BY <1>7, <1>11, <2>1, EmitCore
  <2> QED BY <1>2, <1>7, <1>8, <2>2 DEF Settles, y
<1>12. CASE ~z.conn[c].write_eof /\ HasRoom(z.conn[c]) /\ z.conn[c].up /\ ~ok
  <2> DEFINE w == DropDownstream(z, c)
  <2>1. y = ConnDoFlush(w, c)
    BY <1>6, <1>12
  <2>2. /\ Core(w, g) /\ Lonely(w) /\ SettlesOthers(z, w, c)
        /\ w.conn[c] = [z.conn[c] EXCEPT !.up = FALSE] /\ w.crash = z.crash
    BY <1>7, <1>12, DropDownstreamCore
  <2> HIDE DEF w
  <2>3. w.conn[c].b_out = k.b_out
    BY <1>2, <1>7, <2>2 DEF ConnRecs
  <2>4. /\ Core(y, g) /\ SettlesOthers(w, y, c) /\ y.crash = w.crash
        /\ Settled(y.conn[c], y.ckt.sent_fin)
        /\ Lonely(w) => Lonely(y)
    BY <1>2, <2>1, <2>2, <2>3, ConnDoFlushCore
  <2>5. Settles(x, y)
    BY <1>8, <2>2, <2>4 DEF Settles, SettlesOthers
  <2> QED BY <1>7, <1>12, <2>2, <2>4, <2>5 DEF y
<1>13. CASE ~z.conn[c].write_eof /\ HasRoom(z.conn[c]) /\ ~z.conn[c].up /\ ok
  <2>1. y = [z EXCEPT !.conn[c] = StegTransmit(@)]
    BY <1>6, <1>13
  <2>2. /\ Core(y, g) /\ Settles(z, y) /\ y.crash = z.crash /\ y.ckt = z.ckt
        /\ \A d \in Conns : y.conn[d].up = z.conn[d].up
        /\ y.conn[c].proxied = z.conn[c].proxied
    BY <1>7, <1>13, <2>1, TransmitCore
  <2>3. Lonely(y)
    BY <1>8, <2>2 DEF Lonely
  <2> QED BY <1>2, <1>7, <1>8, <2>2, <2>3 DEF Settles, y
<1>14. CASE ~z.conn[c].write_eof /\ HasRoom(z.conn[c]) /\ ~z.conn[c].up /\ ~ok
  <2>1. y = ConnDoFlush(z, c)
    BY <1>6, <1>14
  <2>2. /\ Core(y, g) /\ SettlesOthers(z, y, c) /\ y.crash = z.crash
        /\ Settled(y.conn[c], y.ckt.sent_fin)
        /\ Lonely(z) => Lonely(y)
    BY <1>2, <1>7, <2>1, ConnDoFlushCore
  <2>3. Settles(x, y)
    BY <1>8, <2>2 DEF Settles, SettlesOthers
  <2> QED BY <1>7, <1>8, <1>14, <2>2, <2>3 DEF y
<1> QED BY <1>9, <1>10, <1>11, <1>12, <1>13, <1>14

LEMMA SentEofOwn ==
    ASSUME NEW g \in BOOLEAN, NEW k \in ConnRecs, Own(k, g)
    PROVE  LET e == SentEof(k)
           IN  /\ e \in ConnRecs /\ Own(e, g) /\ e.up = k.up /\ e.can = k.can /\ e.fits = k.fits
<1> DEFINE p == [k EXCEPT !.pending = TRUE]
           q == [k EXCEPT !.pending = TRUE, !.write_eof = TRUE, !.shut = TRUE]
<1>1. p \in ConnRecs /\ p.up = k.up /\ p.can = k.can /\ p.fits = k.fits
  BY DEF ConnRecs
<1>2. q \in ConnRecs /\ q.up = k.up /\ q.can = k.can /\ q.fits = k.fits
  BY DEF ConnRecs
<1>3. Own(p, g)
  BY DEF ConnRecs, Own, Draining, Owing, Turns, HasRoom, Ends
<1>4. Own(q, g)
  BY DEF ConnRecs, Own, Draining, Owing, Turns, HasRoom, Ends
<1>5. SentEof(k) \in {p, q}
  BY DEF SentEof
<1> HIDE DEF p, q
<1> QED BY <1>1, <1>2, <1>3, <1>4, <1>5

\* What the walk has said on one connection before the end.
LEMMA SaidOwn ==
    ASSUME NEW g \in BOOLEAN, NEW k \in ConnRecs, Own(k, g), NEW b \in BOOLEAN,
           b => HasRoom(k)
    PROVE  LET e == IF b THEN StegTransmit(k) ELSE [k EXCEPT !.timer = FALSE]
           IN  e \in ConnRecs /\ Own(e, g) /\ e.up = k.up /\ (HasRoom(e) => HasRoom(k))
<1>1. CASE b
  BY <1>1, TransmitOwn
<1>2. CASE ~b
  <2> DEFINE e == [k EXCEPT !.timer = FALSE]
  <2>1. e \in ConnRecs /\ e.up = k.up /\ e.can = k.can /\ e.fits = k.fits
    BY DEF ConnRecs
  <2>2. Own(e, g)
    BY DEF ConnRecs, Own, Draining, Owing, Turns, HasRoom, Ends
  <2> HIDE DEF e
  <2>3. HasRoom(e) => HasRoom(k)
    BY <2>1 DEF HasRoom
  <2> QED BY <1>2, <2>1, <2>2, <2>3 DEF e
<1> QED BY <1>1, <1>2

LEMMA EofWalkCore ==
    ASSUME NEW g \in BOOLEAN, NEW x, Core(x, g), NEW bad \in SUBSET Conns
    PROVE  LET y == EofWalk(x, bad)
           IN  /\ Core(y, g) /\ Settles(x, y) /\ y.ckt = x.ckt
               /\ \/ y.crash = x.crash
                  \/ y.crash = "iterator" /\ bad # {}
                  \/ y.crash = "cannot_send" /\ Stuck(y)
<1> DEFINE due == {c \in Downstreams(x) : x.conn[c].timer /\ ~x.conn[c].write_eof}
           said(c, k) == IF c \in due THEN StegTransmit(k) ELSE [k EXCEPT !.timer = FALSE]
           f == [c \in Conns |-> IF x.conn[c].up THEN SentEof(said(c, x.conn[c])) ELSE x.conn[c]]
           y == EofWalk(x, bad)
           full == \E c \in due : ~HasRoom(x.conn[c])
<1>1. x \in States
  BY DEF Core
<1>2. y = IF full THEN Crashed(x, "cannot_send")
          ELSE IF bad \cap due # {} THEN Crashed(x, "iterator") ELSE [x EXCEPT !.conn = f]
  BY DEF EofWalk
<1>3. CASE full
  <2>1. y = Crashed(x, "cannot_send")
    BY <1>2, <1>3
  <2>2. /\ Core(y, g) /\ y.conn = x.conn /\ y.ckt = x.ckt
        /\ y.crash = IF x.crash = "no" THEN "cannot_send" ELSE x.crash
    BY <2>1, CrashedCore DEF CrashKinds
  <2>3. PICK c \in due : ~HasRoom(x.conn[c])
    BY <1>3
  <2>4. c \in Conns /\ x.conn[c].timer /\ x.conn[c] \in ConnRecs /\ Own(x.conn[c], g)
    BY <1>1, <2>3, StateParts DEF Core, Downstreams
  <2>5. Stuck(x)
    BY <2>3, <2>4, StuckIs
  <2> QED BY <2>2, <2>5 DEF Settles, Stuck
<1>4. CASE ~full /\ bad \cap due # {}
  <2>1. y = Crashed(x, "iterator")
    BY <1>2, <1>4
  <2>2. /\ Core(y, g) /\ y.conn = x.conn /\ y.ckt = x.ckt
        /\ y.crash = IF x.crash = "no" THEN "iterator" ELSE x.crash
    BY <2>1, CrashedCore DEF CrashKinds
  <2> QED BY <1>4, <2>2 DEF Settles
<1>5. CASE ~full /\ ~(bad \cap due # {})
  <2>1. y = [x EXCEPT !.conn = f]
    BY <1>2, <1>5
  <2>2. ASSUME NEW c \in Conns
        PROVE  /\ f[c] \in ConnRecs /\ Own(f[c], g) /\ f[c].up = x.conn[c].up
               /\ ~x.conn[c].up => f[c] = x.conn[c]
               /\ HasRoom(f[c]) => HasRoom(x.conn[c])
    <3>0. c \in due => HasRoom(x.conn[c])
      BY <1>5
    <3> HIDE DEF due
    <3>1. x.conn[c] \in ConnRecs /\ Own(x.conn[c], g)
      BY <1>1, StateParts DEF Core
    <3>2. CASE ~x.conn[c].up
      BY <3>1, <3>2
    <3>3. CASE x.conn[c].up
      <4> DEFINE e == said(c, x.conn[c])
                 b == c \in due
      <4>1. f[c] = SentEof(e)
        BY <3>3
      <4>2. e = IF b THEN StegTransmit(x.conn[c]) ELSE [x.conn[c] EXCEPT !.timer = FALSE]
        OBVIOUS
      <4>3. b \in BOOLEAN /\ (b => HasRoom(x.conn[c]))
        BY <3>0
      <4> HIDE DEF e, b, f
      <4>4. /\ e \in ConnRecs /\ Own(e, g) /\ e.up = x.conn[c].up
            /\ HasRoom(e) => HasRoom(x.conn[c])
        BY ONLY <3>1, <4>2, <4>3, SaidOwn, g \in BOOLEAN
      <4>5. /\ f[c] \in ConnRecs /\ Own(f[c], g) /\ f[c].up = e.up /\ f[c].can = e.can
            /\ f[c].fits = e.fits
        BY <4>1, <4>4, SentEofOwn
      <4>6. HasRoom(f[c]) => HasRoom(e)
        BY <4>5 DEF HasRoom
      <4> QED BY <3>3, <4>4, <4>5, <4>6
    <3> QED BY <3>2, <3>3
  <2>3. f \in [Conns -> ConnRecs]
    BY <2>2
  <2> HIDE DEF f
  <2>4. y \in States /\ y.conn = f /\ y.ckt = x.ckt /\ y.table = x.table /\ y.crash = x.crash
    BY <1>1, <2>1, <2>3 DEF States
  <2> HIDE DEF y
  <2>5. Registered(y) /\ Finished(y) /\ Kept(y)
    BY <2>4 DEF Core, Registered, Finished, Kept
  <2>6. AxeHangs(y)
    BY <2>2, <2>4 DEF Core, AxeHangs
  <2>7. Core(y, g)
    BY <2>2, <2>4, <2>5, <2>6 DEF Core
  <2>8. Settles(x, y)
    BY <2>2, <2>4 DEF Settles, Settled
  <2> QED BY <2>4, <2>7, <2>8 DEF y
<1> QED BY <1>3, <1>4, <1>5

LEMMA CheckForEofCore ==
    ASSUME NEW g \in BOOLEAN, NEW x, Core(x, g), LonelyServer(x), NEW bad \in SUBSET Conns
    PROVE  LET y == CheckForEof(x, bad)
           IN  /\ Core(y, g) /\ Settles(x, y) /\ Lonely(y)
               /\ \/ y.crash = x.crash
                  \/ y.crash = "iterator" /\ bad # {}
                  \/ y.crash = "cannot_send" /\ Stuck(y)
<1>1. x \in States /\ x.ckt \in CktRecs
  BY StateParts DEF Core
<1> DEFINE b == IF x.ckt.sent_fin /\ x.ckt.received_fin THEN FALSE
                ELSE x.ckt.flush \/ (Client /\ x.ckt.st = "open")
           t == [x.ckt EXCEPT !.flush = b]
           z == [x EXCEPT !.ckt = t]
           y == CheckForEof(x, bad)
<1>2. b \in BOOLEAN
  BY <1>1 DEF CktRecs
<1>3. y = IF x.ckt.sent_fin /\ x.ckt.received_fin THEN EofWalk(z, bad) ELSE z
  BY DEF CheckForEof
<1>4. b => x.ckt.flush \/ x.ckt.st = "open"
  OBVIOUS
<1>5. ~(x.ckt.sent_fin /\ x.ckt.received_fin) /\ Client /\ x.ckt.st = "open" => b
  OBVIOUS
<1> HIDE DEF b
<1>6. /\ t \in CktRecs /\ t.st = x.ckt.st /\ t.axe = x.ckt.axe /\ t.flush = b
      /\ t.sent_fin = x.ckt.sent_fin /\ t.received_fin = x.ckt.received_fin
      /\ t.pending = x.ckt.pending /\ t.write_eof = x.ckt.write_eof /\ t.axed = x.ckt.axed /\ t.reset = x.ckt.reset
  BY <1>1, <1>2 DEF CktRecs
<1> HIDE DEF t
<1>7. Core(z, g) /\ z.ckt = t /\ z.crash = x.crash /\ z.conn = x.conn
  <2>1. Registered(x) /\ Finished(x)
    BY DEF Core
  <2> QED BY <1>1, <1>4, <1>6, <2>1, CktChanged DEF Registered, Finished
<1> HIDE DEF z, y
<1>8. Settles(x, z)
  BY <1>6, <1>7 DEF Settles
<1>9. CASE x.ckt.sent_fin /\ x.ckt.received_fin
  <2>1. /\ Core(y, g) /\ Settles(z, y) /\ y.ckt = z.ckt
        /\ \/ y.crash = z.crash
           \/ y.crash = "iterator" /\ bad # {}
           \/ y.crash = "cannot_send" /\ Stuck(y)
    BY <1>3, <1>7, <1>9, EofWalkCore
  <2>2. Lonely(y)
    BY <1>6, <1>7, <1>9, <2>1 DEF Lonely, Core, Finished
  <2> QED BY <1>7, <1>8, <2>1, <2>2 DEF Settles, y
<1>10. CASE ~(x.ckt.sent_fin /\ x.ckt.received_fin)
  <2>1. y = z
    BY <1>3, <1>10
  <2>2. Lonely(z)
    BY <1>5, <1>6, <1>7, <1>10 DEF Lonely, LonelyServer
  <2> QED BY <1>7, <1>8, <2>1, <2>2 DEF y
<1> QED BY <1>9, <1>10

-----------------------------------------------------------------------------
(* send().                                                                 *)

\* The ways a callback of this part may end the process; f: a transmission
\* may fail.
Causes(x, f) ==
    \/ x.crash = "no"
    \/ x.crash = "assert_shutdown" /\ stopping # "no"
    \/ x.crash = "iterator" /\ f
    \/ x.crash = "write_after_eof" /\ (x.ckt.axed \/ x.ckt.reset)
    \/ x.crash = "cannot_send" /\ Stuck(x)

\* Of these, the one of opening connections.
Halts(x) == x.crash = "no" \/ (x.crash = "assert_shutdown" /\ stopping # "no")

\* What a callback leaves.
Fine(x, g, f) ==
    Core(x, g) /\ Causes(x, f) /\ (x.crash = "no" => Lonely(x) /\ AllSettled(x))

LEMMA FreshConn ==
    ASSUME NEW g \in BOOLEAN, Client
    PROVE  LET k == [NoConn EXCEPT !.st = "open", !.up = TRUE, !.can = TurnTaking]
           IN  k \in ConnRecs /\ Own(k, g) /\ k.up = TRUE /\ k.st = "open"
<1> DEFINE k == [NoConn EXCEPT !.st = "open", !.up = TRUE, !.can = TurnTaking]
           b == TurnTaking
<1>1. b \in BOOLEAN
  BY DEF TurnTaking
<1>2. k = [NoConn EXCEPT !.st = "open", !.up = TRUE, !.can = b]
  OBVIOUS
<1> HIDE DEF b, k
<1>3. k = [st |-> "open", up |-> TRUE, connected |-> FALSE, hs |-> FALSE,
           can |-> b, did |-> FALSE, timer |-> FALSE, out |-> FALSE,
           read_eof |-> FALSE, write_eof |-> FALSE, pending |-> FALSE,
           ever |-> FALSE, nomore |-> FALSE, shut |-> FALSE, peer_eof |-> FALSE,
           greeted |-> FALSE, messages |-> 0, proxied |-> "no",
           b_out |-> "none", b_out_full |-> FALSE, choked |-> FALSE,
           b_choked |-> FALSE, fits |-> TRUE, wrong |-> {}]
  BY <1>2 DEF NoConn
<1> HIDE DEF k
<1>4. k.can = TurnTaking
  BY <1>3 DEF b
<1>5. k \in ConnRecs
  BY <1>1, <1>3 DEF ConnRecs
<1>6. /\ k.st = "open" /\ k.up = TRUE /\ k.hs = FALSE /\ k.timer = FALSE /\ k.nomore = FALSE
      /\ k.peer_eof = FALSE /\ k.proxied = "no" /\ k.b_out = "none" /\ k.choked = FALSE
      /\ k.ever = FALSE /\ k.fits = TRUE /\ k.b_choked = FALSE
  BY <1>3
<1>7. Own(k, g)
  BY <1>4, <1>6 DEF Own, Draining, Owing, Turns, HasRoom, Ends
<1> QED BY <1>5, <1>6, <1>7 DEF k

LEMMA OpenedCore ==
    ASSUME NEW g \in BOOLEAN, NEW x, Core(x, g), NEW c \in Conns, x.ckt.st = "open",
           x.crash = "no", Client
    PROVE  LET y == Opened(x, {c})
           IN  Core(y, g) /\ Settles(x, y) /\ Halts(y)
<1>1. x \in States /\ x.ckt \in CktRecs
  BY StateParts DEF Core
<1> DEFINE k == [NoConn EXCEPT !.st = "open", !.up = TRUE, !.can = TurnTaking]
           t == [x.ckt EXCEPT !.axe = FALSE]
           z == [x EXCEPT !.ckt = t]
           f == [d \in Conns |-> IF d \in {c} THEN k ELSE x.conn[d]]
           y == Opened(x, {c})
<1>2. CASE stopping # "no"
  <2>1. y = Crashed(x, "assert_shutdown")
    BY <1>2 DEF Opened
  <2>2. /\ Core(y, g) /\ y.conn = x.conn /\ y.ckt = x.ckt
        /\ y.crash = IF x.crash = "no" THEN "assert_shutdown" ELSE x.crash
    BY <2>1, CrashedCore DEF CrashKinds
  <2> QED BY <1>2, <2>2 DEF Settles, Halts
<1>3. CASE stopping = "no"
  <2>1. k \in ConnRecs /\ Own(k, g) /\ k.up = TRUE /\ k.st = "open"
    BY FreshConn
  <2>2. y = [x EXCEPT !.conn = f, !.ckt = t]
    BY <1>3 DEF Opened
  <2> HIDE DEF k
  <2>3. [x EXCEPT !.conn = f, !.ckt = t] = [z EXCEPT !.conn[c] = k]
    <3>1. f = [x.conn EXCEPT ![c] = k]
      BY <1>1 DEF States
    <3> HIDE DEF f
    <3> QED BY <1>1, <3>1 DEF States
  <2>4. /\ t \in CktRecs /\ t.st = x.ckt.st /\ t.axe = FALSE /\ t.flush = x.ckt.flush
        /\ t.sent_fin = x.ckt.sent_fin /\ t.received_fin = x.ckt.received_fin
        /\ t.pending = x.ckt.pending /\ t.write_eof = x.ckt.write_eof /\ t.axed = x.ckt.axed /\ t.reset = x.ckt.reset
    BY <1>1 DEF CktRecs
  <2> HIDE DEF t
  <2>5. Core(z, g) /\ z.ckt = t /\ z.crash = x.crash /\ z.conn = x.conn
    <3>1. Registered(x) /\ Finished(x)
      BY DEF Core
    <3> QED BY <2>4, <3>1, CktChanged DEF Registered, Finished
  <2> HIDE DEF z, y, f
  <2>6. /\ Core(y, g) /\ y.ckt = z.ckt /\ y.crash = z.crash
        /\ \A d \in Conns : y.conn[d] = IF d = c THEN k ELSE z.conn[d]
    <3>1. y = [z EXCEPT !.conn[c] = k]
      BY <2>2, <2>3
    <3>2. z.ckt.st = "open"
      BY <2>4, <2>5
    <3> QED BY <2>1, <2>5, <3>1, <3>2, ConnChanged
  <2>7. Settles(x, y)
    BY <2>1, <2>4, <2>5, <2>6 DEF Settles, Settled
  <2> QED BY <2>5, <2>6, <2>7 DEF Halts, y
<1> QED BY <1>2, <1>3

LEMMA NoTargetCore ==
    ASSUME NEW g \in BOOLEAN, NEW x, Core(x, g), x.ckt.st = "open", x.crash = "no",
           Targets(x) = {}, NEW canFail \in BOOLEAN, NEW y \in NoTarget(x, canFail)
    PROVE  Core(y, g) /\ Settles(x, y) /\ LonelyServer(y) /\ Halts(y)
<1>1. x \in States /\ x.ckt \in CktRecs
  BY StateParts DEF Core
<1>2. CASE Client /\ Cardinality(Downstreams(x)) < MaxConn
  <2>1. y \in Reopened(x, canFail)
    BY <1>2 DEF NoTarget
  <2>2. \/ y = x
        \/ \E c \in Conns : y = Opened(x, {c})
        \/ y = CktClose(x)
    BY <2>1 DEF Reopened
  <2>3. CASE y = x
    BY <1>2, <2>3 DEF Settles, LonelyServer, Halts
  <2>4. CASE \E c \in Conns : y = Opened(x, {c})
    BY <1>2, <2>4, OpenedCore DEF LonelyServer
  <2>5. CASE y = CktClose(x)
    BY <1>2, <2>5, CktCloseCore DEF LonelyServer, Halts
  <2> QED BY <2>2, <2>3, <2>4, <2>5
<1>3. CASE ~(Client /\ Cardinality(Downstreams(x)) < MaxConn)
  <2> DEFINE t == [x.ckt EXCEPT !.axe = TRUE]
             z == [x EXCEPT !.ckt = t]
  <2>1. y = z
    BY <1>3 DEF NoTarget
  <2>2. /\ t \in CktRecs /\ t.st = x.ckt.st /\ t.axe = TRUE /\ t.flush = x.ckt.flush
        /\ t.sent_fin = x.ckt.sent_fin /\ t.received_fin = x.ckt.received_fin
        /\ t.pending = x.ckt.pending /\ t.write_eof = x.ckt.write_eof /\ t.axed = x.ckt.axed /\ t.reset = x.ckt.reset
    BY <1>1 DEF CktRecs
  <2>3. Client \/ \A c \in Conns : x.conn[c].up => ~HasRoom(x.conn[c])
    <3> SUFFICES ASSUME ~Client, NEW c \in Conns, x.conn[c].up
                 PROVE  ~HasRoom(x.conn[c])
      OBVIOUS
    <3>1. x.conn[c].connected
      BY DEF Core, Own, Ends
    <3> QED BY <3>1 DEF Targets, Downstreams
  <2> HIDE DEF t
  <2>4. Core(z, g) /\ z.ckt = t /\ z.crash = x.crash /\ z.conn = x.conn
    <3>1. Registered(x) /\ Finished(x)
      BY DEF Core
    <3> QED BY <2>2, <2>3, <3>1, CktChanged DEF Registered, Finished
  <2> HIDE DEF z
  <2> QED BY <2>1, <2>2, <2>4 DEF Settles, LonelyServer, Halts
<1> QED BY <1>2, <1>3

LEMMA FinChoicesAre ==
    ASSUME NEW x, NEW fin \in FinChoices(x)
    PROVE  fin \in BOOLEAN
<1>1. CASE FinDue(x)
  BY <1>1 DEF FinChoices
<1>2. CASE ~FinDue(x)
  BY <1>2 DEF FinChoices
<1> QED BY <1>1, <1>2

\* What the outcome of send() is; d: a connection attached when it began.
LEMMA CktSendCore ==
    ASSUME NEW g \in BOOLEAN, NEW x0, Core(x0, g), x0.ckt.st = "open", x0.crash = "no",
           AllSettled(x0), NEW canFail \in BOOLEAN, NEW canDrop \in BOOLEAN,
           NEW o \in CktSend(x0, canFail, canDrop)
    PROVE  /\ Core(o.x, g) /\ AllSettled(o.x) /\ Causes(o.x, canFail)
           /\ ~o.err => Lonely(o.x)
           /\ o.err => canFail /\ o.x.ckt.st = "open" /\ o.x.crash = "no" /\ o.x.conn = x0.conn
<1>1. x0 \in States /\ x0.ckt \in CktRecs
  BY StateParts DEF Core
<1> DEFINE t == [x0.ckt EXCEPT !.flush = FALSE]
           x == [x0 EXCEPT !.ckt.flush = FALSE]
<1>2. \/ \E y \in Tried(x, canDrop), bad \in SUBSET Conns :
            o = [x |-> CheckForEof(y, bad), err |-> FALSE] /\ (bad # {} => canFail)
      \/ canFail /\ o = [x |-> x, err |-> TRUE]
  <2> DEFINE bads == IF canFail THEN {{}, Conns} ELSE {{}}
             errs == IF canFail THEN Targets(x) ELSE {}
  <2>1. \A bad \in bads : bad \in SUBSET Conns /\ (bad # {} => canFail)
    OBVIOUS
  <2>2. \A c \in errs : canFail
    OBVIOUS
  <2>3. CktSend(x0, canFail, canDrop) =
            {[x |-> CheckForEof(y, bad), err |-> FALSE] : y \in Tried(x, canDrop), bad \in bads}
            \cup {[x |-> x, err |-> TRUE] : c \in errs}
    BY DEF CktSend
  <2> HIDE DEF bads, errs, x
  <2> QED BY <2>1, <2>2, <2>3
<1>3. /\ t \in CktRecs /\ t.st = x0.ckt.st /\ t.axe = x0.ckt.axe /\ t.flush = FALSE
      /\ t.sent_fin = x0.ckt.sent_fin /\ t.received_fin = x0.ckt.received_fin
      /\ t.pending = x0.ckt.pending /\ t.write_eof = x0.ckt.write_eof /\ t.axed = x0.ckt.axed
      /\ t.reset = x0.ckt.reset
  BY <1>1 DEF CktRecs
<1>a. x = [x0 EXCEPT !.ckt = t]
  OBVIOUS
<1> HIDE DEF t, x
<1>4. Core(x, g) /\ x.ckt = t /\ x.crash = x0.crash /\ x.conn = x0.conn
  <2>1. Registered(x0) /\ Finished(x0)
    BY DEF Core
  <2> QED BY <1>3, <1>a, <2>1, CktChanged DEF Registered, Finished
<1>5. AllSettled(x)
  BY <1>3, <1>4 DEF AllSettled
<1>6. ASSUME NEW y \in Tried(x, canDrop)
      PROVE  Core(y, g) /\ Settles(x, y) /\ LonelyServer(y) /\ Halts(y)
  <2>1. CASE Targets(x) = {}
    <3>1. y \in NoTarget(x, canDrop)
      BY <1>6, <2>1 DEF Tried
    <3> QED BY <1>3, <1>4, <2>1, <3>1, NoTargetCore
  <2>2. CASE Targets(x) # {}
    <3>1. y = x \/ \E c \in Targets(x), fin \in FinChoices(x) : y = Emit(x, c, fin)
      BY <1>6, <2>2 DEF Tried
    <3>2. CASE y = x
      <4>1. LonelyServer(x)
        BY <2>2 DEF Targets, Downstreams, LonelyServer
      <4> QED BY <1>4, <3>2, <4>1 DEF Settles, Halts
    <3>3. CASE \E c \in Targets(x), fin \in FinChoices(x) : y = Emit(x, c, fin)
      <4>1. PICK c \in Targets(x), fin \in FinChoices(x) : y = Emit(x, c, fin)
        BY <3>3
      <4>2. c \in Conns /\ x.conn[c].up /\ HasRoom(x.conn[c]) /\ fin \in BOOLEAN
        <5>1. c \in Downstreams(x) /\ HasRoom(x.conn[c])
          BY DEF Targets
        <5> QED BY <5>1, FinChoicesAre DEF Downstreams
      <4>3. /\ Core(y, g) /\ Settles(x, y) /\ y.crash = x.crash /\ y.conn[c].up
        BY <1>4, <4>1, <4>2, EmitCore
      <4> QED BY <1>4, <4>2, <4>3 DEF LonelyServer, Halts
    <3> QED BY <3>1, <3>2, <3>3
  <2> QED BY <2>1, <2>2
<1>7. ASSUME NEW y \in Tried(x, canDrop), NEW bad \in SUBSET Conns, bad # {} => canFail,
             o = [x |-> CheckForEof(y, bad), err |-> FALSE]
      PROVE  /\ Core(o.x, g) /\ AllSettled(o.x) /\ Causes(o.x, canFail)
             /\ Lonely(o.x) /\ o.err = FALSE
  <2>1. Core(y, g) /\ Settles(x, y) /\ LonelyServer(y) /\ Halts(y)
    BY <1>6
  <2> DEFINE z == CheckForEof(y, bad)
  <2>2. /\ Core(z, g) /\ Settles(y, z) /\ Lonely(z)
        /\ \/ z.crash = y.crash
           \/ z.crash = "iterator" /\ bad # {}
           \/ z.crash = "cannot_send" /\ Stuck(z)
    BY <2>1, CheckForEofCore
  <2>3. o.x = z /\ o.err = FALSE
    BY <1>7
  <2> HIDE DEF z
  <2>4. AllSettled(z)
    BY <1>5, <2>1, <2>2 DEF AllSettled, Settles
  <2>5. Causes(z, canFail)
    BY <1>7, <2>1, <2>2 DEF Causes, Halts
  <2> QED BY <2>2, <2>3, <2>4, <2>5
<1>8. CASE \E y \in Tried(x, canDrop), bad \in SUBSET Conns :
              o = [x |-> CheckForEof(y, bad), err |-> FALSE] /\ (bad # {} => canFail)
  BY <1>7, <1>8
<1>9. CASE canFail /\ o = [x |-> x, err |-> TRUE]
  BY <1>3, <1>4, <1>5, <1>9 DEF Causes
<1> QED BY <1>2, <1>8, <1>9

LEMMA SentFine ==
    ASSUME NEW g \in BOOLEAN, NEW x, Core(x, g), x.ckt.st = "open", x.crash = "no",
           AllSettled(x), NEW canFail \in BOOLEAN, NEW canDrop \in BOOLEAN,
           NEW y \in Sent(x, canFail, canDrop)
    PROVE  Fine(y, g, canFail)
<1>1. PICK o \in CktSend(x, canFail, canDrop) : y = IF o.err THEN CktClose(o.x) ELSE o.x
  BY DEF Sent
<1>2. /\ Core(o.x, g) /\ AllSettled(o.x) /\ Causes(o.x, canFail)
      /\ ~o.err => Lonely(o.x)
      /\ o.err => canFail /\ o.x.ckt.st = "open" /\ o.x.crash = "no" /\ o.x.conn = x.conn
  BY CktSendCore
<1>3. CASE o.err
  <2>1. y = CktClose(o.x)
    BY <1>1, <1>3
  <2>2. /\ Core(y, g) /\ Settles(o.x, y) /\ y.ckt.st = "gone" /\ y.crash = "no"
    BY <1>2, <1>3, <2>1, CktCloseCore
  <2> QED BY <1>2, <2>2 DEF Fine, Causes, Lonely, AllSettled, Settles
<1>4. CASE ~o.err
  <2>1. y = o.x
    BY <1>1, <1>4
  <2> QED BY <1>2, <1>4, <2>1 DEF Fine
<1> QED BY <1>3, <1>4

-----------------------------------------------------------------------------
(* Receiving.                                                              *)

LEMMA CktRecvEofIs ==
    ASSUME NEW x \in States
    PROVE  \E b \in BOOLEAN :
               CktRecvEof(x) = [x EXCEPT !.ckt = [@ EXCEPT !.pending = TRUE, !.write_eof = b]]
<1>1. x.ckt \in CktRecs
  BY StateParts
<1> DEFINE y == [x EXCEPT !.ckt.pending = TRUE]
           b == IF y.ckt.up # "connected" \/ y.ckt.out THEN x.ckt.write_eof ELSE TRUE
<1>2. b \in BOOLEAN
  BY <1>1 DEF CktRecs
<1>3. y.ckt = [x.ckt EXCEPT !.pending = TRUE]
  BY DEF States
<1>4. CktRecvEof(x) = IF y.ckt.up # "connected" \/ y.ckt.out THEN y
                      ELSE [y EXCEPT !.ckt.write_eof = TRUE]
  BY DEF CktRecvEof
<1>5. CASE y.ckt.up # "connected" \/ y.ckt.out
  <2>1. CktRecvEof(x) = y
    BY <1>4, <1>5
  <2>2. [x.ckt EXCEPT !.pending = TRUE, !.write_eof = x.ckt.write_eof] = [x.ckt EXCEPT !.pending = TRUE]
    BY <1>1 DEF CktRecs
  <2>3. [x EXCEPT !.ckt = [x.ckt EXCEPT !.pending = TRUE, !.write_eof = x.ckt.write_eof]] = y
    BY <2>2
  <2>4. x.ckt.write_eof \in BOOLEAN
    BY <1>1 DEF CktRecs
  <2> QED BY <2>1, <2>3, <2>4
<1>6. CASE ~(y.ckt.up # "connected" \/ y.ckt.out)
  <2>1. CktRecvEof(x) = [y EXCEPT !.ckt.write_eof = TRUE]
    BY <1>4, <1>6
  <2>2. [y EXCEPT !.ckt.write_eof = TRUE]
            = [x EXCEPT !.ckt = [x.ckt EXCEPT !.pending = TRUE, !.write_eof = TRUE]]
    BY DEF States
  <2> QED BY <2>1, <2>2
<1> QED BY <1>5, <1>6

LEMMA CktRecvEofCore ==
    ASSUME NEW g \in BOOLEAN, NEW x, Core(x, g), x.ckt.pending
    PROVE  LET y == CktRecvEof(x)
           IN  /\ Core(y, g) /\ Settles(x, y) /\ (Lonely(x) => Lonely(y)) /\ y.crash = x.crash
<1>1. x \in States /\ x.ckt \in CktRecs
  BY StateParts DEF Core
<1>2. PICK b \in BOOLEAN :
          CktRecvEof(x) = [x EXCEPT !.ckt = [@ EXCEPT !.pending = TRUE, !.write_eof = b]]
  BY <1>1, CktRecvEofIs
<1> DEFINE t == [x.ckt EXCEPT !.pending = TRUE, !.write_eof = b]
           y == CktRecvEof(x)
<1>3. y = [x EXCEPT !.ckt = t]
  BY <1>2
<1>4. /\ t \in CktRecs /\ t.st = x.ckt.st /\ t.axe = x.ckt.axe /\ t.flush = x.ckt.flush
      /\ t.sent_fin = x.ckt.sent_fin /\ t.received_fin = x.ckt.received_fin
      /\ t.pending = TRUE /\ t.axed = x.ckt.axed /\ t.reset = x.ckt.reset
  BY <1>1 DEF CktRecs
<1> HIDE DEF t, y
<1>5. Core(y, g) /\ y.ckt = t /\ y.crash = x.crash /\ y.conn = x.conn
  <2>1. Registered(x) /\ Finished(x)
    BY DEF Core
  <2> QED BY <1>3, <1>4, <2>1, CktChanged DEF Registered, Finished
<1> QED BY <1>4, <1>5 DEF Settles, Lonely, y

LEMMA GotResetCore ==
    ASSUME NEW g \in BOOLEAN, NEW x, Core(x, g)
    PROVE  LET y == GotReset(x)
           IN  /\ Core(y, g) /\ y.conn = x.conn /\ y.ckt.st = x.ckt.st /\ y.crash = x.crash
               /\ y.ckt.sent_fin = x.ckt.sent_fin /\ y.ckt.received_fin = x.ckt.received_fin
<1>1. x \in States /\ x.ckt \in CktRecs
  BY StateParts DEF Core
<1>2. PICK b \in BOOLEAN :
          CktRecvEof(x) = [x EXCEPT !.ckt = [@ EXCEPT !.pending = TRUE, !.write_eof = b]]
  BY <1>1, CktRecvEofIs
<1> DEFINE t == [x.ckt EXCEPT !.pending = TRUE, !.write_eof = b, !.reset = TRUE]
           y == GotReset(x)
<1>3. y = [x EXCEPT !.ckt = t]
  BY <1>1, <1>2 DEF GotReset, States
<1>4. /\ t \in CktRecs /\ t.st = x.ckt.st /\ t.axe = x.ckt.axe /\ t.flush = x.ckt.flush
      /\ t.sent_fin = x.ckt.sent_fin /\ t.received_fin = x.ckt.received_fin
      /\ t.pending = TRUE /\ t.axed = x.ckt.axed /\ t.reset = TRUE
  BY <1>1 DEF CktRecs
<1> HIDE DEF t, y
<1>5. Core(y, g) /\ y.ckt = t /\ y.crash = x.crash /\ y.conn = x.conn
  <2>1. Registered(x) /\ Finished(x)
    BY DEF Core
  <2> QED BY <1>3, <1>4, <2>1, CktChanged DEF Registered, Finished
<1> QED BY <1>4, <1>5 DEF y

LEMMA BlocksPlain ==
    ASSUME NEW g \in BOOLEAN, NEW x, Core(x, g), x.ckt.st = "open", x.crash = "no",
           NEW rst \in BOOLEAN, ~rst, NEW data \in BOOLEAN, NEW fin \in BOOLEAN, data \/ fin => ~x.ckt.received_fin
    PROVE  LET y == Blocks(x, rst, data, fin)
           IN  /\ Core(y, g) /\ y.conn = x.conn /\ y.ckt.st = "open"
               /\ y.ckt.sent_fin = x.ckt.sent_fin
               /\ y.crash = "no" \/ (y.crash = "write_after_eof" /\ (y.ckt.axed \/ y.ckt.reset))
<1>1. x \in States /\ x.ckt \in CktRecs
  BY StateParts DEF Core
<1>2. Registered(x) /\ Finished(x)
  BY DEF Core
<1> DEFINE o == x.ckt.out \/ data
           t == [x.ckt EXCEPT !.out = o]
           got == [x EXCEPT !.ckt = t]
           y == Blocks(x, rst, data, fin)
<1>3. o \in BOOLEAN
  BY <1>1 DEF CktRecs
<1>4. y = IF data /\ x.ckt.write_eof THEN Crashed(x, "write_after_eof")
          ELSE IF fin THEN [CktRecvEof(got) EXCEPT !.ckt.received_fin = TRUE] ELSE got
  BY DEF Blocks
<1> HIDE DEF o
<1>5. /\ t \in CktRecs /\ t.st = x.ckt.st /\ t.axe = x.ckt.axe /\ t.flush = x.ckt.flush
      /\ t.sent_fin = x.ckt.sent_fin /\ t.received_fin = x.ckt.received_fin
      /\ t.pending = x.ckt.pending /\ t.axed = x.ckt.axed /\ t.reset = x.ckt.reset /\ t.write_eof = x.ckt.write_eof
  BY <1>1, <1>3 DEF CktRecs
<1> HIDE DEF t
<1>6. Core(got, g) /\ got.ckt = t /\ got.crash = x.crash /\ got.conn = x.conn
  BY <1>2, <1>5, CktChanged DEF Registered, Finished
<1>7. CASE data /\ x.ckt.write_eof
  <2>1. y = Crashed(x, "write_after_eof")
    BY <1>4, <1>7
  <2>2. /\ Core(y, g) /\ y.conn = x.conn /\ y.ckt = x.ckt
        /\ y.crash = IF x.crash = "no" THEN "write_after_eof" ELSE x.crash
    BY <2>1, CrashedCore DEF CrashKinds
  <2>3. x.ckt.axed \/ x.ckt.reset
    BY <1>2, <1>7 DEF Finished
  <2> QED BY <2>2, <2>3
<1> HIDE DEF got
<1>8. CASE ~(data /\ x.ckt.write_eof) /\ ~fin
  <2>1. y = got
    BY <1>4, <1>8
  <2> QED BY <1>5, <1>6, <2>1
<1>9. CASE ~(data /\ x.ckt.write_eof) /\ fin
  <2>1. y = [CktRecvEof(got) EXCEPT !.ckt.received_fin = TRUE]
    BY <1>4, <1>9
  <2>2. got \in States
    BY <1>6 DEF Core
  <2>3. PICK b \in BOOLEAN :
            CktRecvEof(got) = [got EXCEPT !.ckt = [@ EXCEPT !.pending = TRUE, !.write_eof = b]]
    BY <2>2, CktRecvEofIs
  <2> DEFINE s == [t EXCEPT !.pending = TRUE, !.write_eof = b, !.received_fin = TRUE]
  <2>4. y = [got EXCEPT !.ckt = s]
    BY <1>6, <2>1, <2>2, <2>3 DEF States
  <2>5. /\ s \in CktRecs /\ s.st = t.st /\ s.axe = t.axe /\ s.flush = t.flush
        /\ s.sent_fin = t.sent_fin /\ s.received_fin = TRUE
        /\ s.pending = TRUE /\ s.axed = t.axed /\ s.reset = t.reset
    BY <1>5 DEF CktRecs
  <2> HIDE DEF s, y
  <2>6. Core(y, g) /\ y.ckt = s /\ y.crash = got.crash /\ y.conn = got.conn
    BY <1>2, <1>5, <1>6, <2>4, <2>5, CktChanged DEF Registered, Finished
  <2> QED BY <1>5, <1>6, <2>5, <2>6 DEF y
<1> QED BY <1>7, <1>8, <1>9

LEMMA BlocksCore ==
    ASSUME NEW g \in BOOLEAN, NEW x, Core(x, g), x.ckt.st = "open", x.crash = "no",
           NEW rst \in BOOLEAN, NEW data \in BOOLEAN, NEW fin \in BOOLEAN,
           data \/ fin => ~x.ckt.received_fin
    PROVE  LET y == Blocks(x, rst, data, fin)
           IN  /\ Core(y, g) /\ y.conn = x.conn /\ y.ckt.st = "open"
               /\ y.ckt.sent_fin = x.ckt.sent_fin
               /\ y.crash = "no" \/ (y.crash = "write_after_eof" /\ (y.ckt.axed \/ y.ckt.reset))
<1>1. CASE ~rst
  BY <1>1, BlocksPlain
<1>2. CASE rst
  <2> DEFINE z == GotReset(x)
  <2>0. PICK r \in BOOLEAN : ~r
    OBVIOUS
  <2>1. Blocks(x, rst, data, fin) = Blocks(z, r, data, fin)
    BY <1>2, <2>0 DEF Blocks
  <2>2. /\ Core(z, g) /\ z.conn = x.conn /\ z.ckt.st = x.ckt.st /\ z.crash = x.crash
        /\ z.ckt.sent_fin = x.ckt.sent_fin /\ z.ckt.received_fin = x.ckt.received_fin
    BY GotResetCore
  <2> HIDE DEF z
  <2> QED BY <2>0, <2>1, <2>2, BlocksPlain
<1> QED BY <1>1, <1>2

LEMMA AfterQueueCore ==
    ASSUME NEW g \in BOOLEAN, NEW x, Core(x, g), x.ckt.st = "open", x.crash = "no",
           AllSettled(x), NEW a \in Conns, x.conn[a].up,
           NEW canFail \in BOOLEAN, NEW o \in AfterQueue(x, canFail)
    PROVE  /\ Core(o.x, g) /\ AllSettled(o.x) /\ Causes(o.x, canFail)
           /\ ~o.err => Lonely(o.x)
           /\ o.err => o.x.crash = "no" /\ o.x.conn[a].up
<1> DEFINE errs == IF canFail THEN Targets(x) ELSE {}
           open == IF x.ckt.sent_fin THEN {} ELSE Acked(x)
<1>1. AfterQueue(x, canFail) =
          SentOn(x, canFail)
          \cup {[x |-> CheckForEof(y, {}), err |-> FALSE] : y \in Acked(x)}
          \cup {[x |-> x, err |-> TRUE] : c \in errs}
  BY DEF AfterQueue
<1>2. o \in SentOn(x, canFail) => \E y \in Acked(x) : o \in CktSend(y, canFail, canFail)
  <2>1. open \subseteq Acked(x)
    OBVIOUS
  <2>2. SentOn(x, canFail) = UNION {CktSend(y, canFail, canFail) : y \in open}
    BY DEF SentOn
  <2> HIDE DEF open
  <2>3. o \in SentOn(x, canFail) => \E y \in open : o \in CktSend(y, canFail, canFail)
    BY <2>2
  <2> QED BY <2>1, <2>3
<1>3. ASSUME NEW y \in Acked(x)
      PROVE  Core(y, g) /\ y.ckt.st = "open" /\ y.crash = "no" /\ AllSettled(y) /\ y.conn[a].up
  <2>1. CASE y = x
    BY <2>1
  <2>2. CASE \E c \in Targets(x) : y = Emit(x, c, FALSE)
    <3>1. PICK c \in Targets(x) : y = Emit(x, c, FALSE)
      BY <2>2
    <3>2. c \in Conns /\ x.conn[c].up /\ HasRoom(x.conn[c])
      <4>1. c \in Downstreams(x) /\ HasRoom(x.conn[c])
        BY DEF Targets
      <4> QED BY <4>1 DEF Downstreams
    <3> DEFINE fin == FALSE
    <3>a. fin \in BOOLEAN /\ y = Emit(x, c, fin)
      BY <3>1
    <3> HIDE DEF fin
    <3>3. /\ Core(y, g) /\ Settles(x, y) /\ y.crash = x.crash
          /\ y.ckt.st = "open" /\ \A e \in Conns : y.conn[e].up = x.conn[e].up
      BY <3>a, <3>2, EmitCore
    <3> QED BY <3>3 DEF AllSettled, Settles
  <2>3. y = x \/ \E c \in Targets(x) : y = Emit(x, c, FALSE)
    BY <1>3 DEF Acked
  <2> QED BY <2>1, <2>2, <2>3
<1> HIDE DEF errs, open
<1>4. \/ \E y \in Acked(x) : o \in CktSend(y, canFail, canFail)
      \/ \E y \in Acked(x) : o = [x |-> CheckForEof(y, {}), err |-> FALSE]
      \/ o = [x |-> x, err |-> TRUE]
  BY <1>1, <1>2
<1>5. CASE \E y \in Acked(x) : o \in CktSend(y, canFail, canFail)
  <2>1. PICK y \in Acked(x) : o \in CktSend(y, canFail, canFail)
    BY <1>5
  <2>2. /\ Core(o.x, g) /\ AllSettled(o.x) /\ Causes(o.x, canFail)
        /\ ~o.err => Lonely(o.x)
        /\ o.err => o.x.crash = "no" /\ o.x.conn = y.conn
    BY <1>3, <2>1, CktSendCore
  <2> QED BY <1>3, <2>2
<1>6. CASE \E y \in Acked(x) : o = [x |-> CheckForEof(y, {}), err |-> FALSE]
  <2>1. PICK y \in Acked(x) : o = [x |-> CheckForEof(y, {}), err |-> FALSE]
    BY <1>6
  <2> DEFINE z == CheckForEof(y, {})
  <2>2. LonelyServer(y)
    BY <1>3 DEF LonelyServer
  <2>3. {} \in SUBSET Conns
    OBVIOUS
  <2>4. /\ Core(z, g) /\ Settles(y, z) /\ Lonely(z)
        /\ \/ z.crash = y.crash
           \/ z.crash = "iterator" /\ {} # {}
           \/ z.crash = "cannot_send" /\ Stuck(z)
    BY <1>3, <2>2, <2>3, CheckForEofCore
  <2>5. o.x = z /\ o.err = FALSE
    BY <2>1
  <2> HIDE DEF z
  <2>6. AllSettled(z) /\ Causes(z, canFail)
    BY <1>3, <2>4 DEF AllSettled, Settles, Causes
  <2> QED BY <2>4, <2>5, <2>6
<1>7. CASE o = [x |-> x, err |-> TRUE]
  BY <1>7 DEF Causes
<1> QED BY <1>4, <1>5, <1>6, <1>7

LEMMA CloseAttachedFine ==
    ASSUME NEW g \in BOOLEAN, NEW x, Core(x, g), AllSettled(x), x.crash = "no",
           NEW c \in Conns, x.conn[c].up, NEW f \in BOOLEAN
    PROVE  Fine(ConnClose(x, c), g, f)
<1> DEFINE y == ConnClose(x, c)
<1>1. x.conn[c].b_out = "linked" => g
  BY DEF Core, Own, Ends
<1>2. /\ Core(y, g) /\ SettlesOthers(x, y, c) /\ y.crash = x.crash
      /\ Settled(y.conn[c], y.ckt.sent_fin)
      /\ x.conn[c].up \/ Lonely(x) => Lonely(y)
  BY ZenonT(60), <1>1, ConnCloseCore
<1> HIDE DEF y
<1>3. AllSettled(y)
  BY <1>2 DEF AllSettled, SettlesOthers
<1> QED BY <1>2, <1>3 DEF Fine, Causes, y

LEMMA ProcessedFine ==
    ASSUME NEW g \in BOOLEAN, NEW x, Core(x, g), x.ckt.st = "open", x.crash = "no",
           AllSettled(x), NEW c \in Conns, x.conn[c].up,
           NEW canFail \in BOOLEAN, NEW y \in Processed(x, c, canFail)
    PROVE  Fine(y, g, canFail)
<1> DEFINE new == IF x.ckt.received_fin THEN {FALSE} ELSE BOOLEAN
           queue == {Blocks(x, r, d, f) : r \in BOOLEAN, d \in new, f \in new}
           after(z) == IF z.crash # "no" THEN {[x |-> z, err |-> FALSE]} ELSE AfterQueue(z, canFail)
<1>1. Processed(x, c, canFail) =
          {IF o.err THEN ConnClose(o.x, c) ELSE o.x : o \in UNION {after(z) : z \in queue}}
  BY DEF Processed
<1>2. ASSUME NEW z \in queue
      PROVE  /\ Core(z, g) /\ z.ckt.st = "open" /\ AllSettled(z) /\ z.conn[c].up
             /\ z.crash = "no" \/ (z.crash = "write_after_eof" /\ (z.ckt.axed \/ z.ckt.reset))
  <2> HIDE DEF new, after
  <2>1. PICK r \in BOOLEAN, d \in new, f \in new : z = Blocks(x, r, d, f)
    BY <1>2
  <2>2. d \in BOOLEAN /\ f \in BOOLEAN /\ (d \/ f => ~x.ckt.received_fin)
    <3>1. CASE x.ckt.received_fin
      BY <3>1 DEF new
    <3>2. CASE ~x.ckt.received_fin
      BY <3>2 DEF new
    <3> QED BY <3>1, <3>2
  <2> HIDE DEF queue
  <2>3. /\ Core(z, g) /\ z.conn = x.conn /\ z.ckt.st = "open"
        /\ z.ckt.sent_fin = x.ckt.sent_fin
        /\ z.crash = "no" \/ (z.crash = "write_after_eof" /\ (z.ckt.axed \/ z.ckt.reset))
    BY <2>1, <2>2, BlocksCore
  <2> QED BY <2>3 DEF AllSettled
<1> HIDE DEF queue
<1>3. PICK z \in queue : \E o \in after(z) : y = IF o.err THEN ConnClose(o.x, c) ELSE o.x
  <2> HIDE DEF after
  <2> QED BY <1>1
<1>a. PICK o \in after(z) : y = IF o.err THEN ConnClose(o.x, c) ELSE o.x
  BY <1>3
<1>4. /\ Core(o.x, g) /\ AllSettled(o.x) /\ Causes(o.x, canFail)
      /\ ~o.err => Lonely(o.x)
      /\ o.err => o.x.crash = "no" /\ o.x.conn[c].up
  <2>1. CASE z.crash # "no"
    <3>1. o = [x |-> z, err |-> FALSE]
      BY <2>1
    <3>2. Lonely(z)
      BY <1>2 DEF Lonely
    <3> QED BY <1>2, <2>1, <3>1, <3>2 DEF Causes
  <2>2. CASE z.crash = "no"
    <3>1. o \in AfterQueue(z, canFail)
      BY <2>2
    <3> QED BY <1>2, <2>2, <3>1, AfterQueueCore
  <2> QED BY <2>1, <2>2
<1> HIDE DEF new, after
<1>5. CASE o.err
  <2> DEFINE w == o.x
  <2>1. y = ConnClose(w, c)
    BY <1>a, <1>5
  <2>2. Core(w, g) /\ AllSettled(w) /\ w.crash = "no" /\ w.conn[c].up
    BY <1>4, <1>5
  <2> HIDE DEF w
  <2> QED BY <2>1, <2>2, CloseAttachedFine
<1>6. CASE ~o.err
  <2>1. y = o.x
    BY <1>a, <1>6
  <2> QED BY <1>4, <1>6, <2>1 DEF Fine
<1> QED BY <1>5, <1>6

\* The connection at hand need not be settled, the others are.
OthersSettled(x, c) == \A d \in Conns \ {c} : Settled(x.conn[d], x.ckt.sent_fin)

LEMMA StaleFine ==
    ASSUME NEW g \in BOOLEAN, NEW x, Core(x, g), Lonely(x), x.crash = "no",
           NEW c \in Conns, OthersSettled(x, c), x.conn[c].proxied = "no", NEW f \in BOOLEAN
    PROVE  Fine(Stale(x, c, TRUE), g, f)
<1> DEFINE z == IF x.conn[c].timer THEN ConnSend(x, c, TRUE, FALSE) ELSE x
           y == Stale(x, c, TRUE)
<1>1. /\ Core(z, g) /\ Lonely(z) /\ OthersSettled(z, c)
      /\ z.crash = "no" \/ (z.crash = "cannot_send" /\ Stuck(z))
      /\ z.conn[c].proxied = "no"
  <2>1. CASE ~x.conn[c].timer
    BY <2>1
  <2>2. CASE x.conn[c].timer
    <3>1. PICK ok \in BOOLEAN, fin \in BOOLEAN : ok = TRUE /\ fin = FALSE
      OBVIOUS
    <3> DEFINE s == ConnSend(x, c, ok, fin)
    <3>2. z = s
      BY <2>2, <3>1
    <3>3. x.conn[c].b_out = "linked" => g
      BY DEF Core, Own, Ends
    <3>4. /\ Core(s, g) /\ Settles(x, s) /\ Lonely(s)
          /\ s.crash = x.crash \/ (s.crash = "cannot_send" /\ Stuck(s))
          /\ ok => s.conn[c].proxied = x.conn[c].proxied
      BY <2>2, <3>3, ConnSendCore
    <3> HIDE DEF s, z
    <3>5. OthersSettled(s, c)
      BY <3>4 DEF OthersSettled, Settles
    <3> QED BY <3>1, <3>2, <3>4, <3>5
  <2> QED BY <2>1, <2>2
<1>2. y = IF z.crash = "no" THEN ConnDoFlush(z, c) ELSE z
  BY DEF Stale
<1> HIDE DEF z, y
<1>a. CASE z.crash # "no"
  BY <1>1, <1>2, <1>a DEF Fine, Causes, y
<1>b. CASE z.crash = "no"
  <2>3. z.conn[c].b_out = "linked" => g
    BY <1>1 DEF Core, Own, Ends
  <2>4. /\ Core(y, g) /\ SettlesOthers(z, y, c) /\ y.crash = z.crash
        /\ Settled(y.conn[c], y.ckt.sent_fin)
        /\ Lonely(z) => Lonely(y)
    BY <1>1, <1>2, <1>b, <2>3, ConnDoFlushCore
  <2>5. AllSettled(y)
    BY <1>1, <2>4 DEF AllSettled, OthersSettled, SettlesOthers
  <2> QED BY <1>1, <1>b, <2>4, <2>5 DEF Fine, Causes, y
<1> QED BY <1>a, <1>b

LEMMA CreatedCore ==
    ASSUME NEW g \in BOOLEAN, NEW x, Core(x, g), x.crash = "no", x.table = "absent",
           NEW c \in Conns, OthersSettled(x, c), x.conn[c].st = "open",
           x.conn[c].proxied = "no", ~Client,
           TurnTaking => x.conn[c].can \/ x.conn[c].did
    PROVE  LET y == Created(x, c)
           IN  /\ Core(y, g) /\ Halts(y)
               /\ y.crash = "no" => AllSettled(y) /\ y.conn[c].up /\ y.ckt.st = "open"
<1> DEFINE t == [NoCkt EXCEPT !.st = "open", !.up = "connecting"]
           z == [x EXCEPT !.ckt = t, !.table = "ckt"]
           y == Created(x, c)
<1>1. CASE stopping # "no"
  <2>1. y = Crashed(x, "assert_shutdown")
    BY <1>1 DEF Created
  <2>2. Core(y, g) /\ y.crash = IF x.crash = "no" THEN "assert_shutdown" ELSE x.crash
    BY <2>1, CrashedCore DEF CrashKinds
  <2> QED BY <1>1, <2>2 DEF Halts
<1>2. CASE stopping = "no"
  <2>1. y = AddDownstream(z, c)
    BY <1>2 DEF Created
  <2>a. t = [NoCkt EXCEPT !.st = "open", !.up = "connecting"]
    OBVIOUS
  <2> HIDE DEF t
  <2>2. t = [st |-> "open", up |-> "connecting", sent_fin |-> FALSE,
             received_fin |-> FALSE, upstream_eof |-> FALSE, read_eof |-> FALSE,
             write_eof |-> FALSE, pending |-> FALSE, out |-> FALSE,
             flush |-> FALSE, axe |-> FALSE, axed |-> FALSE, reset |-> FALSE]
    BY <2>a DEF NoCkt
  <2>3. t \in CktRecs
    BY <2>2 DEF CktRecs
  <2>4. x \in States
    BY DEF Core
  <2>5. /\ z \in States /\ z.conn = x.conn /\ z.ckt = t /\ z.table = "ckt"
        /\ z.crash = x.crash
    BY <2>3, <2>4 DEF States
  <2>6. x.ckt.st = "none" /\ ~x.ckt.sent_fin
    BY DEF Core, Registered
  <2> HIDE DEF z
  <2>7. Registered(z) /\ Finished(z) /\ AxeHangs(z)
    BY <2>2, <2>5 DEF Registered, Finished, AxeHangs
  <2>8. Kept(z)
    BY <2>6 DEF Core, Kept
  <2>9. Core(z, g)
    BY <2>5, <2>6, <2>7, <2>8 DEF Core
  <2>10. OthersSettled(z, c)
    <3> SUFFICES ASSUME NEW d \in Conns \ {c} PROVE Settled(z.conn[d], z.ckt.sent_fin)
      BY DEF OthersSettled
    <3>1. Settled(x.conn[d], x.ckt.sent_fin)
      BY DEF OthersSettled
    <3> QED BY <2>5, <2>6, <3>1 DEF Settled
  <2>11. /\ Core(y, g) /\ SettlesOthers(z, y, c) /\ y.crash = z.crash
         /\ y.conn[c].up /\ y.ckt.st = "open"
    BY <2>1, <2>2, <2>5, <2>9, AddDownstreamCore
  <2>12. AllSettled(y)
    <3>1. Settled(y.conn[c], y.ckt.sent_fin)
      BY <2>11 DEF Settled
    <3> QED BY <2>10, <2>11, <3>1 DEF AllSettled, OthersSettled, SettlesOthers
  <2> QED BY <2>5, <2>11, <2>12 DEF Halts
<1> QED BY <1>1, <1>2

LEMMA GreetedFine ==
    ASSUME NEW g \in BOOLEAN, NEW x0, Core(x0, g), Lonely(x0), x0.crash = "no",
           NEW c \in Conns, OthersSettled(x0, c), x0.conn[c].st = "open",
           x0.conn[c].proxied = "no", ~Client,
           TurnTaking => x0.conn[c].can \/ x0.conn[c].did, x0.conn[c].up = FALSE,
           NEW canFail \in BOOLEAN, NEW y \in Greeted(x0, c, canFail)
    PROVE  Fine(y, g, canFail)
<1>1. x0 \in States /\ x0.conn[c] \in ConnRecs /\ x0.table \in {"absent", "null", "ckt"}
  BY StateParts DEF Core
<1> DEFINE k == [x0.conn[c] EXCEPT !.greeted = TRUE]
           x == [x0 EXCEPT !.conn[c] = k]
<1>2. /\ k \in ConnRecs /\ k.up = FALSE /\ k.can = x0.conn[c].can /\ k.did = x0.conn[c].did
      /\ k.st = "open" /\ k.proxied = "no"
  BY <1>1 DEF ConnRecs
<1>3. Own(k, g)
  <2>1. Own(x0.conn[c], g)
    BY DEF Core
  <2> QED BY <1>1, <2>1 DEF ConnRecs, Own, Draining, Owing, Turns, HasRoom, Ends
<1>4. Greeted(x0, c, canFail) =
          CASE x.table = "absent" -> LET z == Created(x, c)
                                     IN  IF z.crash = "no" THEN Processed(z, c, canFail) ELSE {z}
            [] x.table = "ckt" -> Processed(AddDownstream(x, c), c, canFail)
            [] x.table = "null" -> {Stale(x, c, TRUE)}
  BY DEF Greeted
<1> HIDE DEF k
<1>5. /\ Core(x, g) /\ x.ckt = x0.ckt /\ x.table = x0.table /\ x.crash = x0.crash
      /\ x.conn[c] = k /\ \A d \in Conns : x.conn[d] = IF d = c THEN k ELSE x0.conn[d]
  BY <1>2, <1>3, ConnChanged
<1> HIDE DEF x
<1>6. OthersSettled(x, c) /\ Lonely(x)
  BY <1>2, <1>5 DEF OthersSettled, Lonely
<1>7. CASE x.table = "absent"
  <2> DEFINE z == Created(x, c)
  <2>1. y \in IF z.crash = "no" THEN Processed(z, c, canFail) ELSE {z}
    BY <1>4, <1>7
  <2>2. /\ Core(z, g) /\ Halts(z)
        /\ z.crash = "no" => AllSettled(z) /\ z.conn[c].up /\ z.ckt.st = "open"
    BY <1>2, <1>5, <1>6, <1>7, CreatedCore
  <2> HIDE DEF z
  <2>3. CASE z.crash = "no"
    BY <2>1, <2>2, <2>3, ProcessedFine
  <2>4. CASE z.crash # "no"
    BY <2>1, <2>2, <2>4 DEF Fine, Halts, Causes
  <2> QED BY <2>3, <2>4
<1>8. CASE x.table = "ckt"
  <2> DEFINE z == AddDownstream(x, c)
  <2>1. y \in Processed(z, c, canFail)
    BY <1>4, <1>8
  <2>2. x.ckt.st = "open"
    BY <1>5, <1>8 DEF Core, Registered
  <2>3. /\ Core(z, g) /\ SettlesOthers(x, z, c) /\ z.crash = x.crash
        /\ z.conn[c].up /\ z.ckt.st = "open"
    BY <1>2, <1>5, <2>2, AddDownstreamCore
  <2> HIDE DEF z
  <2>4. AllSettled(z)
    <3>1. Settled(z.conn[c], z.ckt.sent_fin)
      BY <2>3 DEF Settled
    <3> QED BY <1>6, <2>3, <3>1 DEF AllSettled, OthersSettled, SettlesOthers
  <2> QED BY <1>5, <2>1, <2>3, <2>4, ProcessedFine
<1>9. CASE x.table = "null"
  <2>1. y = Stale(x, c, TRUE)
    BY <1>4, <1>9
  <2> QED BY <1>2, <1>5, <1>6, <2>1, StaleFine
<1> QED BY <1>1, <1>5, <1>7, <1>8, <1>9

LEMMA RejectedFine ==
    ASSUME NEW g \in BOOLEAN, NEW x, Core(x, g), Lonely(x), x.crash = "no",
           NEW c \in Conns, OthersSettled(x, c), x.conn[c].st = "open",
           x.conn[c].proxied = "no", ~Client, ~(x.conn[c].up \/ x.conn[c].timer) \/ g,
           NEW f \in BOOLEAN, NEW y \in Rejected(x, c)
    PROVE  Fine(y, g, f)
<1>1. x \in States /\ x.conn[c] \in ConnRecs /\ Own(x.conn[c], g)
  BY StateParts DEF Core
<1>a. y = ConnClose(x, c) \/ \E full \in BOOLEAN : y = Transparentized(x, c, full)
  BY DEF Rejected
<1>2. CASE \E full \in BOOLEAN : y = Transparentized(x, c, full)
  <2>0. PICK full \in BOOLEAN : y = Transparentized(x, c, full)
    BY <1>2
  <2> DEFINE k == [x.conn[c] EXCEPT !.proxied = "linked", !.b_out = "linked",
                                    !.b_out_full = TRUE, !.choked = full]
  <2>1. y = [x EXCEPT !.conn[c] = k]
    BY <1>1, <2>0 DEF Transparentized, States
  <2>2. /\ k \in ConnRecs /\ k.up = x.conn[c].up /\ k.can = x.conn[c].can /\ k.fits = x.conn[c].fits /\ k.st = "open"
        /\ k.proxied = "linked"
    BY <1>1 DEF ConnRecs
  <2>3. Own(k, g)
    BY <1>1 DEF ConnRecs, Own, Draining, Owing, Turns, HasRoom, Ends
  <2>4. k.up => x.ckt.st = "open"
    BY <2>2 DEF Core
  <2> HIDE DEF k
  <2>5. /\ Core(y, g) /\ y.ckt = x.ckt /\ y.crash = x.crash /\ y.conn[c] = k
        /\ \A d \in Conns : y.conn[d] = IF d = c THEN k ELSE x.conn[d]
    BY <2>1, <2>2, <2>3, <2>4, ConnChanged DEF HasRoom
  <2>6. Lonely(y)
    BY <2>2, <2>5 DEF Lonely
  <2>7. AllSettled(y)
    BY <2>2, <2>5 DEF AllSettled, OthersSettled, Settled
  <2> QED BY <2>5, <2>6, <2>7 DEF Fine, Causes
<1>3. CASE y = ConnClose(x, c)
  <2>2. x.conn[c].b_out = "linked" => g
    BY <1>1 DEF Own, Ends
  <2>3. /\ Core(y, g) /\ SettlesOthers(x, y, c) /\ y.crash = x.crash
        /\ Settled(y.conn[c], y.ckt.sent_fin)
        /\ x.conn[c].up \/ Lonely(x) => Lonely(y)
    BY ZenonT(60), <1>3, <2>2, ConnCloseCore
  <2>4. AllSettled(y)
    BY <2>3 DEF AllSettled, OthersSettled, SettlesOthers
  <2> QED BY <2>3, <2>4 DEF Fine, Causes
<1> QED BY <1>a, <1>2, <1>3

\* Closing the connection at hand.
LEMMA CloseFine ==
    ASSUME NEW g \in BOOLEAN, NEW x, Core(x, g), x.crash = "no",
           NEW c \in Conns, Lonely(x) \/ x.conn[c].up, OthersSettled(x, c), x.conn[c].b_out = "linked" => g,
           NEW f \in BOOLEAN
    PROVE  Fine(ConnClose(x, c), g, f)
<1> DEFINE y == ConnClose(x, c)
<1>1. /\ Core(y, g) /\ SettlesOthers(x, y, c) /\ y.crash = x.crash
      /\ Settled(y.conn[c], y.ckt.sent_fin)
      /\ x.conn[c].up \/ Lonely(x) => Lonely(y)
  BY ZenonT(60), ConnCloseCore
<1> HIDE DEF y
<1>2. AllSettled(y)
  BY <1>1 DEF AllSettled, OthersSettled, SettlesOthers
<1> QED BY <1>1, <1>2 DEF Fine, Causes, y

LEMMA EmancipatedFine ==
    ASSUME NEW g \in BOOLEAN, NEW x, Core(x, g), Lonely(x), x.crash = "no",
           NEW c \in Conns, OthersSettled(x, c), x.conn[c].st = "open",
           x.conn[c].proxied = "no", ~Client, NEW f \in BOOLEAN,
           NEW y \in Rejected(Emancipate(x, c), c)
    PROVE  Fine(y, g, f)
<1> DEFINE e == Emancipate(x, c)
<1>1. x.conn[c] \in ConnRecs
  BY StateParts DEF Core
<1>2. /\ Core(e, g) /\ SettlesOthers(x, e, c)
      /\ x.conn[c].up \/ Lonely(x) => Lonely(e)
      /\ e.conn[c] = [x.conn[c] EXCEPT !.timer = FALSE, !.up = FALSE]
      /\ e.ckt.sent_fin = x.ckt.sent_fin /\ e.crash = x.crash
  BY ZenonT(60), EmancipateCore
<1>3. e.conn[c].timer = FALSE /\ e.conn[c].up = FALSE /\ e.conn[c].st = "open"
      /\ e.conn[c].proxied = "no"
  BY <1>1, <1>2 DEF ConnRecs
<1> HIDE DEF e
<1>4. OthersSettled(e, c)
  BY <1>2 DEF OthersSettled, SettlesOthers
<1>5. Lonely(e) /\ e.crash = "no" /\ Core(e, g)
  BY <1>2
<1>6. ~(e.conn[c].up \/ e.conn[c].timer) \/ g
  BY <1>3
<1>7. e.conn[c].st = "open" /\ e.conn[c].proxied = "no"
  BY <1>3
<1>8. y \in Rejected(e, c)
  BY DEF e
<1> QED BY <1>4, <1>5, <1>6, <1>7, <1>8, RejectedFine

LEMMA ReceivedFine ==
    ASSUME NEW g \in BOOLEAN, NEW x, Core(x, g), Lonely(x), x.crash = "no",
           NEW c \in Conns, OthersSettled(x, c), x.conn[c].st = "open",
           x.conn[c].proxied = "no",
           ~Client /\ TurnTaking => x.conn[c].can \/ x.conn[c].did,
           NEW canFail \in BOOLEAN, NEW y \in Received(x, c, canFail)
    PROVE  Fine(y, g, canFail)
<1>1. x \in States /\ x.conn[c] \in ConnRecs /\ Own(x.conn[c], g)
  BY StateParts DEF Core
<1>2. x.conn[c].up \in BOOLEAN /\ x.conn[c].b_out # "linked"
  BY <1>1 DEF ConnRecs, Own, Ends
<1>3. CASE x.conn[c].up = TRUE
  <2>1. y \in Processed(x, c, canFail)
    BY <1>3 DEF Received
  <2>2. AllSettled(x)
    <3>1. Settled(x.conn[c], x.ckt.sent_fin)
      BY <1>3 DEF Settled
    <3> QED BY <3>1 DEF AllSettled, OthersSettled
  <2>3. x.ckt.st = "open" /\ x.conn[c].up
    BY <1>3 DEF Core
  <2> QED BY <2>1, <2>2, <2>3, ProcessedFine
<1>4. CASE x.conn[c].up = FALSE /\ Client
  <2>1. ~x.conn[c].timer
    BY <1>1, <1>4 DEF Own, Owing
  <2> DEFINE z == ConnDoFlush(x, c)
  <2>2. y = z
    <3>1. Received(x, c, canFail) =
             {IF x.conn[c].timer THEN Crashed(x, "must_send") ELSE ConnDoFlush(x, c)}
      BY <1>4 DEF Received
    <3> QED BY <2>1, <3>1
  <2>3. /\ Core(z, g) /\ SettlesOthers(x, z, c) /\ z.crash = x.crash
        /\ Settled(z.conn[c], z.ckt.sent_fin)
        /\ Lonely(x) => Lonely(z)
    BY <1>2, ConnDoFlushCore
  <2> HIDE DEF z
  <2>4. AllSettled(z)
    BY <2>3 DEF AllSettled, OthersSettled, SettlesOthers
  <2> QED BY <2>2, <2>3, <2>4 DEF Fine, Causes
<1>5. CASE x.conn[c].up = FALSE /\ ~Client /\ Verified(x.conn[c])
  <2>1. y \in Greeted(x, c, canFail)
    <3>1. Received(x, c, canFail) = Greeted(x, c, canFail)
      BY <1>5 DEF Received
    <3> QED BY <3>1
  <2> QED BY <1>5, <2>1, GreetedFine
<1>6. CASE x.conn[c].up = FALSE /\ ~Client /\ ~Verified(x.conn[c])
  <2>1. y \in Rejected(Emancipate(x, c), c)
    <3>1. Received(x, c, canFail) = Rejected(Emancipate(x, c), c)
      BY <1>6 DEF Received
    <3> QED BY <3>1
  <2> QED BY <1>6, <2>1, EmancipatedFine
<1> QED BY <1>2, <1>3, <1>4, <1>5, <1>6

-----------------------------------------------------------------------------
(* Callbacks.                                                              *)

\* What a step establishes.
Onward == ConnInv' /\ (ckt.st = "gone" => ckt'.st = "gone")

LEMMA Before ==
    ASSUME ConnInv, Alive
    PROVE  /\ Excused \in BOOLEAN
           /\ Now.conn = conn /\ Now.ckt = ckt /\ Now.table = table /\ Now.crash = "no"
           /\ Now \in States /\ conn \in [Conns -> ConnRecs] /\ ckt \in CktRecs
           /\ \A c \in Conns : conn[c] \in ConnRecs /\ Own(conn[c], Excused)
           /\ Core(Now, Excused) /\ Lonely(Now) /\ AllSettled(Now) /\ SetupOK
           /\ ckt.st = "open" => stopping # "forced"
           /\ \A c \in Conns : conn[c].st = "open" => stopping # "forced"
<1>1. /\ Now.conn = conn /\ Now.ckt = ckt /\ Now.table = table /\ Now.crash = "no"
  BY DEF Alive, Now
<1>2. Core(Now, Excused) /\ Lonely(Now) /\ AllSettled(Now) /\ Emptied(Now) /\ SetupOK
  BY DEF ConnInv
<1>3. Now \in States
  BY DEF ConnInv
<1>4. Excused \in BOOLEAN
  BY DEF Excused
<1>5. /\ conn \in [Conns -> ConnRecs] /\ ckt \in CktRecs
      /\ \A c \in Conns : conn[c] \in ConnRecs
  BY <1>1, <1>3, StateParts
<1>6. \A c \in Conns : Own(conn[c], Excused)
  BY <1>1, <1>2 DEF Core
<1>7. /\ ckt.st = "open" => stopping # "forced"
      /\ \A c \in Conns : conn[c].st = "open" => stopping # "forced"
  BY <1>1, <1>2 DEF Emptied
<1> QED BY <1>1, <1>2, <1>3, <1>4, <1>5, <1>6, <1>7

LEMMA Weakened ==
    ASSUME NEW g \in BOOLEAN, NEW h \in BOOLEAN, g => h, NEW x, Core(x, g)
    PROVE  Core(x, h)
<1>1. \A c \in Conns : Own(x.conn[c], h)
  BY DEF Core, Own, Ends
<1> QED BY <1>1 DEF Core

\* A step after which the process lives.
LEMMA Landed ==
    ASSUME NEW x, NEW g \in BOOLEAN, SetupOK, setup' = setup,
           stopping' \in {"no", "graceful", "forced"},
           conn' = x.conn, ckt' = x.ckt, table' = x.table, crash' = x.crash,
           Core(x, g), x.crash = "no", Lonely(x), AllSettled(x), g => Excused',
           stopping' = "forced" => x.ckt.st # "open" /\ \A c \in Conns : x.conn[c].st # "open",
           faults \subseteq faults'
    PROVE  Onward
<1>1. /\ x \in States /\ Registered(x) /\ Finished(x) /\ AxeHangs(x) /\ Kept(x)
      /\ \A c \in Conns : Own(x.conn[c], g) /\ (x.conn[c].up => x.ckt.st = "open")
  BY DEF Core
<1>2. x = [conn |-> x.conn, ckt |-> x.ckt, table |-> x.table, crash |-> x.crash]
  BY <1>1 DEF States
<1>3. Now' = x
  BY <1>2 DEF Now
<1>4. SetupOK'
  BY DEF SetupOK
<1>5. ChokedWillDrain'
  BY <1>1 DEF ChokedWillDrain, Own, Draining
<1>6. CrashHasCause'
  BY DEF CrashHasCause
<1>7. Excused' \in BOOLEAN
  BY DEF Excused
<1>8. \A c \in Conns : Own(Now.conn[c], Excused)'
  <2> TAKE c \in Conns
  <2>1. Own(x.conn[c], g)
    BY <1>1
  <2>2. (Draining(Now.conn[c]) /\ Owing(Now.conn[c]) /\ Turns(Now.conn[c]))'
    BY <1>3, <2>1 DEF Own, Draining, Owing, Turns, HasRoom, TurnTaking, Client
  <2>3. Ends(Now.conn[c], Excused)'
    BY <1>3, <1>7, <2>1 DEF Own, Ends, Client
  <2> QED BY <2>2, <2>3 DEF Own
<1>9. /\ \A c \in Conns : (Now.conn[c].up => Now.ckt.st = "open")'
      /\ Registered(Now)' /\ Finished(Now)' /\ (Now \in States)'
  BY <1>1, <1>3 DEF Registered, Finished
<1>10. AxeHangs(Now)'
  BY <1>1, <1>3 DEF AxeHangs, HasRoom, TurnTaking, Client
<1>11. Kept(Now)'
  BY DEF Kept, Now
<1>12. Core(Now, Excused)'
  BY <1>8, <1>9, <1>10, <1>11 DEF Core
<1>13. Lonely(Now)'
  BY <1>3 DEF Lonely, Client
<1>14. AllSettled(Now)'
  BY <1>3 DEF AllSettled, Settled
<1>15. Emptied(Now)'
  BY <1>3 DEF Emptied
<1>16. ckt.st = "gone" => ckt'.st = "gone"
  BY <1>1 DEF Kept
<1> QED BY <1>4, <1>5, <1>6, <1>9, <1>12, <1>13, <1>14, <1>15, <1>16 DEF Onward, ConnInv, Alive

\* A callback in which the process dies.
LEMMA Died ==
    ASSUME NEW x, ConnInv, Became(x), x \in States, Kept(x), x.crash # "no",
           \A c \in Conns : Draining(x.conn[c]), CrashHasCause'
    PROVE  Onward
<1>1. /\ conn' = x.conn /\ ckt' = x.ckt /\ table' = x.table /\ crash' = x.crash
      /\ setup' = setup /\ stopping' = stopping
  BY DEF Became
<1>3. x = [conn |-> x.conn, ckt |-> x.ckt, table |-> x.table, crash |-> x.crash]
  BY DEF States
<1>4. Now' = x
  BY <1>1, <1>3 DEF Now
<1>5. ChokedWillDrain'
  BY <1>1 DEF ChokedWillDrain, Draining
<1>6. SetupOK' /\ (stopping \in {"no", "graceful", "forced"})'
  BY <1>1 DEF ConnInv, SetupOK
<1> QED BY <1>1, <1>4, <1>5, <1>6 DEF Onward, ConnInv, Alive, Kept

LEMMA Turn ==
    ASSUME NEW x, NEW g \in BOOLEAN, NEW f \in BOOLEAN, ConnInv, Became(x), Fine(x, g, f),
           stopping = "forced" => Emptied(x) /\ x.crash = "no",
           g => stopping = "forced" \/ "garbage" \in faults', f => "transmit" \in faults',
           faults \subseteq faults'
    PROVE  Onward
<1>1. /\ conn' = x.conn /\ ckt' = x.ckt /\ table' = x.table /\ crash' = x.crash
      /\ setup' = setup /\ stopping' = stopping
  BY DEF Became
<1>2. SetupOK /\ stopping \in {"no", "graceful", "forced"}
  BY DEF ConnInv
<1>3. Core(x, g)
  BY DEF Fine
<1>4. CASE x.crash = "no"
  <2>1. Lonely(x) /\ AllSettled(x)
    BY <1>4 DEF Fine
  <2>2. g => Excused'
    BY <1>1 DEF Excused
  <2>3. stopping' = "forced" => x.ckt.st # "open" /\ \A c \in Conns : x.conn[c].st # "open"
    BY <1>1 DEF Emptied
  <2> QED BY <1>1, <1>2, <1>3, <1>4, <2>1, <2>2, <2>3, Landed
<1>5. CASE x.crash # "no"
  <2>1. x \in States /\ Kept(x) /\ \A c \in Conns : Draining(x.conn[c])
    BY <1>3 DEF Core, Own
  <2>2. CrashHasCause'
    BY <1>1, <1>2, <1>5 DEF Fine, Causes, Stuck, Client, CrashHasCause
  <2> QED BY <1>5, <2>1, <2>2, Died
<1> QED BY <1>4, <1>5

LEMMA AcceptTurn ==
    ASSUME ConnInv, NEW c \in Conns, Accept(c)
    PROVE  Onward
<1>1. /\ Alive /\ ~Client /\ stopping = "no" /\ conn[c].st = "none"
      /\ Callback([Now EXCEPT !.conn[c] = [NoConn EXCEPT !.st = "open", !.connected = TRUE]])
  BY DEF Accept
<1> DEFINE g == Excused
           k == [NoConn EXCEPT !.st = "open", !.connected = TRUE]
           y == [Now EXCEPT !.conn[c] = k]
<1>2. /\ g \in BOOLEAN /\ Core(Now, g) /\ Lonely(Now) /\ AllSettled(Now)
      /\ Now.conn[c] = conn[c] /\ conn[c] \in ConnRecs /\ Own(conn[c], g) /\ Now.crash = "no"
  BY <1>1, Before
<1>3. k = [NoConn EXCEPT !.st = "open", !.connected = TRUE]
  OBVIOUS
<1>4. Became(y) /\ faults' = faults
  BY <1>1 DEF Callback
<1> HIDE DEF k, g
<1>5. /\ k \in ConnRecs /\ k.st = "open" /\ k.connected = TRUE /\ k.up = FALSE
      /\ k.timer = FALSE /\ k.nomore = FALSE /\ k.proxied = "no" /\ k.b_out = "none"
      /\ k.ever = FALSE /\ k.peer_eof = FALSE /\ k.fits = TRUE /\ k.can = FALSE
      /\ k.did = FALSE /\ k.b_choked = FALSE
  BY <1>3 DEF NoConn, ConnRecs
<1>6. Own(k, g)
  BY <1>1, <1>5 DEF Own, Draining, Owing, Turns, Ends
<1>7. /\ Core(y, g) /\ y.ckt = Now.ckt /\ y.crash = Now.crash /\ y.conn[c] = k
      /\ \A d \in Conns : y.conn[d] = IF d = c THEN k ELSE Now.conn[d]
  BY <1>2, <1>5, <1>6, ConnChanged
<1> HIDE DEF y
<1>8. ~Now.conn[c].up
  BY <1>1, <1>2 DEF Own, Ends
<1>9. Lonely(y)
  BY <1>2, <1>5, <1>7, <1>8 DEF Lonely
<1>10. AllSettled(y)
  BY <1>2, <1>5, <1>7 DEF AllSettled, Settled
<1>11. PICK f \in BOOLEAN : f = FALSE
  OBVIOUS
<1>12. Fine(y, g, f)
  BY <1>2, <1>7, <1>9, <1>10 DEF Fine, Causes
<1> QED BY <1>1, <1>2, <1>4, <1>11, <1>12, Turn DEF g, Excused

\* A callback without a fault, while something is open.
LEMMA CalmTurn ==
    ASSUME ConnInv, NEW x, Callback(x), stopping # "forced", NEW f \in BOOLEAN, ~f,
           Fine(x, Excused, f)
    PROVE  Onward
<1>1. Became(x) /\ faults' = faults
  BY DEF Callback
<1> DEFINE g == Excused
<1>2. g \in BOOLEAN /\ (g => stopping = "forced" \/ "garbage" \in faults')
  BY <1>1 DEF Excused
<1> HIDE DEF g
<1>3. Fine(x, g, f)
  BY DEF g
<1> QED BY <1>1, <1>2, <1>3, Turn

\* A callback with a fault.
LEMMA FaultyTurn ==
    ASSUME ConnInv, NEW kind, NEW x, Faulty(kind, x), stopping # "forced",
           NEW f \in BOOLEAN, f => kind = "transmit", Fine(x, Excused, f)
    PROVE  Onward
<1>1. Became(x) /\ faults' = faults \cup {kind}
  BY DEF Faulty
<1> DEFINE g == Excused
<1>2. g \in BOOLEAN /\ (g => stopping = "forced" \/ "garbage" \in faults')
  BY <1>1 DEF Excused
<1>3. f => "transmit" \in faults'
  BY <1>1
<1> HIDE DEF g
<1>4. Fine(x, g, f)
  BY DEF g
<1> QED BY <1>1, <1>2, <1>3, <1>4, Turn

LEMMA ErrorTurn ==
    ASSUME ConnInv, NEW c \in Conns, Error(c)
    PROVE  Onward
<1>1. Alive /\ conn[c].st = "open" /\ conn[c].proxied = "no" /\ Faulty("conn", ConnClose(Now, c))
  BY DEF Error
<1> DEFINE g == Excused
<1>2. /\ g \in BOOLEAN /\ Core(Now, g) /\ Lonely(Now) /\ AllSettled(Now)
      /\ Now.conn[c] = conn[c] /\ Own(conn[c], g) /\ Now.crash = "no" /\ stopping # "forced"
  BY <1>1, Before
<1>3. Now.conn[c].b_out = "linked" => g
  BY <1>1, <1>2 DEF Own, Ends
<1>4. OthersSettled(Now, c)
  BY <1>2 DEF AllSettled, OthersSettled
<1>5. PICK f \in BOOLEAN : ~f
  OBVIOUS
<1> HIDE DEF g
<1>6. Fine(ConnClose(Now, c), g, f)
  BY <1>2, <1>3, <1>4, CloseFine
<1>7. Fine(ConnClose(Now, c), Excused, f)
  BY <1>6 DEF g
<1> QED BY <1>1, <1>2, <1>5, <1>7, FaultyTurn

LEMMA FlushTurn ==
    ASSUME ConnInv, NEW c \in Conns, Flush(c)
    PROVE  Onward
<1> DEFINE x == [Now EXCEPT !.conn[c].out = FALSE]
           g == Excused
           y == DownFlushCb(x, c)
<1>1. /\ Alive /\ conn[c].st = "open" /\ conn[c].connected /\ conn[c].out
      /\ conn[c].proxied = "no" /\ Callback(y)
  BY DEF Flush
<1>2. /\ g \in BOOLEAN /\ Core(Now, g) /\ Lonely(Now) /\ AllSettled(Now) /\ Now \in States
      /\ Now.conn[c] = conn[c] /\ conn[c] \in ConnRecs /\ Own(conn[c], g) /\ Now.crash = "no"
      /\ stopping # "forced"
  BY <1>1, Before
<1> DEFINE k == [conn[c] EXCEPT !.out = FALSE]
<1>3. k \in ConnRecs /\ k.out = FALSE /\ k.connected = conn[c].connected
      /\ k.proxied = conn[c].proxied
      /\ k.b_out = conn[c].b_out /\ k.up = conn[c].up
      /\ conn[c] = [k EXCEPT !.out = TRUE]
  BY <1>1, <1>2 DEF ConnRecs
<1>4. x = [Now EXCEPT !.conn[c] = k]
  BY <1>2 DEF States
<1> HIDE DEF k, x
<1>5. /\ x \in States /\ x.ckt = Now.ckt /\ x.crash = Now.crash /\ x.conn[c] = k
      /\ \A d \in Conns : x.conn[d] = IF d = c THEN k ELSE Now.conn[d]
  BY <1>2, <1>3, <1>4, ConnPut
<1>6. PICK b \in BOOLEAN : b = TRUE
  OBVIOUS
<1>7. [x EXCEPT !.conn[c].out = b] = Now
  BY ZenonT(60), <1>2, <1>3, <1>4, <1>5, <1>6 DEF States
<1>8. x.conn[c].connected /\ x.conn[c].proxied = "no" /\ ~x.conn[c].out /\ (x.conn[c].b_out = "linked" => g)
  BY <1>1, <1>2, <1>3, <1>5 DEF Own, Ends
<1>9. Core([x EXCEPT !.conn[c].out = b], g)
  BY <1>2, <1>7
<1> HIDE DEF g
<1>10. /\ Core(y, g) /\ SettlesOthers(x, y, c) /\ y.crash = x.crash
       /\ Settled(y.conn[c], y.ckt.sent_fin)
       /\ Lonely(x) => Lonely(y)
  BY <1>2, <1>5, <1>6, <1>8, <1>9, DownFlushCbCore
<1> HIDE DEF y
<1>11. Lonely(x)
  BY <1>2, <1>3, <1>5 DEF Lonely
<1>12. AllSettled(y)
  BY <1>2, <1>5, <1>10 DEF AllSettled, SettlesOthers
<1>13. PICK f \in BOOLEAN : ~f
  OBVIOUS
<1>14. Fine(y, g, f)
  BY <1>2, <1>5, <1>10, <1>11, <1>12 DEF Fine, Causes
<1>15. Fine(y, Excused, f)
  BY <1>14 DEF g
<1> QED BY <1>1, <1>2, <1>13, <1>15, CalmTurn

LEMMA MustSendTurn ==
    ASSUME ConnInv, NEW c \in Conns, MustSend(c)
    PROVE  Onward
<1>1. Alive /\ conn[c].timer
  BY DEF MustSend
<1> DEFINE g == Excused
<1>2. /\ g \in BOOLEAN /\ Core(Now, g) /\ Lonely(Now) /\ AllSettled(Now)
      /\ Now.conn[c] = conn[c] /\ Own(conn[c], g) /\ Now.crash = "no"
      /\ conn[c].st = "open" => stopping # "forced"
  BY <1>1, Before
<1>3. Now.conn[c].timer /\ (Now.conn[c].b_out = "linked" => g) /\ stopping # "forced"
  BY <1>1, <1>2 DEF Own, Owing, Ends
<1>4. PICK fin \in FinChoices(Now) :
          \/ Callback(ConnSend(Now, c, TRUE, fin))
          \/ Faulty("transmit", ConnSend(Now, c, FALSE, fin))
  BY DEF MustSend
<1>5. fin \in BOOLEAN
  BY <1>4, FinChoicesAre
<1>6. PICK f \in BOOLEAN : ~f
  OBVIOUS
<1> HIDE DEF g
<1>7. ASSUME NEW ok \in BOOLEAN
      PROVE  Fine(ConnSend(Now, c, ok, fin), g, f)
  <2> DEFINE y == ConnSend(Now, c, ok, fin)
  <2>1. /\ Core(y, g) /\ Settles(Now, y) /\ Lonely(y)
        /\ y.crash = Now.crash \/ (y.crash = "cannot_send" /\ Stuck(y))
    BY <1>2, <1>3, <1>5, ConnSendCore
  <2> HIDE DEF y
  <2>2. AllSettled(y)
    BY <1>2, <2>1 DEF AllSettled, Settles
  <2> QED BY <1>2, <2>1, <2>2 DEF Fine, Causes, y
<1>8. Fine(ConnSend(Now, c, TRUE, fin), Excused, f) /\ Fine(ConnSend(Now, c, FALSE, fin), Excused, f)
  BY <1>7 DEF g
<1>9. CASE Callback(ConnSend(Now, c, TRUE, fin))
  BY <1>3, <1>6, <1>8, <1>9, CalmTurn
<1>10. CASE Faulty("transmit", ConnSend(Now, c, FALSE, fin))
  BY <1>3, <1>6, <1>8, <1>10, FaultyTurn
<1> QED BY <1>4, <1>9, <1>10

\* downstream_connect_cb tells upstream of an end that came early.
LEMMA ToldFine ==
    ASSUME NEW g \in BOOLEAN, NEW y, Core(y, g), Lonely(y), AllSettled(y), y.crash = "no",
           NEW f \in BOOLEAN
    PROVE  Fine(IF y.ckt.pending /\ y.crash = "no" THEN CktRecvEof(y) ELSE y, g, f)
<1>1. CASE y.ckt.pending
  <2> DEFINE z == CktRecvEof(y)
  <2>1. Core(z, g) /\ Settles(y, z) /\ (Lonely(y) => Lonely(z)) /\ z.crash = y.crash
    BY <1>1, CktRecvEofCore
  <2> HIDE DEF z
  <2>2. AllSettled(z)
    BY <2>1 DEF AllSettled, Settles
  <2>3. Fine(z, g, f)
    BY <2>1, <2>2 DEF Fine, Causes
  <2> QED BY <1>1, <2>3 DEF z
<1>2. CASE ~y.ckt.pending
  BY <1>2 DEF Fine, Causes
<1> QED BY <1>1, <1>2

LEMMA ConnectTurn ==
    ASSUME ConnInv, NEW c \in Conns, Connect(c)
    PROVE  Onward
<1> DEFINE up == [Now EXCEPT !.conn[c].connected = TRUE]
           done(y) == IF y.ckt.pending /\ y.crash = "no" THEN CktRecvEof(y) ELSE y
           g == Excused
<1>1. /\ Alive /\ Client /\ conn[c].st = "open" /\ ~conn[c].connected
      /\ IF ~conn[c].up \/ conn[c].write_eof THEN Callback(ConnClose(Now, c))
         ELSE IF conn[c].hs THEN Callback(done(up))
         ELSE \E fin \in FinChoices(Now) :
                 \/ Callback(done(ConnSend(up, c, TRUE, fin)))
                 \/ Faulty("transmit", done(ConnSend(up, c, FALSE, fin)))
  BY DEF Connect
<1>2. /\ g \in BOOLEAN /\ Core(Now, g) /\ Lonely(Now) /\ AllSettled(Now) /\ Now \in States
      /\ Now.conn[c] = conn[c] /\ conn[c] \in ConnRecs /\ Own(conn[c], g) /\ Now.crash = "no"
      /\ stopping # "forced"
  BY <1>1, Before
<1>3. Now.conn[c].b_out = "linked" => g
  BY <1>1, <1>2 DEF Own, Ends
<1>4. OthersSettled(Now, c)
  BY <1>2 DEF AllSettled, OthersSettled
<1>5. PICK f \in BOOLEAN : ~f
  OBVIOUS
<1> DEFINE k == [conn[c] EXCEPT !.connected = TRUE]
<1>6. k \in ConnRecs /\ Own(k, g) /\ k.up = conn[c].up /\ k.hs = conn[c].hs
      /\ k.st = conn[c].st /\ k.b_out = conn[c].b_out
      /\ \A s : Settled(conn[c], s) => Settled(k, s)
  BY ZenonT(60), <1>1, <1>2 DEF ConnRecs, Own, Draining, Owing, Turns, HasRoom, Ends, Settled
<1>7. up = [Now EXCEPT !.conn[c] = k]
  BY <1>2 DEF States
<1>8. k.up => Now.ckt.st = "open"
  BY <1>2, <1>6 DEF Core
<1> HIDE DEF g, k, up
<1>9. /\ Core(up, g) /\ up.ckt = Now.ckt /\ up.crash = Now.crash /\ up.conn[c] = k
      /\ \A d \in Conns : up.conn[d] = IF d = c THEN k ELSE Now.conn[d]
  BY <1>1, <1>2, <1>6, <1>7, <1>8, ConnChanged
<1>10. Lonely(up)
  BY <1>2, <1>6, <1>9 DEF Lonely
<1>11. AllSettled(up)
  BY <1>2, <1>6, <1>9 DEF AllSettled
<1>12. CASE ~conn[c].up \/ conn[c].write_eof
  <2>1. Callback(ConnClose(Now, c))
    BY <1>1, <1>12
  <2>2. Fine(ConnClose(Now, c), g, f)
    BY <1>2, <1>3, <1>4, CloseFine
  <2>3. Fine(ConnClose(Now, c), Excused, f)
    BY <2>2 DEF g
  <2> QED BY <1>2, <1>5, <2>1, <2>3, CalmTurn
<1>13. CASE ~(~conn[c].up \/ conn[c].write_eof) /\ conn[c].hs
  <2>1. Callback(done(up))
    BY <1>1, <1>13
  <2>2. Fine(done(up), g, f)
    BY <1>2, <1>9, <1>10, <1>11, ToldFine
  <2>3. Fine(done(up), Excused, f)
    BY <2>2 DEF g
  <2> HIDE DEF done
  <2> QED BY <1>2, <1>5, <2>1, <2>3, CalmTurn
<1>14. CASE ~(~conn[c].up \/ conn[c].write_eof) /\ ~conn[c].hs
  <2>1. PICK fin \in FinChoices(Now) :
                 \/ Callback(done(ConnSend(up, c, TRUE, fin)))
                 \/ Faulty("transmit", done(ConnSend(up, c, FALSE, fin)))
    BY <1>1, <1>14
  <2>2. fin \in BOOLEAN
    BY <2>1, FinChoicesAre
  <2>3. HasRoom(up.conn[c]) /\ (up.conn[c].b_out = "linked" => g)
    BY <1>1, <1>2, <1>3, <1>6, <1>9, <1>14 DEF Own, Turns
  <2>4. ASSUME NEW ok \in BOOLEAN
        PROVE  Fine(done(ConnSend(up, c, ok, fin)), g, f)
    <3> DEFINE y == ConnSend(up, c, ok, fin)
    <3>1. Core(y, g) /\ Settles(up, y) /\ y.crash = up.crash /\ Lonely(y)
      BY <1>1, <1>2, <1>9, <1>10, <2>2, <2>3, ConnSendCore DEF Stuck
    <3> HIDE DEF y
    <3>2. AllSettled(y)
      BY <1>11, <3>1 DEF AllSettled, Settles
    <3>3. Fine(done(y), g, f)
      BY <1>2, <1>9, <3>1, <3>2, ToldFine
    <3> QED BY <3>3 DEF y
  <2> HIDE DEF done
  <2>5. /\ Fine(done(ConnSend(up, c, TRUE, fin)), Excused, f)
        /\ Fine(done(ConnSend(up, c, FALSE, fin)), Excused, f)
    BY <2>4 DEF g
  <2>6. CASE Callback(done(ConnSend(up, c, TRUE, fin)))
    BY <1>2, <1>5, <2>5, <2>6, CalmTurn
  <2>7. CASE Faulty("transmit", done(ConnSend(up, c, FALSE, fin)))
    BY <1>2, <1>5, <2>5, <2>7, FaultyTurn
  <2> QED BY <2>1, <2>6, <2>7
<1> QED BY <1>12, <1>13, <1>14

\* What downstream_read_cb starts from.
LEMMA HeardCore ==
    ASSUME ConnInv, NEW c \in Conns, Readable(c), conn[c].proxied = "no"
    PROVE  LET h == Heard(c)
           IN  /\ Alive /\ stopping # "forced" /\ Excused \in BOOLEAN
               /\ Core(h, Excused) /\ Lonely(h) /\ h.crash = "no" /\ OthersSettled(h, c)
               /\ h.conn[c] \in ConnRecs /\ h.conn[c].st = "open" /\ h.conn[c].proxied = "no"
               /\ h.conn[c].ever = TRUE /\ h.conn[c].up = conn[c].up
               /\ ~Client /\ h.conn[c].did => h.conn[c].messages > 1
               /\ h.ckt = ckt /\ h.table = table
<1> DEFINE h == Heard(c)
           g == Excused
           k == [conn[c] EXCEPT !.ever = TRUE, !.messages = @ + 1]
<1>1. Alive /\ conn[c].st = "open"
  BY DEF Readable
<1>2. /\ g \in BOOLEAN /\ Core(Now, g) /\ Lonely(Now) /\ AllSettled(Now) /\ Now \in States
      /\ Now.conn[c] = conn[c] /\ conn[c] \in ConnRecs /\ Own(conn[c], g) /\ Now.crash = "no"
      /\ stopping # "forced" /\ Now.ckt = ckt /\ Now.table = table
  BY <1>1, Before
<1>3. k \in ConnRecs /\ k.up = conn[c].up /\ k.st = "open" /\ k.proxied = "no"
      /\ k.ever = TRUE /\ k.can = conn[c].can /\ k.fits = conn[c].fits
      /\ k.did = conn[c].did /\ k.messages = conn[c].messages + 1
  <2>1. conn[c].messages + 1 \in Nat
    BY <1>2 DEF ConnRecs
  <2> DEFINE n == conn[c].messages + 1
  <2>2. k = [conn[c] EXCEPT !.ever = TRUE, !.messages = n]
    OBVIOUS
  <2> HIDE DEF n, k
  <2>3. n \in Nat
    BY <2>1 DEF n
  <2>4. k \in ConnRecs /\ k.messages = n
    BY <1>2, <2>2, <2>3 DEF ConnRecs
  <2>5. k.up = conn[c].up /\ k.st = "open" /\ k.proxied = "no"
    BY <1>1, <1>2, <2>2 DEF ConnRecs
  <2>6. k.ever = TRUE /\ k.can = conn[c].can /\ k.fits = conn[c].fits /\ k.did = conn[c].did
    BY <1>2, <2>2 DEF ConnRecs
  <2> QED BY <2>4, <2>5, <2>6 DEF n
<1>4. Own(k, g)
  BY <1>1, <1>2 DEF ConnRecs, Own, Draining, Owing, Turns, HasRoom, Ends
<1>5. h = [Now EXCEPT !.conn[c] = k]
  BY <1>2 DEF States, Heard
<1>6. k.up => Now.ckt.st = "open"
  BY <1>2, <1>3 DEF Core
<1> HIDE DEF g, k, h
<1>7. /\ Core(h, g) /\ h.ckt = Now.ckt /\ h.crash = Now.crash /\ h.conn[c] = k
      /\ h.table = Now.table
      /\ \A d \in Conns : h.conn[d] = IF d = c THEN k ELSE Now.conn[d]
  BY <1>2, <1>3, <1>4, <1>5, <1>6, ConnChanged DEF HasRoom
<1>8. Lonely(h)
  BY <1>2, <1>3, <1>7 DEF Lonely
<1>9. OthersSettled(h, c)
  BY <1>2, <1>7 DEF AllSettled, OthersSettled
<1>10. ~Client /\ k.did => k.messages > 1
  BY <1>2, <1>3 DEF Own, Owing, ConnRecs
<1> QED BY <1>1, <1>2, <1>3, <1>7, <1>8, <1>9, <1>10 DEF g, h

LEMMA ReadCore ==
    ASSUME ConnInv, NEW c \in Conns, Readable(c), conn[c].proxied = "no"
    PROVE  LET y == [Heard(c) EXCEPT !.conn[c] = StegReceive(@)]
           IN  /\ Alive /\ stopping # "forced" /\ Excused \in BOOLEAN
               /\ Core(y, Excused) /\ Lonely(y) /\ y.crash = "no" /\ OthersSettled(y, c)
               /\ y.conn[c].st = "open" /\ y.conn[c].proxied = "no"
               /\ ~Client /\ TurnTaking => y.conn[c].can \/ y.conn[c].did
               /\ y.conn[c].up = conn[c].up
<1> DEFINE h == Heard(c)
           g == Excused
           k == StegReceive(h.conn[c])
           y == [h EXCEPT !.conn[c] = StegReceive(@)]
<1>1. /\ Alive /\ stopping # "forced" /\ g \in BOOLEAN
      /\ Core(h, g) /\ Lonely(h) /\ h.crash = "no" /\ OthersSettled(h, c)
      /\ h.conn[c] \in ConnRecs /\ h.conn[c].st = "open" /\ h.conn[c].proxied = "no"
      /\ h.conn[c].ever = TRUE /\ h.conn[c].up = conn[c].up
      /\ ~Client /\ h.conn[c].did => h.conn[c].messages > 1
  BY HeardCore
<1>2. SetupOK
  BY DEF ConnInv
<1> HIDE DEF g, h
<1>3. Own(h.conn[c], g) /\ h \in States
  BY <1>1 DEF Core
<1>4. /\ k \in ConnRecs /\ Own(k, g) /\ k.up = h.conn[c].up /\ k.st = "open"
      /\ k.proxied = "no"
      /\ ~Client /\ TurnTaking => k.can \/ k.did
      /\ ~Client /\ h.conn[c].up /\ HasRoom(k) => HasRoom(h.conn[c])
  BY <1>1, <1>2, <1>3, ReceiveOwn
<1>5. y = [h EXCEPT !.conn[c] = k]
  BY <1>3 DEF States
<1>6. k.up => h.ckt.st = "open"
  BY <1>1, <1>4 DEF Core
<1> HIDE DEF k, y
<1>7. /\ Core(y, g) /\ y.ckt = h.ckt /\ y.crash = h.crash /\ y.conn[c] = k
      /\ \A d \in Conns : y.conn[d] = IF d = c THEN k ELSE h.conn[d]
  BY <1>1, <1>4, <1>5, <1>6, ConnChanged
<1>8. Lonely(y)
  BY <1>1, <1>4, <1>7 DEF Lonely
<1>9. OthersSettled(y, c)
  BY <1>1, <1>7 DEF OthersSettled
<1> QED BY <1>1, <1>4, <1>7, <1>8, <1>9 DEF g, h, y

LEMMA RecvTurn ==
    ASSUME ConnInv, NEW c \in Conns, Recv(c)
    PROVE  Onward
<1> DEFINE x == [Heard(c) EXCEPT !.conn[c] = StegReceive(@)]
           g == Excused
<1>1. /\ Readable(c) /\ conn[c].proxied = "no"
      /\ Outcome("transmit", Received(x, c, FALSE), Received(x, c, TRUE))
  BY DEF Recv
<1>2. /\ Alive /\ stopping # "forced" /\ g \in BOOLEAN
      /\ Core(x, g) /\ Lonely(x) /\ x.crash = "no" /\ OthersSettled(x, c)
      /\ x.conn[c].st = "open" /\ x.conn[c].proxied = "no"
      /\ ~Client /\ TurnTaking => x.conn[c].can \/ x.conn[c].did
  BY <1>1, ReadCore
<1> HIDE DEF x, g
<1>3. ASSUME NEW b \in BOOLEAN, NEW y \in Received(x, c, b)
      PROVE  Fine(y, g, b)
  BY <1>2, <1>3, ReceivedFine
<1>4. CASE \E y \in Received(x, c, FALSE) : Callback(y)
  <2>1. PICK y \in Received(x, c, FALSE) : Callback(y)
    BY <1>4
  <2>2. PICK b \in BOOLEAN : b = FALSE
    OBVIOUS
  <2>3. Fine(y, g, b)
    BY <1>3, <2>1, <2>2
  <2>4. Fine(y, Excused, b)
    BY <2>3 DEF g
  <2> QED BY <1>2, <2>1, <2>2, <2>4, CalmTurn
<1>5. CASE \E y \in Received(x, c, TRUE) \ Received(x, c, FALSE) : Faulty("transmit", y)
  <2>1. PICK y \in Received(x, c, TRUE) : Faulty("transmit", y)
    BY <1>5
  <2>2. PICK b \in BOOLEAN : b = TRUE
    OBVIOUS
  <2>3. Fine(y, g, b)
    BY <1>3, <2>1, <2>2
  <2>4. Fine(y, Excused, b)
    BY <2>3 DEF g
  <2> QED BY <1>2, <2>1, <2>2, <2>4, FaultyTurn
<1> QED BY <1>1, <1>4, <1>5 DEF Outcome

\* A stranger or a damaged message: a callback whose fault is the garbage.
LEMMA GarbageTurn ==
    ASSUME ConnInv, NEW x, Faulty("garbage", x), stopping # "forced", NEW g \in BOOLEAN,
           NEW f \in BOOLEAN, ~f, Fine(x, g, f)
    PROVE  Onward
<1>1. Became(x) /\ faults' = faults \cup {"garbage"}
  BY DEF Faulty
<1>2. "garbage" \in faults'
  BY <1>1
<1> QED BY <1>1, <1>2, Turn

LEMMA RecvGarbageTurn ==
    ASSUME ConnInv, NEW c \in Conns, RecvGarbage(c)
    PROVE  Onward
<1> DEFINE x == Heard(c)
           y == [x EXCEPT !.conn[c] = StegReceive(@)]
<1>1. Readable(c) /\ conn[c].proxied = "no"
  BY DEF RecvGarbage
<1>2. PICK z \in (IF Client THEN {ConnClose(x, c)} ELSE Rejected(x, c))
                 \cup (IF conn[c].up \/ ~Client THEN {ConnClose(y, c)} ELSE {})
                 \cup (IF conn[c].up \/ Client THEN {} ELSE Rejected(Emancipate(y, c), c)) :
          Faulty("garbage", z)
  BY DEF RecvGarbage
<1>3. /\ stopping # "forced" /\ Excused \in BOOLEAN
      /\ Core(x, Excused) /\ Lonely(x) /\ x.crash = "no" /\ OthersSettled(x, c)
      /\ x.conn[c].st = "open" /\ x.conn[c].proxied = "no"
  BY <1>1, HeardCore
<1>4. /\ Core(y, Excused) /\ Lonely(y) /\ y.crash = "no" /\ OthersSettled(y, c)
      /\ y.conn[c].st = "open" /\ y.conn[c].proxied = "no"
  BY <1>1, ReadCore
<1> HIDE DEF x, y
<1>5. PICK g \in BOOLEAN, f \in BOOLEAN : g /\ ~f
  OBVIOUS
<1>6. Core(x, g) /\ Core(y, g)
  BY <1>3, <1>4, <1>5, Weakened
<1>7. Fine(ConnClose(x, c), g, f)
  BY <1>3, <1>5, <1>6, CloseFine
<1>8. Fine(ConnClose(y, c), g, f)
  BY <1>4, <1>5, <1>6, CloseFine
<1>9. ~Client /\ z \in Rejected(x, c) => Fine(z, g, f)
  BY <1>3, <1>5, <1>6, RejectedFine
<1>10. ~Client /\ z \in Rejected(Emancipate(y, c), c) => Fine(z, g, f)
  BY <1>4, <1>5, <1>6, EmancipatedFine
<1>11. \/ z = ConnClose(x, c) \/ z = ConnClose(y, c)
       \/ ~Client /\ z \in Rejected(x, c)
       \/ ~Client /\ z \in Rejected(Emancipate(y, c), c)
  <2>1. CASE Client
    BY <1>2, <2>1
  <2>2. CASE ~Client
    BY <1>2, <2>2
  <2> QED BY <2>1, <2>2
<1>12. Fine(z, g, f)
  BY <1>7, <1>8, <1>9, <1>10, <1>11
<1> QED BY <1>2, <1>3, <1>5, <1>12, GarbageTurn

LEMMA RecvOpenFailsTurn ==
    ASSUME ConnInv, NEW c \in Conns, RecvOpenFails(c)
    PROVE  Onward
<1> DEFINE h == Heard(c)
           z == [h EXCEPT !.table = "null"]
           y == Crashed(z, "not_in_table")
<1>1. Readable(c) /\ conn[c].proxied = "no" /\ Faulty("open", CktClose(z))
  BY DEF RecvOpenFails
<1>2. Core(h, Excused) /\ h.crash = "no" /\ h.ckt = ckt
  BY <1>1, HeardCore
<1> HIDE DEF h
<1>3. h \in States /\ Kept(h) /\ \A d \in Conns : Draining(h.conn[d])
  BY <1>2 DEF Core, Own
<1>4. z \in States /\ z.table = "null" /\ z.conn = h.conn /\ z.ckt = h.ckt /\ z.crash = "no"
  BY <1>2, <1>3 DEF States
<1> HIDE DEF z
<1>5. CktClose(z) = y
  BY <1>4 DEF CktClose
<1>6. y \in States /\ y.crash = "not_in_table" /\ y.conn = h.conn /\ y.ckt = h.ckt
  BY <1>4 DEF States, Crashed, CrashKinds
<1> HIDE DEF y
<1>7. Became(y) /\ "open" \in faults'
  BY <1>1, <1>5 DEF Faulty
<1>8. CrashHasCause'
  BY <1>6, <1>7 DEF Became, CrashHasCause
<1>9. Kept(y) /\ \A d \in Conns : Draining(y.conn[d])
  BY <1>3, <1>6 DEF Kept
<1> QED BY <1>6, <1>7, <1>8, <1>9, Died

\* The end of downstream_event_cb at end of file.
LEMMA EofFine ==
    ASSUME NEW g \in BOOLEAN, NEW y, Core(y, g), Lonely(y), y.crash = "no",
           NEW c \in Conns, OthersSettled(y, c), y.conn[c].st = "open",
           y.conn[c].proxied = "no", NEW f \in BOOLEAN,
           ~y.conn[c].write_eof =>
              y.conn[c].up \/ ~y.conn[c].ever \/ y.ckt.sent_fin \/ y.conn[c].out
    PROVE  Fine(IF y.conn[c].write_eof THEN ConnClose(y, c)
                ELSE [y EXCEPT !.conn[c].peer_eof = TRUE, !.conn[c].read_eof = TRUE], g, f)
<1>1. y \in States /\ y.conn[c] \in ConnRecs /\ Own(y.conn[c], g)
  BY StateParts DEF Core
<1>2. CASE y.conn[c].write_eof
  <2>1. y.conn[c].b_out = "linked" => g
    BY <1>1 DEF Own, Ends
  <2>2. Fine(ConnClose(y, c), g, f)
    BY <2>1, CloseFine
  <2> QED BY <1>2, <2>2
<1>3. CASE ~y.conn[c].write_eof
  <2> DEFINE z == [y EXCEPT !.conn[c].peer_eof = TRUE, !.conn[c].read_eof = TRUE]
             k == [y.conn[c] EXCEPT !.peer_eof = TRUE, !.read_eof = TRUE]
  <2>1. k \in ConnRecs /\ k.up = y.conn[c].up /\ k.can = y.conn[c].can
        /\ k.ever = y.conn[c].ever /\ k.out = y.conn[c].out /\ k.fits = y.conn[c].fits
    BY <1>1 DEF ConnRecs
  <2>2. Own(k, g)
    BY <1>1 DEF ConnRecs, Own, Draining, Owing, Turns, HasRoom, Ends
  <2>3. z = [y EXCEPT !.conn[c] = k]
    BY <1>1 DEF States
  <2>4. k.up => y.ckt.st = "open"
    BY <2>1 DEF Core
  <2> HIDE DEF k, z
  <2>5. /\ Core(z, g) /\ z.ckt = y.ckt /\ z.crash = y.crash /\ z.conn[c] = k
        /\ \A d \in Conns : z.conn[d] = IF d = c THEN k ELSE y.conn[d]
    BY <2>1, <2>2, <2>3, <2>4, ConnChanged DEF HasRoom
  <2>6. Lonely(z)
    BY <2>1, <2>5 DEF Lonely
  <2>7. Settled(k, z.ckt.sent_fin)
    BY <1>3, <2>1, <2>5 DEF Settled
  <2>8. AllSettled(z)
    BY <2>5, <2>7 DEF AllSettled, OthersSettled
  <2>9. Fine(z, g, f)
    BY <2>5, <2>6, <2>8 DEF Fine, Causes
  <2> QED BY <1>3, <2>9 DEF z
<1> QED BY <1>2, <1>3

LEMMA RecvEofTurn ==
    ASSUME ConnInv, NEW c \in Conns, RecvEof(c)
    PROVE  Onward
<1> DEFINE done(y) == IF y.conn[c].write_eof THEN ConnClose(y, c)
                   ELSE [y EXCEPT !.conn[c].peer_eof = TRUE, !.conn[c].read_eof = TRUE]
           g == Excused
           y == DropDownstream(Now, c)
<1>1. /\ Alive /\ conn[c].st = "open" /\ conn[c].proxied = "no"
      /\ \E z \in IF EofDrops(conn[c]) THEN {Now, y} ELSE {Now} : Callback(done(z))
  BY DEF RecvEof
<1>2. /\ g \in BOOLEAN /\ Core(Now, g) /\ Lonely(Now) /\ AllSettled(Now)
      /\ Now.conn[c] = conn[c] /\ conn[c] \in ConnRecs /\ Own(conn[c], g) /\ Now.crash = "no"
      /\ Now.ckt = ckt /\ stopping # "forced"
  BY <1>1, Before
<1>3. PICK f \in BOOLEAN : ~f
  OBVIOUS
<1> HIDE DEF g, y
<1>4. CASE Callback(done(Now))
  <2>1. OthersSettled(Now, c)
    BY <1>2 DEF AllSettled, OthersSettled
  <2>2. Settled(Now.conn[c], Now.ckt.sent_fin)
    BY <1>2 DEF AllSettled
  <2>3. ~Now.conn[c].write_eof =>
           Now.conn[c].up \/ ~Now.conn[c].ever \/ Now.ckt.sent_fin \/ Now.conn[c].out
    BY <1>1, <1>2, <2>2 DEF Settled
  <2>4. Fine(done(Now), g, f)
    BY ZenonT(60), <1>1, <1>2, <2>1, <2>3, EofFine
  <2>5. Fine(done(Now), Excused, f)
    BY <2>4 DEF g
  <2> HIDE DEF done
  <2> QED BY <1>2, <1>3, <1>4, <2>5, CalmTurn
<1>5. CASE EofDrops(conn[c]) /\ Callback(done(y))
  <2>1. conn[c].up /\ (ckt.sent_fin \/ conn[c].nomore) /\ ~conn[c].out
    BY <1>5 DEF EofDrops
  <2>2. /\ Core(y, g) /\ Lonely(y) /\ SettlesOthers(Now, y, c)
        /\ y.conn[c] = [Now.conn[c] EXCEPT !.up = FALSE]
        /\ y.ckt.sent_fin = Now.ckt.sent_fin /\ y.crash = Now.crash
    BY <1>2, <2>1, DropDownstreamCore DEF y
  <2>3. y.conn[c].st = "open" /\ y.conn[c].proxied = "no"
        /\ y.conn[c].write_eof = conn[c].write_eof
    BY <1>1, <1>2, <2>2 DEF ConnRecs
  <2>4. OthersSettled(y, c)
    BY <1>2, <2>2 DEF AllSettled, OthersSettled, SettlesOthers
  <2>5. ~y.conn[c].write_eof => y.ckt.sent_fin
    BY <1>1, <1>2, <2>1, <2>2, <2>3 DEF Own, Turns
  <2>6. Fine(done(y), g, f)
    <3>1. /\ Core(y, g) /\ Lonely(y) /\ y.crash = "no"
          /\ y.conn[c].st = "open" /\ y.conn[c].proxied = "no"
      BY <1>2, <2>2, <2>3
    <3>2. ~y.conn[c].write_eof =>
             y.conn[c].up \/ ~y.conn[c].ever \/ y.ckt.sent_fin \/ y.conn[c].out
      BY <2>5
    <3> QED BY ZenonT(60), <1>2, <2>4, <3>1, <3>2, EofFine
  <2>7. Fine(done(y), Excused, f)
    BY <2>6 DEF g
  <2> HIDE DEF done
  <2> QED BY <1>2, <1>3, <1>5, <2>7, CalmTurn
<1> HIDE DEF done
<1> QED BY <1>1, <1>4, <1>5

-----------------------------------------------------------------------------
(* Upstream and the circuit's timers.                                      *)

LEMMA SendsTurn ==
    ASSUME ConnInv, Alive, ckt.st = "open", Sends(Now)
    PROVE  Onward
<1> DEFINE g == Excused
<1>1. /\ g \in BOOLEAN /\ Core(Now, g) /\ AllSettled(Now) /\ Now.crash = "no"
      /\ Now.ckt.st = "open" /\ stopping # "forced"
  BY Before
<1> HIDE DEF g
<1>2. ASSUME NEW b \in BOOLEAN, NEW y \in Sent(Now, b, b)
      PROVE  Fine(y, g, b)
  BY <1>1, <1>2, SentFine
<1>3. CASE \E y \in Sent(Now, FALSE, FALSE) : Callback(y)
  <2>1. PICK y \in Sent(Now, FALSE, FALSE) : Callback(y)
    BY <1>3
  <2>2. PICK b \in BOOLEAN : b = FALSE
    OBVIOUS
  <2>3. Fine(y, g, b)
    BY <1>2, <2>1, <2>2
  <2>4. Fine(y, Excused, b)
    BY <2>3 DEF g
  <2> QED BY <1>1, <2>1, <2>2, <2>4, CalmTurn
<1>4. CASE \E y \in Sent(Now, TRUE, TRUE) \ Sent(Now, FALSE, FALSE) : Faulty("transmit", y)
  <2>1. PICK y \in Sent(Now, TRUE, TRUE) : Faulty("transmit", y)
    BY <1>4
  <2>2. PICK b \in BOOLEAN : b = TRUE
    OBVIOUS
  <2>3. Fine(y, g, b)
    BY <1>2, <2>1, <2>2
  <2>4. Fine(y, Excused, b)
    BY <2>3 DEF g
  <2> QED BY <1>1, <2>1, <2>2, <2>4, FaultyTurn
<1> QED BY <1>3, <1>4 DEF Sends, Outcome

LEMMA UpReadTurn ==
    ASSUME ConnInv, UpRead
    PROVE  Onward
BY SendsTurn DEF UpRead, UpReadable

LEMMA FlushTimerTurn ==
    ASSUME ConnInv, FlushTimer
    PROVE  Onward
<1>1. Alive /\ ckt.flush /\ Sends(Now)
  BY DEF FlushTimer
<1>2. Core(Now, Excused) /\ Now.ckt = ckt
  BY <1>1, Before
<1>3. ckt.st = "open"
  BY <1>1, <1>2 DEF Core, Registered
<1> QED BY <1>1, <1>3, SendsTurn

\* Closing the circuit ends a callback well.
LEMMA CktCloseFine ==
    ASSUME NEW g \in BOOLEAN, NEW x, NEW f \in BOOLEAN, Core(x, g), x.crash = "no",
           AllSettled(x), x.ckt.st = "open"
    PROVE  Fine(CktClose(x), g, f)
<1> DEFINE y == CktClose(x)
<1>1. /\ Core(y, g) /\ Settles(x, y) /\ y.ckt.st = "gone" /\ y.crash = x.crash
  BY CktCloseCore
<1> HIDE DEF y
<1>3. Lonely(y)
  BY <1>1 DEF Lonely
<1>4. AllSettled(y)
  BY <1>1 DEF AllSettled, Settles
<1>5. Causes(y, f)
  BY <1>1 DEF Causes
<1> QED BY <1>1, <1>3, <1>4, <1>5 DEF Fine, y

LEMMA UpErrorTurn ==
    ASSUME ConnInv, UpError
    PROVE  Onward
<1> DEFINE g == Excused
<1>1. Alive /\ ckt.st = "open" /\ Faulty("upstream", CktClose(Now))
  BY DEF UpError
<1>2. /\ g \in BOOLEAN /\ Core(Now, g) /\ AllSettled(Now) /\ Now.crash = "no"
      /\ Now.ckt.st = "open" /\ stopping # "forced"
  BY <1>1, Before
<1>3. PICK f \in BOOLEAN : ~f
  OBVIOUS
<1> HIDE DEF g
<1>5. Fine(CktClose(Now), g, f)
  BY <1>2, CktCloseFine
<1>6. Fine(CktClose(Now), Excused, f)
  BY <1>5 DEF g
<1> QED BY <1>1, <1>2, <1>3, <1>6, FaultyTurn

LEMMA UpEofTurn ==
    ASSUME ConnInv, UpEof
    PROVE  Onward
<1> DEFINE x == [Now EXCEPT !.ckt.upstream_eof = TRUE]
           end(y) == IF y.crash = "no" /\ y.ckt.st = "open" /\ y.ckt.read_eof /\ y.ckt.write_eof
                     THEN CktClose(y) ELSE y
           g == Excused
<1>1. /\ UpReadable
      /\ Outcome("transmit", {end(y) : y \in Sent(x, FALSE, FALSE)},
                             {end(y) : y \in Sent(x, TRUE, TRUE)})
  BY DEF UpEof
<1>2. /\ g \in BOOLEAN /\ Core(Now, g) /\ AllSettled(Now) /\ Now.crash = "no" /\ Now \in States
      /\ Now.ckt = ckt /\ ckt.st = "open" /\ stopping # "forced" /\ ckt \in CktRecs
  BY <1>1, Before DEF UpReadable
<1> DEFINE t == [ckt EXCEPT !.upstream_eof = TRUE]
<1>3. /\ t \in CktRecs /\ t.st = "open" /\ t.axe = ckt.axe /\ t.flush = ckt.flush
      /\ t.pending = ckt.pending /\ t.write_eof = ckt.write_eof /\ t.axed = ckt.axed
      /\ t.received_fin = ckt.received_fin /\ t.sent_fin = ckt.sent_fin /\ t.reset = ckt.reset
  BY <1>2 DEF CktRecs
<1>4. x = [Now EXCEPT !.ckt = t]
  BY <1>2 DEF States
<1>5. Finished(Now)
  BY <1>2 DEF Core
<1> HIDE DEF g, t, x
<1>6. Core(x, g) /\ x.ckt = t /\ x.crash = Now.crash /\ x.conn = Now.conn
  BY <1>2, <1>3, <1>4, <1>5, CktChanged DEF Finished
<1>7. AllSettled(x)
  BY <1>2, <1>3, <1>6 DEF AllSettled
<1>8. ASSUME NEW b \in BOOLEAN, NEW y \in Sent(x, b, b)
      PROVE  Fine(end(y), g, b)
  <2>1. Fine(y, g, b)
    BY <1>2, <1>3, <1>6, <1>7, <1>8, SentFine
  <2>2. CASE y.crash = "no" /\ y.ckt.st = "open" /\ y.ckt.read_eof /\ y.ckt.write_eof
    <3>1. Fine(CktClose(y), g, b)
      BY <1>2, <2>1, <2>2, CktCloseFine DEF Fine
    <3> QED BY <2>2, <3>1
  <2>3. CASE ~(y.crash = "no" /\ y.ckt.st = "open" /\ y.ckt.read_eof /\ y.ckt.write_eof)
    BY <2>1, <2>3
  <2> QED BY <2>2, <2>3
<1> HIDE DEF end
<1>9. CASE \E z \in {end(y) : y \in Sent(x, FALSE, FALSE)} : Callback(z)
  <2>1. PICK y \in Sent(x, FALSE, FALSE) : Callback(end(y))
    BY <1>9
  <2>2. PICK b \in BOOLEAN : b = FALSE
    OBVIOUS
  <2>3. Fine(end(y), g, b)
    BY <1>8, <2>1, <2>2
  <2>4. Fine(end(y), Excused, b)
    BY <2>3 DEF g
  <2> QED BY <1>2, <2>1, <2>2, <2>4, CalmTurn
<1>10. CASE \E z \in {end(y) : y \in Sent(x, TRUE, TRUE)} : Faulty("transmit", z)
  <2>1. PICK y \in Sent(x, TRUE, TRUE) : Faulty("transmit", end(y))
    BY <1>10
  <2>2. PICK b \in BOOLEAN : b = TRUE
    OBVIOUS
  <2>3. Fine(end(y), g, b)
    BY <1>8, <2>1, <2>2
  <2>4. Fine(end(y), Excused, b)
    BY <2>3 DEF g
  <2> QED BY <1>2, <2>1, <2>2, <2>4, FaultyTurn
<1> QED BY <1>1, <1>9, <1>10 DEF Outcome

LEMMA UpConnectTurn ==
    ASSUME ConnInv, UpConnect
    PROVE  Onward
<1> DEFINE x == [Now EXCEPT !.ckt.up = "connected"]
           y == IF ckt.pending THEN CktRecvEof(x) ELSE x
           g == Excused
<1>1. Alive /\ ckt.st = "open" /\ Callback(y)
  BY DEF UpConnect
<1>2. /\ g \in BOOLEAN /\ Core(Now, g) /\ AllSettled(Now) /\ Now.crash = "no" /\ Now \in States
      /\ Now.ckt = ckt /\ stopping # "forced" /\ ckt \in CktRecs /\ Lonely(Now)
  BY <1>1, Before
<1> DEFINE t == [ckt EXCEPT !.up = "connected"]
<1>3. /\ t \in CktRecs /\ t.st = "open" /\ t.axe = ckt.axe /\ t.flush = ckt.flush
      /\ t.pending = ckt.pending /\ t.write_eof = ckt.write_eof /\ t.axed = ckt.axed
      /\ t.received_fin = ckt.received_fin /\ t.sent_fin = ckt.sent_fin /\ t.reset = ckt.reset
  BY <1>1, <1>2 DEF CktRecs
<1>4. x = [Now EXCEPT !.ckt = t]
  BY <1>2 DEF States
<1>5. Finished(Now)
  BY <1>2 DEF Core
<1> HIDE DEF g, t, x
<1>6. Core(x, g) /\ x.ckt = t /\ x.crash = Now.crash /\ x.conn = Now.conn
  BY <1>1, <1>2, <1>3, <1>4, <1>5, CktChanged DEF Finished
<1>7. AllSettled(x)
  BY <1>2, <1>3, <1>6 DEF AllSettled
<1>8. Lonely(x)
  BY <1>1, <1>2, <1>3, <1>6 DEF Lonely
<1>9. PICK f \in BOOLEAN : ~f
  OBVIOUS
<1>10. Fine(IF x.ckt.pending /\ x.crash = "no" THEN CktRecvEof(x) ELSE x, g, f)
  BY <1>2, <1>6, <1>7, <1>8, ToldFine
<1>11. x.crash = "no" /\ x.ckt.pending = ckt.pending
  BY <1>2, <1>3, <1>6
<1>12. Fine(y, g, f)
  BY <1>10, <1>11
<1>13. Fine(y, Excused, f)
  BY <1>12 DEF g
<1> HIDE DEF y
<1> QED BY <1>1, <1>2, <1>9, <1>13, CalmTurn

LEMMA UpFlushTurn ==
    ASSUME ConnInv, UpFlush
    PROVE  Onward
<1> DEFINE x == [Now EXCEPT !.ckt.out = FALSE]
           y == UpFlushCb(x)
           g == Excused
<1>1. Alive /\ ckt.st = "open" /\ Callback(y)
  BY DEF UpFlush
<1>2. /\ g \in BOOLEAN /\ Core(Now, g) /\ AllSettled(Now) /\ Now.crash = "no" /\ Now \in States
      /\ Now.ckt = ckt /\ stopping # "forced" /\ ckt \in CktRecs /\ Lonely(Now)
  BY <1>1, Before
<1> DEFINE t == [ckt EXCEPT !.out = FALSE]
<1>3. /\ t \in CktRecs /\ t.st = "open" /\ t.axe = ckt.axe /\ t.flush = ckt.flush
      /\ t.pending = ckt.pending /\ t.write_eof = ckt.write_eof /\ t.axed = ckt.axed
      /\ t.received_fin = ckt.received_fin /\ t.sent_fin = ckt.sent_fin /\ t.reset = ckt.reset
  BY <1>1, <1>2 DEF CktRecs
<1>4. x = [Now EXCEPT !.ckt = t]
  BY <1>2 DEF States
<1>5. Finished(Now)
  BY <1>2 DEF Core
<1> HIDE DEF g, t, x
<1>6. Core(x, g) /\ x.ckt = t /\ x.crash = Now.crash /\ x.conn = Now.conn
  BY <1>1, <1>2, <1>3, <1>4, <1>5, CktChanged DEF Finished
<1>7. AllSettled(x)
  BY <1>2, <1>3, <1>6 DEF AllSettled
<1>8. Lonely(x)
  BY <1>1, <1>2, <1>3, <1>6 DEF Lonely
<1>9. x.ckt.st = "open"
  BY <1>3, <1>6
<1>10. Core(y, g) /\ Settles(x, y) /\ y.crash = x.crash /\ Lonely(y)
  BY <1>2, <1>6, <1>8, <1>9, UpFlushCbCore
<1> HIDE DEF y
<1>11. AllSettled(y)
  BY <1>7, <1>10 DEF AllSettled, Settles
<1>12. PICK f \in BOOLEAN : ~f
  OBVIOUS
<1>13. Fine(y, Excused, f)
  BY <1>2, <1>6, <1>10, <1>11 DEF Fine, Causes, g
<1> QED BY <1>1, <1>2, <1>12, <1>13, CalmTurn

LEMMA AxeTimerTurn ==
    ASSUME ConnInv, AxeTimer
    PROVE  Onward
<1> DEFINE x == [Now EXCEPT !.ckt.axe = FALSE, !.ckt.axed = TRUE]
           y == CktDoFlush(x)
           g == Excused
<1>1. Alive /\ ckt.axe /\ Callback(y)
  BY DEF AxeTimer
<1>2. /\ g \in BOOLEAN /\ Core(Now, g) /\ AllSettled(Now) /\ Now.crash = "no" /\ Now \in States
      /\ Now.ckt = ckt /\ ckt \in CktRecs /\ Lonely(Now)
      /\ ckt.st = "open" => stopping # "forced"
  BY <1>1, Before
<1>3. ckt.st = "open" /\ stopping # "forced"
  BY <1>1, <1>2 DEF Core, Registered
<1> DEFINE t == [ckt EXCEPT !.axe = FALSE, !.axed = TRUE]
<1>4. /\ t \in CktRecs /\ t.st = "open" /\ t.axe = FALSE /\ t.flush = ckt.flush
      /\ t.pending = ckt.pending /\ t.write_eof = ckt.write_eof /\ t.axed = TRUE
      /\ t.received_fin = ckt.received_fin /\ t.sent_fin = ckt.sent_fin /\ t.reset = ckt.reset
  BY <1>2, <1>3 DEF CktRecs
<1>5. x = [Now EXCEPT !.ckt = t]
  BY <1>2 DEF States
<1>6. Finished(Now)
  BY <1>2 DEF Core
<1> HIDE DEF g, t, x
<1>7. Core(x, g) /\ x.ckt = t /\ x.crash = Now.crash /\ x.conn = Now.conn
  BY <1>2, <1>3, <1>4, <1>5, <1>6, CktChanged DEF Finished
<1>8. AllSettled(x)
  BY <1>2, <1>4, <1>7 DEF AllSettled
<1>9. Lonely(x)
  BY <1>2, <1>3, <1>4, <1>7 DEF Lonely
<1>10. x.ckt.st = "open" /\ x.ckt.axed
  BY <1>4, <1>7
<1>11. Core(y, g) /\ Settles(x, y) /\ y.crash = x.crash /\ Lonely(y)
  BY <1>2, <1>7, <1>9, <1>10, CktDoFlushCore
<1> HIDE DEF y
<1>12. AllSettled(y)
  BY <1>8, <1>11 DEF AllSettled, Settles
<1>13. PICK f \in BOOLEAN : ~f
  OBVIOUS
<1>14. Fine(y, Excused, f)
  BY <1>2, <1>7, <1>11, <1>12 DEF Fine, Causes, g
<1> QED BY <1>1, <1>3, <1>13, <1>14, CalmTurn

-----------------------------------------------------------------------------
(* The transparent proxy.                                                  *)

\* One connection's record changes, not its circuit nor its place on it.
LEMMA PutFine ==
    ASSUME ConnInv, Alive, NEW c \in Conns, NEW k \in ConnRecs, Own(k, Excused),
           k.up = conn[c].up, k.can = conn[c].can, k.st = conn[c].st, k.fits = conn[c].fits,
           Settled(conn[c], ckt.sent_fin) => Settled(k, ckt.sent_fin)
    PROVE  LET y == [Now EXCEPT !.conn[c] = k]
           IN  /\ Core(y, Excused) /\ Lonely(y) /\ AllSettled(y) /\ y.crash = "no"
               /\ y.conn[c] = k /\ Emptied(y)
<1> DEFINE y == [Now EXCEPT !.conn[c] = k]
           g == Excused
<1>1. /\ g \in BOOLEAN /\ Core(Now, g) /\ Lonely(Now) /\ AllSettled(Now) /\ Now.crash = "no"
      /\ Now.conn = conn /\ Now.ckt = ckt
  BY Before
<1>2. Emptied(Now)
  BY DEF ConnInv
<1>3. k.up => Now.ckt.st = "open"
  BY <1>1 DEF Core
<1> HIDE DEF g
<1>4. Own(k, g)
  BY DEF g
<1>5. /\ Core(y, g) /\ y.ckt = Now.ckt /\ y.crash = Now.crash /\ y.conn[c] = k
      /\ \A d \in Conns : y.conn[d] = IF d = c THEN k ELSE Now.conn[d]
  BY <1>1, <1>3, <1>4, ConnChanged DEF HasRoom
<1> HIDE DEF y
<1>6. Lonely(y)
  BY <1>1, <1>5 DEF Lonely
<1>7. AllSettled(y)
  BY <1>1, <1>5 DEF AllSettled
<1>8. Emptied(y)
  BY <1>1, <1>2, <1>5 DEF Emptied
<1> QED BY <1>1, <1>5, <1>6, <1>7, <1>8 DEF g, y

\* A callback that does no more than that, perhaps after a forced shutdown.
LEMMA PutTurn ==
    ASSUME ConnInv, Alive, NEW y, Callback(y), Core(y, Excused), Lonely(y), AllSettled(y),
           y.crash = "no", Emptied(y)
    PROVE  Onward
<1> DEFINE g == Excused
<1>1. Became(y) /\ faults' = faults
  BY DEF Callback
<1>2. g \in BOOLEAN /\ (g => stopping = "forced" \/ "garbage" \in faults')
  BY <1>1 DEF Excused
<1>3. PICK f \in BOOLEAN : ~f
  OBVIOUS
<1> HIDE DEF g
<1>4. Fine(y, g, f)
  BY DEF Fine, Causes, g
<1> QED BY <1>1, <1>2, <1>3, <1>4, Turn

\* b_out uses its freed partner.
LEMMA DanglingTurn ==
    ASSUME ConnInv, Alive, NEW c \in Conns, Dangling(c), NEW x, x \in States,
           x.crash = "no", Kept(x), \A d \in Conns : Draining(x.conn[d]),
           Callback(Crashed(x, "dangling"))
    PROVE  Onward
<1> DEFINE y == Crashed(x, "dangling")
<1>1. y \in States /\ y.crash = "dangling" /\ y.conn = x.conn /\ y.ckt = x.ckt
  BY DEF States, Crashed, CrashKinds
<1>2. Became(y) /\ faults' = faults
  BY DEF Callback
<1> HIDE DEF y
<1>3. Excused
  <2>1. Own(conn[c], Excused)
    BY Before
  <2> QED BY <2>1 DEF Dangling, Own, Ends
<1>4. CrashHasCause'
  BY <1>1, <1>2, <1>3 DEF Became, CrashHasCause, Excused
<1>5. Kept(y) /\ \A d \in Conns : Draining(y.conn[d])
  BY <1>1 DEF Kept
<1> QED BY <1>1, <1>2, <1>4, <1>5, Died

LEMMA ProxyReadTurn ==
    ASSUME ConnInv, NEW c \in Conns, ProxyRead(c)
    PROVE  Onward
<1>1. Alive /\ conn[c].st = "open" /\ conn[c].proxied = "linked"
  BY DEF ProxyRead, Readable
<1>2. PICK full \in BOOLEAN :
        Callback([Now EXCEPT !.conn[c].messages = @ + 1, !.conn[c].choked = full,
                             !.conn[c].b_out_full = TRUE])
  BY DEF ProxyRead
<1>3. /\ Now \in States /\ Now.conn = conn /\ conn[c] \in ConnRecs /\ Own(conn[c], Excused)
  BY <1>1, Before
<1> DEFINE n == conn[c].messages + 1
           k == [conn[c] EXCEPT !.messages = n, !.choked = full, !.b_out_full = TRUE]
           y == [Now EXCEPT !.conn[c].messages = @ + 1, !.conn[c].choked = full,
                            !.conn[c].b_out_full = TRUE]
<1>4. n \in Nat
  BY <1>3 DEF ConnRecs
<1>5. y = [Now EXCEPT !.conn[c] = k]
  BY <1>3 DEF States
<1> HIDE DEF n, y
<1>6. /\ k \in ConnRecs /\ k.up = conn[c].up /\ k.can = conn[c].can /\ k.st = conn[c].st
      /\ k.proxied = "linked" /\ k.fits = conn[c].fits
  BY ZenonT(60), <1>1, <1>3, <1>4 DEF ConnRecs
<1>7. Own(k, Excused)
  <2>1. /\ k.st = "open" /\ k.up = conn[c].up /\ k.connected = conn[c].connected
        /\ k.hs = conn[c].hs /\ k.can = conn[c].can /\ k.did = conn[c].did
        /\ k.timer = conn[c].timer /\ k.out = conn[c].out /\ k.write_eof = conn[c].write_eof
        /\ k.pending = conn[c].pending /\ k.ever = conn[c].ever /\ k.nomore = conn[c].nomore
        /\ k.messages = n /\ k.proxied = "linked" /\ k.b_out = conn[c].b_out
        /\ k.b_out_full = TRUE /\ k.b_choked = conn[c].b_choked /\ k.fits = conn[c].fits
    BY <1>1, <1>3, <1>4 DEF ConnRecs
  <2>2. conn[c].messages \in Nat /\ n = conn[c].messages + 1
    BY <1>3 DEF ConnRecs, n
  <2>3. Draining(k) /\ Turns(k) /\ Ends(k, Excused)
    BY <1>1, <1>3, <2>1 DEF Own, Draining, Turns, HasRoom, Ends
  <2>4. Owing(k)
    <3>1. (conn[c].messages > 1 => n > 1) /\ (conn[c].messages > 0 => n > 0)
      BY <2>2
    <3> QED BY <1>3, <2>1, <3>1 DEF Own, Owing
  <2> QED BY <2>3, <2>4 DEF Own
<1>8. Settled(k, ckt.sent_fin)
  BY <1>6 DEF Settled
<1> HIDE DEF k
<1>9. /\ Core(y, Excused) /\ Lonely(y) /\ AllSettled(y) /\ y.crash = "no"
      /\ y.conn[c] = k /\ Emptied(y)
  BY <1>1, <1>5, <1>6, <1>7, <1>8, PutFine
<1>10. Callback(y)
  BY <1>2 DEF y
<1> QED BY <1>1, <1>9, <1>10, PutTurn

LEMMA ReplyRec ==
    ASSUME NEW r \in ConnRecs, NEW f \in BOOLEAN
    PROVE  [r EXCEPT !.out = TRUE, !.b_choked = f] \in ConnRecs
BY ZenonT(60) DEF ConnRecs

LEMMA ProxyReplyTurn ==
    ASSUME ConnInv, NEW c \in Conns, ProxyReply(c)
    PROVE  Onward
<1>0. PICK full \in BOOLEAN :
        Callback(IF Dangling(c) THEN Crashed(Now, "dangling")
                 ELSE [Now EXCEPT !.conn[c].out = TRUE, !.conn[c].b_choked = full])
  BY DEF ProxyReply
<1> DEFINE y == [Now EXCEPT !.conn[c].out = TRUE, !.conn[c].b_choked = full]
           k == [conn[c] EXCEPT !.out = TRUE, !.b_choked = full]
<1>1. /\ Alive /\ conn[c].b_out = "linked"
      /\ Callback(IF Dangling(c) THEN Crashed(Now, "dangling") ELSE y)
  BY <1>0 DEF ProxyReply
<1>2. /\ Now \in States /\ Now.conn = conn /\ conn[c] \in ConnRecs /\ Own(conn[c], Excused)
      /\ Now.crash = "no" /\ Core(Now, Excused)
  BY <1>1, Before
<1>3. CASE Dangling(c)
  <2>1. Kept(Now) /\ \A d \in Conns : Draining(Now.conn[d])
    BY <1>2 DEF Core, Own
  <2>2. Callback(Crashed(Now, "dangling"))
    BY <1>1, <1>3
  <2> QED BY <1>1, <1>2, <1>3, <2>1, <2>2, DanglingTurn
<1>4. CASE ~Dangling(c)
  <2>02. k \in ConnRecs
    BY ONLY <1>2, full \in BOOLEAN, ReplyRec
  <2>03. conn[c].proxied = "linked"
    BY ONLY <1>1, <1>2 DEF ConnRecs, Own, Ends
  <2>1. /\ k \in ConnRecs /\ k.up = conn[c].up /\ k.can = conn[c].can /\ k.st = conn[c].st
        /\ k.proxied = "linked" /\ k.fits = conn[c].fits
    BY ONLY <1>2, <2>02, <2>03 DEF ConnRecs
  <2>2. Own(k, Excused)
    BY <1>1, <1>2 DEF ConnRecs, Own, Draining, Owing, Turns, HasRoom, Ends
  <2>3. y = [Now EXCEPT !.conn[c] = k]
    BY <1>2 DEF States
  <2>4. Settled(k, ckt.sent_fin)
    BY <2>1 DEF Settled
  <2> HIDE DEF k, y
  <2>5. /\ Core(y, Excused) /\ Lonely(y) /\ AllSettled(y) /\ y.crash = "no" /\ Emptied(y)
    BY <1>1, <2>1, <2>2, <2>3, <2>4, PutFine
  <2> QED BY <1>1, <1>4, <2>5, PutTurn
<1> QED BY <1>3, <1>4

LEMMA ProxyDrainedTurn ==
    ASSUME ConnInv, NEW c \in Conns, ProxyDrained(c)
    PROVE  Onward
<1> DEFINE x == [Now EXCEPT !.conn[c].b_out_full = FALSE, !.conn[c].choked = FALSE]
           k == [conn[c] EXCEPT !.b_out_full = FALSE, !.choked = FALSE]
           m == [conn[c] EXCEPT !.b_out_full = FALSE, !.choked = FALSE, !.b_out = "gone"]
<1>1. /\ Alive /\ conn[c].b_out \in {"linked", "finishing"}
      /\ Callback(IF conn[c].b_out = "finishing" THEN FreeOut(x, c)
                  ELSE IF Dangling(c) /\ conn[c].choked THEN Crashed(x, "dangling")
                  ELSE x)
  BY DEF ProxyDrained
<1>2. /\ Now \in States /\ Now.conn = conn /\ conn[c] \in ConnRecs /\ Own(conn[c], Excused)
      /\ Now.crash = "no" /\ Core(Now, Excused)
  BY <1>1, Before
<1>3. /\ k \in ConnRecs /\ k.up = conn[c].up /\ k.can = conn[c].can /\ k.st = conn[c].st /\ k.fits = conn[c].fits
      /\ Settled(conn[c], ckt.sent_fin) => Settled(k, ckt.sent_fin)
  BY ZenonT(60), <1>2 DEF ConnRecs, Settled
<1>4. conn[c].b_out # "finishing" => Own(k, Excused)
  <2>1. /\ k.st = conn[c].st /\ k.up = conn[c].up /\ k.connected = conn[c].connected
        /\ k.hs = conn[c].hs /\ k.can = conn[c].can /\ k.did = conn[c].did
        /\ k.timer = conn[c].timer /\ k.out = conn[c].out
        /\ k.read_eof = conn[c].read_eof /\ k.write_eof = conn[c].write_eof
        /\ k.pending = conn[c].pending /\ k.ever = conn[c].ever
        /\ k.nomore = conn[c].nomore /\ k.peer_eof = conn[c].peer_eof
        /\ k.messages = conn[c].messages /\ k.proxied = conn[c].proxied
        /\ k.b_out = conn[c].b_out /\ k.b_out_full = FALSE /\ k.choked = FALSE
        /\ k.b_choked = conn[c].b_choked /\ k.fits = conn[c].fits
    BY <1>2 DEF ConnRecs
  <2> HIDE DEF k
  <2> QED BY <1>1, <1>2, <2>1 DEF Own, Draining, Owing, Turns, HasRoom, Ends
<1>5. x = [Now EXCEPT !.conn[c] = k]
  BY <1>2 DEF States
<1>6. /\ m \in ConnRecs /\ m.up = conn[c].up /\ m.can = conn[c].can /\ m.st = conn[c].st /\ m.fits = conn[c].fits
      /\ Settled(conn[c], ckt.sent_fin) => Settled(m, ckt.sent_fin)
  BY ZenonT(60), <1>2 DEF ConnRecs, Settled
<1>7. conn[c].b_out = "finishing" => Own(m, Excused)
  <2>1. /\ m.st = conn[c].st /\ m.up = conn[c].up /\ m.connected = conn[c].connected
        /\ m.hs = conn[c].hs /\ m.can = conn[c].can /\ m.did = conn[c].did
        /\ m.timer = conn[c].timer /\ m.out = conn[c].out
        /\ m.read_eof = conn[c].read_eof /\ m.write_eof = conn[c].write_eof
        /\ m.pending = conn[c].pending /\ m.ever = conn[c].ever
        /\ m.nomore = conn[c].nomore /\ m.peer_eof = conn[c].peer_eof
        /\ m.messages = conn[c].messages /\ m.proxied = conn[c].proxied
        /\ m.b_out = "gone" /\ m.b_out_full = FALSE /\ m.choked = FALSE
        /\ m.b_choked = conn[c].b_choked /\ m.fits = conn[c].fits
    BY <1>2 DEF ConnRecs
  <2> HIDE DEF m
  <2> QED BY <1>1, <1>2, <2>1 DEF Own, Draining, Owing, Turns, HasRoom, Ends
<1>8. FreeOut(x, c) = [Now EXCEPT !.conn[c] = m]
  BY ZenonT(60), <1>2 DEF States, FreeOut
<1> HIDE DEF k, m, x
<1>9. CASE conn[c].b_out = "finishing"
  <2> DEFINE y == FreeOut(x, c)
  <2>1. Callback(y)
    BY <1>1, <1>9
  <2>2. y = [Now EXCEPT !.conn[c] = m]
    BY <1>8
  <2> HIDE DEF y
  <2>3. /\ Core(y, Excused) /\ Lonely(y) /\ AllSettled(y) /\ y.crash = "no" /\ Emptied(y)
    BY <1>1, <1>6, <1>7, <1>9, <2>2, PutFine
  <2> QED BY <1>1, <2>1, <2>3, PutTurn
<1>10. conn[c].b_out # "finishing" =>
       /\ Core(x, Excused) /\ Lonely(x) /\ AllSettled(x) /\ x.crash = "no" /\ Emptied(x)
  BY <1>1, <1>3, <1>4, <1>5, PutFine
<1>11. CASE conn[c].b_out # "finishing" /\ Dangling(c) /\ conn[c].choked
  <2>1. x \in States /\ Kept(x) /\ \A d \in Conns : Draining(x.conn[d])
    BY <1>10, <1>11 DEF Core, Own
  <2>2. Callback(Crashed(x, "dangling"))
    BY <1>1, <1>11
  <2> QED BY <1>1, <1>10, <1>11, <2>1, <2>2, DanglingTurn
<1>12. CASE conn[c].b_out # "finishing" /\ ~(Dangling(c) /\ conn[c].choked)
  <2>1. Callback(x)
    BY <1>1, <1>12
  <2> QED BY <1>1, <1>10, <1>12, <2>1, PutTurn
<1> QED BY <1>9, <1>11, <1>12

\* free_or_close on the connection, once the cover server's side is free.
LEMMA FreeInFine ==
    ASSUME NEW g \in BOOLEAN, NEW x, Core(x, g), Lonely(x), x.crash = "no",
           NEW c \in Conns, OthersSettled(x, c), x.conn[c].b_out # "linked", NEW f \in BOOLEAN
    PROVE  Fine(FreeIn(x, c), g, f)
<1> DEFINE y == ConnClose(x, c)
           z == FreeIn(x, c)
           k == [y.conn[c] EXCEPT !.proxied = "no"]
<1>1. /\ Core(y, g) /\ SettlesOthers(x, y, c) /\ y.crash = x.crash
      /\ Lonely(y) /\ y.conn[c].st = "gone" /\ y.conn[c].up = FALSE
      /\ y.conn[c].b_out = x.conn[c].b_out /\ y.conn[c].timer = FALSE
  BY ConnCloseCore
<1>2. z = [y EXCEPT !.conn[c].proxied = "no"]
  BY DEF FreeIn
<1> HIDE DEF y, z
<1>3. y \in States /\ y.conn[c] \in ConnRecs /\ Own(y.conn[c], g)
  BY <1>1, StateParts DEF Core
<1>4. z = [y EXCEPT !.conn[c] = k]
  BY <1>2, <1>3 DEF States
<1>5. k \in ConnRecs /\ k.up = FALSE /\ k.st = "gone"
  BY <1>1, <1>3 DEF ConnRecs
<1>6. Own(k, g)
  BY <1>1, <1>3 DEF ConnRecs, Own, Draining, Owing, Turns, HasRoom, Ends
<1> HIDE DEF k
<1>7. /\ Core(z, g) /\ z.ckt = y.ckt /\ z.crash = y.crash /\ z.conn[c] = k
      /\ \A d \in Conns : z.conn[d] = IF d = c THEN k ELSE y.conn[d]
  BY <1>1, <1>4, <1>5, <1>6, ConnChanged
<1>8. Lonely(z)
  BY <1>1, <1>5, <1>7 DEF Lonely
<1>9. AllSettled(z)
  BY <1>1, <1>5, <1>7 DEF AllSettled, OthersSettled, SettlesOthers, Settled
<1> QED BY <1>1, <1>7, <1>8, <1>9 DEF Fine, Causes, z

\* eventcb closes the connection and lets go of b_out.  A connection that left its circuit in time only
\* disappears; one that did not has an excuse for the pointer to it.
LEMMA FreeBothFine ==
    ASSUME ConnInv, Alive, NEW c \in Conns, conn[c].b_out = "linked", NEW f \in BOOLEAN,
           NEW b \in {"finishing", "gone"}, NEW full \in BOOLEAN, b = "finishing" => full
    PROVE  Fine([FreeIn(Now, c) EXCEPT !.conn[c].b_out = b, !.conn[c].b_out_full = full],
                Excused, f)
<1> DEFINE g == Excused
           y == ConnClose(Now, c)
           z == [FreeIn(Now, c) EXCEPT !.conn[c].b_out = b, !.conn[c].b_out_full = full]
           k == [y.conn[c] EXCEPT !.proxied = "no", !.b_out = b, !.b_out_full = full]
<1>1. /\ Now \in States /\ Now.conn = conn /\ conn[c] \in ConnRecs /\ Own(conn[c], g)
      /\ g \in BOOLEAN /\ Core(Now, g) /\ Lonely(Now) /\ AllSettled(Now) /\ Now.crash = "no"
  BY Before
<1>2. z = [[y EXCEPT !.conn[c].proxied = "no"] EXCEPT !.conn[c].b_out = b,
                                                      !.conn[c].b_out_full = full]
  BY DEF FreeIn
<1> HIDE DEF g, z
<1>3. ASSUME y \in States, y.conn[c].up = FALSE, y.conn[c].st = "gone",
             y.conn[c].timer = FALSE, y.conn[c].nomore => y.conn[c].pending,
             Owing(y.conn[c])
      PROVE  /\ z = [y EXCEPT !.conn[c] = k] /\ k \in ConnRecs /\ k.up = FALSE
             /\ k.st = "gone" /\ Own(k, g)
  <2> HIDE DEF y
  <2>1. y.conn[c] \in ConnRecs
    BY <1>3, StateParts
  <2>2. z = [y EXCEPT !.conn[c] = k]
    BY <1>2, <1>3 DEF States
  <2>3. k \in ConnRecs /\ k.up = FALSE /\ k.st = "gone" /\ k.timer = FALSE
        /\ k.nomore = y.conn[c].nomore /\ k.pending = y.conn[c].pending
        /\ k.b_out = b /\ k.b_out_full = full /\ k.proxied = "no"
        /\ k.can = y.conn[c].can /\ k.did = y.conn[c].did /\ k.ever = y.conn[c].ever
        /\ k.messages = y.conn[c].messages /\ k.fits = y.conn[c].fits
    BY <1>3, <2>1 DEF ConnRecs
  <2> HIDE DEF k
  <2>4. Own(k, g)
    BY <1>3, <2>3 DEF Own, Draining, Owing, Turns, HasRoom, Ends
  <2> QED BY <2>2, <2>3, <2>4
<1>4. CASE g
  <2>1. /\ Core(y, g) /\ SettlesOthers(Now, y, c) /\ y.crash = Now.crash
        /\ Lonely(y) /\ y.conn[c].st = "gone" /\ y.conn[c].up = FALSE
        /\ y.conn[c].timer = FALSE
    BY <1>1, <1>4, ConnCloseCore
  <2> HIDE DEF y
  <2>2. y \in States /\ (y.conn[c].nomore => y.conn[c].pending) /\ Owing(y.conn[c])
    BY <2>1 DEF Core, Own, Turns
  <2>3. /\ z = [y EXCEPT !.conn[c] = k] /\ k \in ConnRecs /\ k.up = FALSE
        /\ k.st = "gone" /\ Own(k, g)
    BY <1>3, <2>1, <2>2
  <2> HIDE DEF k
  <2>4. /\ Core(z, g) /\ z.ckt = y.ckt /\ z.crash = y.crash /\ z.conn[c] = k
        /\ \A d \in Conns : z.conn[d] = IF d = c THEN k ELSE y.conn[d]
    BY <1>1, <2>1, <2>3, ConnChanged
  <2>5. Lonely(z)
    BY <2>1, <2>3, <2>4 DEF Lonely
  <2>6. AllSettled(z)
    BY <1>1, <2>1, <2>3, <2>4 DEF AllSettled, SettlesOthers, Settled
  <2> QED BY <1>1, <2>1, <2>4, <2>5, <2>6 DEF Fine, Causes, g, z
<1>5. CASE ~g
  <2>1. conn[c].up = FALSE /\ conn[c].timer = FALSE
    BY <1>1, <1>5 DEF Own, Ends, ConnRecs
  <2> DEFINE e == [Now EXCEPT !.conn[c].timer = FALSE]
  <2>2. e = Now
    BY <1>1, <2>1 DEF States, ConnRecs
  <2>3. y = [Now EXCEPT !.conn[c] = Gone(conn[c])]
    <3>1. Emancipate(Now, c) = Now
      BY <1>1, <2>1, <2>2 DEF Emancipate
    <3> QED BY <1>1, <3>1 DEF ConnClose, States
  <2>4. /\ Gone(conn[c]) \in ConnRecs /\ Gone(conn[c]).st = "gone" /\ Gone(conn[c]).up = FALSE
        /\ Gone(conn[c]).timer = FALSE /\ Gone(conn[c]).nomore = conn[c].nomore
        /\ Gone(conn[c]).pending = conn[c].pending /\ Gone(conn[c]).can = conn[c].can
        /\ Gone(conn[c]).did = conn[c].did /\ Gone(conn[c]).ever = conn[c].ever
        /\ Gone(conn[c]).messages = conn[c].messages /\ Gone(conn[c]).fits = conn[c].fits
    BY ZenonT(60), <1>1 DEF Gone, ConnRecs
  <2> HIDE DEF y, e
  <2>5. /\ y \in States /\ y.ckt = Now.ckt /\ y.table = Now.table /\ y.crash = Now.crash
        /\ y.conn[c] = Gone(conn[c])
        /\ \A d \in Conns : y.conn[d] = IF d = c THEN Gone(conn[c]) ELSE Now.conn[d]
    BY <1>1, <2>3, <2>4, ConnPut
  <2>6. (y.conn[c].nomore => y.conn[c].pending) /\ Owing(y.conn[c])
    BY <1>1, <2>4, <2>5 DEF Own, Turns, Owing
  <2>7. /\ z = [y EXCEPT !.conn[c] = k] /\ k \in ConnRecs /\ k.up = FALSE
        /\ k.st = "gone" /\ Own(k, g)
    BY <1>3, <2>4, <2>5, <2>6
  <2> HIDE DEF k
  <2>8. z = [Now EXCEPT !.conn[c] = k]
    BY <1>1, <2>3, <2>7 DEF States
  <2>9. /\ Core(z, g) /\ z.ckt = Now.ckt /\ z.crash = Now.crash /\ z.conn[c] = k
        /\ \A d \in Conns : z.conn[d] = IF d = c THEN k ELSE Now.conn[d]
    <3>1. g \in BOOLEAN /\ Core(Now, g)
      BY <1>1
    <3>2. k \in ConnRecs /\ Own(k, g) /\ ~k.up
      BY <2>7
    <3> QED BY <2>8, <3>1, <3>2, ConnChanged
  <2>10. Lonely(z)
    BY <1>1, <2>1, <2>7, <2>9 DEF Lonely
  <2>11. AllSettled(z)
    BY <1>1, <2>7, <2>9 DEF AllSettled, Settled
  <2> QED BY <1>1, <2>9, <2>10, <2>11 DEF Fine, Causes, g, z
<1> QED BY <1>4, <1>5

\* What closing a connection leaves of the proxy's other side.
LEMMA FreeInKeeps ==
    ASSUME NEW g \in BOOLEAN, NEW x, Core(x, g), NEW c \in Conns
    PROVE  /\ FreeIn(x, c) \in States
           /\ FreeIn(x, c).conn[c].b_out_full = x.conn[c].b_out_full
<1> DEFINE z == Emancipate(x, c)
           e == [x.conn[c] EXCEPT !.timer = FALSE, !.up = FALSE]
           k == [Gone(e) EXCEPT !.proxied = "no"]
<1>1. x \in States /\ x.conn[c] \in ConnRecs
  BY StateParts DEF Core
<1>2. Core(z, g) /\ z.conn[c] = e
  BY ZenonT(60), EmancipateCore
<1>3. z \in States
  BY <1>2 DEF Core
<1>4. e \in ConnRecs /\ e.b_out_full = x.conn[c].b_out_full
  BY <1>1 DEF ConnRecs
<1> HIDE DEF z, e
<1>5. Gone(e) \in ConnRecs /\ Gone(e).b_out_full = e.b_out_full
  BY <1>4 DEF ConnRecs, Gone
<1>6. k \in ConnRecs /\ k.b_out_full = Gone(e).b_out_full
  BY <1>5 DEF ConnRecs
<1>7. FreeIn(x, c) = [z EXCEPT !.conn[c] = k]
  BY <1>2, <1>3 DEF FreeIn, ConnClose, States, z
<1> HIDE DEF k
<1> QED BY <1>3, <1>4, <1>5, <1>6, <1>7, ConnPut

\* To set a field to what it is changes nothing.
LEMMA FullStays ==
    ASSUME NEW x \in States, NEW c \in Conns, x.conn[c].b_out_full = TRUE
    PROVE  [x EXCEPT !.conn[c].b_out = "finishing", !.conn[c].b_out_full = TRUE]
              = [x EXCEPT !.conn[c].b_out = "finishing"]
<1> DEFINE k == [x.conn[c] EXCEPT !.b_out = "finishing", !.b_out_full = TRUE]
           m == [x.conn[c] EXCEPT !.b_out = "finishing"]
<1>1. x.conn[c] \in ConnRecs
  BY StateParts
<1>2. k = m
  BY <1>1 DEF ConnRecs
<1>3. [x EXCEPT !.conn[c].b_out = "finishing", !.conn[c].b_out_full = TRUE] = [x EXCEPT !.conn[c] = k]
  BY DEF States
<1>4. [x EXCEPT !.conn[c].b_out = "finishing"] = [x EXCEPT !.conn[c] = m]
  BY DEF States
<1> QED BY <1>2, <1>3, <1>4

LEMMA ProxyEndTurn ==
    ASSUME ConnInv, NEW c \in Conns, ProxyEnd(c)
    PROVE  Onward
<1> DEFINE x == FreeIn(Now, c)
           put(b, full) == [x EXCEPT !.conn[c].b_out = b, !.conn[c].b_out_full = full]
           g == Excused
<1>1. /\ Alive /\ conn[c].st = "open"
      /\ Callback(IF conn[c].b_out # "linked" THEN x
                  ELSE IF conn[c].b_out_full THEN [x EXCEPT !.conn[c].b_out = "finishing"]
                  ELSE FreeOut(x, c))
  BY DEF ProxyEnd
<1>2. /\ Now \in States /\ Now.conn = conn /\ conn[c] \in ConnRecs /\ stopping # "forced"
      /\ g \in BOOLEAN /\ Core(Now, g) /\ Lonely(Now) /\ AllSettled(Now) /\ Now.crash = "no"
  BY <1>1, Before
<1>3. PICK f \in BOOLEAN : ~f
  OBVIOUS
<1>4. CASE conn[c].b_out # "linked"
  <2>1. OthersSettled(Now, c) /\ Now.conn[c].b_out # "linked"
    BY <1>2, <1>4 DEF AllSettled, OthersSettled
  <2> HIDE DEF g
  <2>2. Fine(x, g, f)
    BY <1>2, <2>1, FreeInFine
  <2>3. Fine(x, Excused, f) /\ Callback(x)
    BY <1>1, <1>4, <2>2 DEF g
  <2> HIDE DEF x
  <2> QED BY <1>2, <1>3, <2>3, CalmTurn
<1>5. CASE conn[c].b_out = "linked" /\ conn[c].b_out_full
  <2>1. PICK b \in {"finishing", "gone"} : b = "finishing"
    OBVIOUS
  <2>2. PICK full \in BOOLEAN : full = TRUE
    OBVIOUS
  <2>3. Fine(put(b, full), Excused, f)
    BY <1>1, <1>5, <2>1, <2>2, FreeBothFine
  <2> HIDE DEF g
  <2>4. x \in States /\ x.conn[c].b_out_full = TRUE
    BY <1>2, <1>5, FreeInKeeps DEF ConnRecs
  <2> HIDE DEF x
  <2>5. put(b, full) = [x EXCEPT !.conn[c].b_out = "finishing"]
    <3>1. put(b, full) = [x EXCEPT !.conn[c].b_out = "finishing", !.conn[c].b_out_full = TRUE]
      BY <2>1, <2>2
    <3> HIDE DEF put
    <3> QED BY <2>4, <3>1, FullStays
  <2>6. Callback(put(b, full))
    BY <1>1, <1>5, <2>5
  <2> HIDE DEF put
  <2> QED BY <1>2, <1>3, <2>3, <2>6, CalmTurn
<1>6. CASE conn[c].b_out = "linked" /\ ~conn[c].b_out_full
  <2>1. PICK b \in {"finishing", "gone"} : b = "gone"
    OBVIOUS
  <2>2. PICK full \in BOOLEAN : full = FALSE
    OBVIOUS
  <2>3. Fine(put(b, full), Excused, f)
    BY <1>1, <1>6, <2>1, <2>2, FreeBothFine
  <2>4. put(b, full) = FreeOut(x, c)
    BY <2>1, <2>2 DEF FreeOut
  <2>5. Callback(put(b, full))
    BY <1>1, <1>6, <2>4
  <2> HIDE DEF put
  <2> QED BY <1>2, <1>3, <2>3, <2>5, CalmTurn
<1> QED BY <1>4, <1>5, <1>6

LEMMA ProxyFlushTurn ==
    ASSUME ConnInv, NEW c \in Conns, ProxyFlush(c)
    PROVE  Onward
<1> DEFINE x == [Now EXCEPT !.conn[c].out = FALSE, !.conn[c].b_choked = FALSE]
           k == [conn[c] EXCEPT !.out = FALSE, !.b_choked = FALSE]
           g == Excused
<1>1. /\ Alive /\ conn[c].st = "open" /\ conn[c].proxied # "no"
      /\ Callback(IF conn[c].proxied = "finishing" THEN FreeIn(Now, c) ELSE x)
  BY DEF ProxyFlush
<1>2. /\ Now \in States /\ Now.conn = conn /\ conn[c] \in ConnRecs /\ Own(conn[c], Excused)
      /\ stopping # "forced" /\ g \in BOOLEAN /\ Core(Now, g) /\ Lonely(Now)
      /\ AllSettled(Now) /\ Now.crash = "no"
  BY <1>1, Before
<1>3. CASE conn[c].proxied = "finishing"
  <2>1. OthersSettled(Now, c)
    BY <1>2 DEF AllSettled, OthersSettled
  <2>2. PICK f \in BOOLEAN : ~f
    OBVIOUS
  <2>3. Now.conn[c].b_out # "linked"
    BY <1>2, <1>3 DEF Own, Ends
  <2> HIDE DEF g
  <2>4. Fine(FreeIn(Now, c), g, f)
    BY <1>2, <2>1, <2>3, FreeInFine
  <2>5. Fine(FreeIn(Now, c), Excused, f)
    BY <2>4 DEF g
  <2>6. Callback(FreeIn(Now, c))
    BY <1>1, <1>3
  <2> QED BY <1>2, <2>2, <2>5, <2>6, CalmTurn
<1>4. CASE conn[c].proxied # "finishing"
  <2>1. /\ k \in ConnRecs /\ k.up = conn[c].up /\ k.can = conn[c].can /\ k.st = conn[c].st
        /\ k.proxied = conn[c].proxied /\ k.fits = conn[c].fits
    BY ZenonT(60), <1>2 DEF ConnRecs
  <2>2. Own(k, Excused)
    <3>1. /\ k.st = conn[c].st /\ k.up = conn[c].up /\ k.connected = conn[c].connected
          /\ k.hs = conn[c].hs /\ k.can = conn[c].can /\ k.did = conn[c].did
          /\ k.timer = conn[c].timer /\ k.out = FALSE /\ k.read_eof = conn[c].read_eof
          /\ k.write_eof = conn[c].write_eof /\ k.pending = conn[c].pending
          /\ k.ever = conn[c].ever /\ k.nomore = conn[c].nomore
          /\ k.peer_eof = conn[c].peer_eof /\ k.messages = conn[c].messages
          /\ k.proxied = conn[c].proxied /\ k.b_out = conn[c].b_out
          /\ k.b_out_full = conn[c].b_out_full /\ k.choked = conn[c].choked
          /\ k.b_choked = FALSE /\ k.fits = conn[c].fits
      BY <1>2 DEF ConnRecs
    <3> HIDE DEF k
    <3> QED BY <1>1, <1>2, <1>4, <3>1 DEF Own, Draining, Owing, Turns, HasRoom, Ends
  <2>3. x = [Now EXCEPT !.conn[c] = k]
    BY <1>2 DEF States
  <2>4. Settled(k, ckt.sent_fin)
    BY <1>1, <2>1 DEF Settled
  <2> HIDE DEF k, x
  <2>5. /\ Core(x, Excused) /\ Lonely(x) /\ AllSettled(x) /\ x.crash = "no" /\ Emptied(x)
    BY <1>1, <2>1, <2>2, <2>3, <2>4, PutFine
  <2> QED BY <1>1, <1>4, <2>5, PutTurn
<1> QED BY <1>3, <1>4

LEMMA ProxyCoverEndTurn ==
    ASSUME ConnInv, NEW c \in Conns, ProxyCoverEnd(c)
    PROVE  Onward
<1> DEFINE y == [FreeOut(Now, c) EXCEPT !.conn[c].proxied = "finishing"]
           z == FreeOut(FreeIn(Now, c), c)
           w == FreeOut(Now, c)
           m == [conn[c] EXCEPT !.b_out = "gone", !.b_out_full = FALSE]
           k == [conn[c] EXCEPT !.b_out = "gone", !.b_out_full = FALSE, !.proxied = "finishing"]
<1>1. /\ Alive /\ conn[c].b_out \in {"linked", "finishing"}
      /\ Callback(IF conn[c].b_out = "finishing" THEN w
                  ELSE IF Dangling(c) THEN Crashed(Now, "dangling")
                  ELSE IF conn[c].out THEN y ELSE z)
  BY DEF ProxyCoverEnd
<1>2. /\ Now \in States /\ Now.conn = conn /\ conn[c] \in ConnRecs /\ Own(conn[c], Excused)
      /\ Now.crash = "no" /\ Core(Now, Excused)
  BY <1>1, Before
<1> HIDE DEF w
<1>6. CASE conn[c].b_out = "finishing"
  <2>1. /\ m \in ConnRecs /\ m.up = conn[c].up /\ m.can = conn[c].can /\ m.st = conn[c].st
        /\ m.fits = conn[c].fits
        /\ Settled(conn[c], ckt.sent_fin) => Settled(m, ckt.sent_fin)
    BY ZenonT(60), <1>2 DEF ConnRecs, Settled
  <2>2. Own(m, Excused)
    <3>1. /\ m.st = conn[c].st /\ m.up = conn[c].up /\ m.connected = conn[c].connected
          /\ m.hs = conn[c].hs /\ m.can = conn[c].can /\ m.did = conn[c].did
          /\ m.timer = conn[c].timer /\ m.out = conn[c].out
          /\ m.read_eof = conn[c].read_eof /\ m.write_eof = conn[c].write_eof
          /\ m.pending = conn[c].pending /\ m.ever = conn[c].ever
          /\ m.nomore = conn[c].nomore /\ m.peer_eof = conn[c].peer_eof
          /\ m.messages = conn[c].messages /\ m.proxied = conn[c].proxied
          /\ m.b_out = "gone" /\ m.b_out_full = FALSE /\ m.choked = conn[c].choked
          /\ m.b_choked = conn[c].b_choked /\ m.fits = conn[c].fits
      BY <1>2 DEF ConnRecs
    <3> HIDE DEF m
    <3> QED BY <1>2, <1>6, <3>1 DEF Own, Draining, Owing, Turns, HasRoom, Ends
  <2>3. w = [Now EXCEPT !.conn[c] = m]
    BY ZenonT(60), <1>2 DEF States, FreeOut, w
  <2> HIDE DEF m
  <2>4. /\ Core(w, Excused) /\ Lonely(w) /\ AllSettled(w) /\ w.crash = "no" /\ Emptied(w)
    BY <1>1, <2>1, <2>2, <2>3, PutFine
  <2> QED BY <1>1, <1>6, <2>4, PutTurn
<1>3. CASE conn[c].b_out = "linked" /\ Dangling(c)
  <2>1. Kept(Now) /\ \A d \in Conns : Draining(Now.conn[d])
    BY <1>2 DEF Core, Own
  <2>2. Callback(Crashed(Now, "dangling"))
    BY <1>1, <1>3
  <2> QED BY <1>1, <1>2, <1>3, <2>1, <2>2, DanglingTurn
<1>4. CASE conn[c].b_out = "linked" /\ ~Dangling(c) /\ conn[c].out
  <2>1. /\ k \in ConnRecs /\ k.up = conn[c].up /\ k.can = conn[c].can /\ k.st = conn[c].st
        /\ k.proxied = "finishing" /\ k.fits = conn[c].fits
    BY ZenonT(60), <1>2 DEF ConnRecs
  <2>2. Own(k, Excused)
    <3>1. /\ k.st = conn[c].st /\ k.up = conn[c].up /\ k.connected = conn[c].connected
          /\ k.hs = conn[c].hs /\ k.can = conn[c].can /\ k.did = conn[c].did
          /\ k.timer = conn[c].timer /\ k.out = conn[c].out
          /\ k.read_eof = conn[c].read_eof /\ k.write_eof = conn[c].write_eof
          /\ k.pending = conn[c].pending /\ k.ever = conn[c].ever
          /\ k.nomore = conn[c].nomore /\ k.peer_eof = conn[c].peer_eof
          /\ k.messages = conn[c].messages /\ k.proxied = "finishing" /\ k.b_out = "gone"
          /\ k.b_out_full = FALSE /\ k.choked = conn[c].choked
          /\ k.b_choked = conn[c].b_choked /\ k.fits = conn[c].fits
      BY <1>2 DEF ConnRecs
    <3> HIDE DEF k
    <3> QED BY <1>2, <1>4, <3>1 DEF Own, Draining, Owing, Turns, HasRoom, Ends
  <2>3. y = [Now EXCEPT !.conn[c] = k]
    BY <1>2 DEF States, FreeOut
  <2>4. Settled(k, ckt.sent_fin)
    BY <2>1 DEF Settled
  <2> HIDE DEF k, y
  <2>5. /\ Core(y, Excused) /\ Lonely(y) /\ AllSettled(y) /\ y.crash = "no" /\ Emptied(y)
    BY <1>1, <2>1, <2>2, <2>3, <2>4, PutFine
  <2>6. Callback(y)
    BY <1>1, <1>4
  <2> QED BY <1>1, <2>5, <2>6, PutTurn
<1>5. CASE conn[c].b_out = "linked" /\ ~Dangling(c) /\ ~conn[c].out
  <2>1. PICK f \in BOOLEAN : ~f
    OBVIOUS
  <2>2. Fine(z, Excused, f)
    <3>1. PICK b \in {"finishing", "gone"} : b = "gone"
      OBVIOUS
    <3>2. PICK full \in BOOLEAN : full = FALSE
      OBVIOUS
    <3>3. z = [FreeIn(Now, c) EXCEPT !.conn[c].b_out = b, !.conn[c].b_out_full = full]
      BY <3>1, <3>2 DEF FreeOut
    <3> HIDE DEF z
    <3> QED BY <1>1, <1>5, <3>1, <3>2, <3>3, FreeBothFine
  <2>3. Callback(z)
    BY <1>1, <1>5
  <2> HIDE DEF z
  <2>4. conn[c].st = "open"
    BY <1>1, <1>2, <1>5 DEF Dangling, ConnRecs, Own, Ends
  <2>5. stopping # "forced"
    BY <1>1, <2>4, Before
  <2> QED BY <2>1, <2>2, <2>3, <2>5, CalmTurn
<1> QED BY <1>1, <1>3, <1>4, <1>5, <1>6

-----------------------------------------------------------------------------
(* Covers, shutdown, the initial state, and the theorems.                  *)

LEMMA CoversRunOutTurn ==
    ASSUME ConnInv, CoversRunOut
    PROVE  Onward
<1>1. Alive /\ ~Client
  BY DEF CoversRunOut
<1>2. PICK S \in SUBSET Conns \ {{}} :
        Faulty("covers", [Now EXCEPT !.conn = [c \in Conns |->
              [conn[c] EXCEPT !.fits = conn[c].fits /\ c \notin S]]])
  BY DEF CoversRunOut
<1> DEFINE f == [c \in Conns |-> [conn[c] EXCEPT !.fits = conn[c].fits /\ c \notin S]]
           y == [Now EXCEPT !.conn = f]
           g == Excused
<1>3. /\ Now \in States /\ Now.conn = conn /\ Now.ckt = ckt /\ Now.table = table
      /\ Now.crash = "no" /\ Core(Now, g) /\ Lonely(Now) /\ AllSettled(Now) /\ SetupOK
      /\ \A c \in Conns : conn[c] \in ConnRecs /\ Own(conn[c], g)
  BY <1>1, Before
<1>4. y = [Now EXCEPT !.conn = f] /\ Faulty("covers", y)
  BY <1>2
<1>5. \A c \in Conns :
         LET k == f[c]
         IN  /\ k \in ConnRecs
             /\ k.st = conn[c].st /\ k.up = conn[c].up /\ k.connected = conn[c].connected
             /\ k.hs = conn[c].hs /\ k.can = conn[c].can /\ k.did = conn[c].did
             /\ k.timer = conn[c].timer /\ k.out = conn[c].out
             /\ k.read_eof = conn[c].read_eof /\ k.write_eof = conn[c].write_eof
             /\ k.pending = conn[c].pending /\ k.ever = conn[c].ever
             /\ k.nomore = conn[c].nomore /\ k.peer_eof = conn[c].peer_eof
             /\ k.messages = conn[c].messages /\ k.proxied = conn[c].proxied
             /\ k.b_out = conn[c].b_out /\ k.b_out_full = conn[c].b_out_full
             /\ k.choked = conn[c].choked /\ k.b_choked = conn[c].b_choked
             /\ k.fits => conn[c].fits
  <2> TAKE c \in Conns
  <2>1. conn[c] \in ConnRecs /\ f[c] = [conn[c] EXCEPT !.fits = conn[c].fits /\ c \notin S]
    BY <1>3
  <2>2. PICK b \in BOOLEAN : b = (conn[c].fits /\ c \notin S)
    OBVIOUS
  <2>3. f[c] = [conn[c] EXCEPT !.fits = b] /\ (b => conn[c].fits)
    BY <2>1, <2>2
  <2> HIDE DEF f
  <2> QED BY <2>1, <2>3 DEF ConnRecs
<1>6. f \in [Conns -> ConnRecs]
  BY <1>5
<1> HIDE DEF f
<1>7. /\ y \in States /\ y.conn = f /\ y.ckt = ckt /\ y.table = table /\ y.crash = "no"
  BY <1>3, <1>4, <1>6 DEF States
<1>8. /\ conn' = f /\ ckt' = ckt /\ table' = table /\ crash' = "no" /\ setup' = setup
      /\ stopping' = stopping /\ faults' = faults \cup {"covers"}
  <2> HIDE DEF y
  <2> QED BY <1>4, <1>7 DEF Faulty, Became
<1> HIDE DEF y
<1>9. Now' = [conn |-> f, ckt |-> ckt, table |-> table, crash |-> "no"]
  BY <1>8 DEF Now
<1>10. /\ Now'.conn = f /\ Now'.ckt = ckt /\ Now'.table = table /\ Now'.crash = "no"
       /\ Now' \in States
  BY <1>3, <1>6, <1>9 DEF States
<1>11. Registered(Now) /\ Finished(Now) /\ AxeHangs(Now) /\ Kept(Now) /\ Emptied(Now)
  BY <1>1, <1>3 DEF Core, ConnInv
<1>12. \A c \in Conns : Own(Now.conn[c], Excused)'
  <2> TAKE c \in Conns
  <2>1. Own(conn[c], g) /\ (g => Excused') /\ "covers" \in faults'
    BY <1>3, <1>8 DEF Excused
  <2>2. Draining(Now.conn[c])'
    BY <1>5, <1>10, <2>1 DEF Own, Draining
  <2>3. Owing(Now.conn[c])'
    BY <1>5, <1>8, <1>10, <2>1 DEF Own, Owing, Client
  <2>4. Turns(Now.conn[c])'
    BY <1>1, <1>5, <1>8, <1>10, <2>1 DEF Own, Turns, TurnTaking, Client
  <2>5. Ends(Now.conn[c], Excused)'
    BY <1>5, <1>8, <1>10, <2>1 DEF Own, Ends, Client
  <2> QED BY <2>2, <2>3, <2>4, <2>5 DEF Own
<1>13. /\ \A c \in Conns : (Now.conn[c].up => Now.ckt.st = "open")'
       /\ Registered(Now)' /\ Finished(Now)' /\ Kept(Now)'
  BY <1>3, <1>5, <1>8, <1>10, <1>11 DEF Core, Registered, Finished, Kept
<1>14. AxeHangs(Now)'
  BY <1>1, <1>3, <1>5, <1>8, <1>10, <1>11 DEF AxeHangs, HasRoom, TurnTaking, Client
<1>15. Core(Now, Excused)'
  BY <1>10, <1>12, <1>13, <1>14 DEF Core
<1>16. Lonely(Now)' /\ AllSettled(Now)' /\ Emptied(Now)'
  BY <1>3, <1>5, <1>8, <1>10, <1>11 DEF Lonely, AllSettled, Settled, Emptied, Client
<1>17. ChokedWillDrain'
  BY <1>8, <1>10, <1>12 DEF ChokedWillDrain, Own, Draining
<1>18. CrashHasCause' /\ SetupOK' /\ (stopping \in {"no", "graceful", "forced"})'
  BY <1>3, <1>8 DEF CrashHasCause, SetupOK, ConnInv
<1> QED BY <1>8, <1>10, <1>15, <1>16, <1>17, <1>18 DEF Onward, ConnInv

LEMMA ShutdownTurn ==
    ASSUME ConnInv, NEW how \in {"graceful", "forced"}, Shutdown(how)
    PROVE  Onward
<1> DEFINE x == IF ckt.st = "open" THEN CktClose(Now) ELSE Now
           gone == [c \in Conns |-> IF x.conn[c].st = "open" THEN Gone(x.conn[c]) ELSE x.conn[c]]
           all == [x EXCEPT !.conn = [c \in Conns |->
                      IF @[c].st = "open" THEN Gone(@[c]) ELSE @[c]]]
<1>1. /\ Alive /\ faults' = faults \cup {how} /\ stopping' = how /\ setup' = setup
      /\ LET y == IF how = "forced" THEN all ELSE Now
         IN  conn' = y.conn /\ ckt' = y.ckt /\ table' = y.table /\ crash' = y.crash
      /\ stopping = "no"
  BY DEF Shutdown
<1>2. /\ Core(Now, Excused) /\ Lonely(Now) /\ AllSettled(Now) /\ Now.crash = "no"
      /\ Now.ckt = ckt /\ SetupOK /\ Excused \in BOOLEAN
  BY <1>1, Before
<1>3. stopping' \in {"no", "graceful", "forced"}
  BY <1>1
<1> HIDE DEF all, x, gone
<1>4. CASE how = "graceful"
  <2>1. conn' = Now.conn /\ ckt' = Now.ckt /\ table' = Now.table /\ crash' = Now.crash
    BY <1>1, <1>4
  <2>2. Excused => Excused'
    BY <1>1 DEF Excused
  <2>3. stopping' # "forced"
    BY <1>1, <1>4
  <2> DEFINE g == Excused
  <2>4. g \in BOOLEAN /\ Core(Now, g) /\ (g => Excused')
    BY <1>2, <2>2
  <2> HIDE DEF g
  <2> QED BY <1>1, <1>2, <1>3, <2>1, <2>3, <2>4, Landed
<1>5. CASE how = "forced"
  <2>1. PICK g \in BOOLEAN : g
    OBVIOUS
  <2>2. Core(Now, g)
    BY <1>2, <2>1, Weakened
  <2>3. Core(x, g) /\ x.ckt.st # "open" /\ x.crash = "no"
    <3>1. CASE ckt.st = "open"
      <4>1. x = CktClose(Now)
        BY <3>1 DEF x
      <4>2. Core(CktClose(Now), g) /\ CktClose(Now).ckt.st = "gone"
            /\ CktClose(Now).crash = Now.crash
        BY <1>2, <2>2, <3>1, CktCloseCore
      <4> QED BY <1>2, <4>1, <4>2
    <3>2. CASE ckt.st # "open"
      BY <1>2, <2>2, <3>2 DEF x
    <3> QED BY <3>1, <3>2
  <2>4. x \in States /\ \A c \in Conns : x.conn[c] \in ConnRecs /\ Own(x.conn[c], g)
                                         /\ ~x.conn[c].up
    BY <2>3, StateParts DEF Core
  <2>5. \A c \in Conns : /\ gone[c] \in ConnRecs /\ Own(gone[c], g) /\ ~gone[c].up
                         /\ gone[c].st # "open"
    <3> TAKE c \in Conns
    <3>1. CASE x.conn[c].st = "open"
      <4>1. gone[c] = Gone(x.conn[c])
        BY <3>1 DEF gone
      <4>2. /\ Gone(x.conn[c]) \in ConnRecs /\ Own(Gone(x.conn[c]), g)
            /\ Gone(x.conn[c]).st = "gone" /\ Gone(x.conn[c]).up = FALSE
        BY <2>1, <2>4, GoneOwn
      <4> QED BY <4>1, <4>2
    <3>2. CASE x.conn[c].st # "open"
      BY <2>4, <3>2 DEF gone
    <3> QED BY <3>1, <3>2
  <2>6. all = [x EXCEPT !.conn = gone]
    BY <2>4 DEF all, gone, States
  <2>7. gone \in [Conns -> ConnRecs]
    BY <2>5 DEF gone
  <2>8. /\ all \in States /\ all.conn = gone /\ all.ckt = x.ckt /\ all.table = x.table
        /\ all.crash = "no"
    BY <2>3, <2>4, <2>6, <2>7 DEF States
  <2>9. Core(all, g)
    BY <2>3, <2>5, <2>8 DEF Core, Registered, Finished, AxeHangs, Kept
  <2>10. Lonely(all)
    BY <2>3, <2>8 DEF Lonely
  <2>11. AllSettled(all)
    BY <2>5, <2>8 DEF AllSettled, Settled
  <2>12. all.ckt.st # "open" /\ \A c \in Conns : all.conn[c].st # "open"
    BY <2>3, <2>5, <2>8
  <2>13. g => Excused'
    BY <1>1, <1>5 DEF Excused
  <2>14. conn' = all.conn /\ ckt' = all.ckt /\ table' = all.table /\ crash' = all.crash
    BY <1>1, <1>5
  <2> QED BY <1>1, <1>2, <1>3, <2>8, <2>9, <2>10, <2>11, <2>12, <2>13, <2>14, Landed
<1> QED BY <1>4, <1>5

LEMMA InitConn == Init => ConnInv
<1> SUFFICES ASSUME Init PROVE ConnInv
  OBVIOUS
<1> DEFINE k == [NoConn EXCEPT !.st = "open", !.up = TRUE, !.can = TurnTaking]
           g == Excused
<1>1. g \in BOOLEAN
  BY DEF Excused
<1>2. PICK c \in Conns : conn = [d \in Conns |-> IF Client /\ d = c THEN k ELSE NoConn]
  BY DEF Init
<1>3. /\ setup \in [role : Roles, steg : Stegs, proxy : Proxy]
      /\ ckt = IF Client THEN [NoCkt EXCEPT !.st = "open", !.up = "connected"] ELSE NoCkt
      /\ table = IF Client THEN "ckt" ELSE "absent"
      /\ crash = "no" /\ stopping = "no" /\ faults = {}
  BY DEF Init
<1>4. SetupOK
  BY <1>3, ConnAssumption DEF SetupOK
<1> HIDE DEF k, g
<1>5. Client => k \in ConnRecs /\ Own(k, g) /\ k.up = TRUE /\ k.st = "open"
  BY <1>1, FreshConn DEF k
<1>6. Client => k.ever = FALSE
  <2>1. k.ever = NoConn.ever
    BY DEF k, NoConn
  <2> QED BY <2>1 DEF NoConn
<1>7. /\ NoConn \in ConnRecs /\ NoConn.st = "none" /\ NoConn.up = FALSE /\ NoConn.timer = FALSE
      /\ NoConn.nomore = FALSE /\ NoConn.proxied = "no" /\ NoConn.b_out = "none"
      /\ NoConn.can = FALSE /\ NoConn.did = FALSE /\ NoConn.ever = FALSE /\ NoConn.fits = TRUE
  BY DEF NoConn, ConnRecs
<1>8. Own(NoConn, g)
  BY <1>7 DEF Own, Draining, Owing, Turns, Ends
<1>9. \A d \in Conns : conn[d] \in ConnRecs /\ Own(conn[d], g) /\ (conn[d].up => Client)
                       /\ \A s : Settled(conn[d], s)
  <2> TAKE d \in Conns
  <2>1. CASE Client /\ d = c
    BY <1>2, <1>5, <1>6, <2>1 DEF Settled
  <2>2. CASE ~(Client /\ d = c)
    BY <1>2, <1>7, <1>8, <2>2 DEF Settled
  <2> QED BY <2>1, <2>2
<1>10. Client => conn[c].up
  BY <1>2, <1>5
<1>11. /\ ckt \in CktRecs /\ ckt.sent_fin = FALSE /\ ckt.received_fin = FALSE
       /\ ckt.pending = FALSE /\ ckt.write_eof = FALSE /\ ckt.flush = FALSE /\ ckt.axe = FALSE
       /\ ckt.st = IF Client THEN "open" ELSE "none"
  <2>1. CASE Client
    <3>1. ckt = [NoCkt EXCEPT !.st = "open", !.up = "connected"]
      BY <1>3, <2>1
    <3> QED BY <2>1, <3>1 DEF NoCkt, CktRecs
  <2>2. CASE ~Client
    <3>1. ckt = NoCkt
      BY <1>3, <2>2
    <3> QED BY <2>2, <3>1 DEF NoCkt, CktRecs
  <2> QED BY <2>1, <2>2
<1>12. conn \in [Conns -> ConnRecs]
  BY <1>2, <1>9
<1>13. Now \in States /\ Now.conn = conn /\ Now.ckt = ckt /\ Now.table = table
  BY <1>3, <1>11, <1>12 DEF Now, States, CrashKinds
<1>14. Registered(Now) /\ Finished(Now) /\ AxeHangs(Now) /\ Kept(Now)
  BY <1>3, <1>11, <1>13 DEF Registered, Finished, AxeHangs, Kept
<1>15. Core(Now, g)
  BY <1>9, <1>11, <1>13, <1>14 DEF Core
<1>16. Lonely(Now)
  BY <1>10, <1>11, <1>13 DEF Lonely
<1>17. AllSettled(Now)
  BY <1>9, <1>13 DEF AllSettled
<1>18. ChokedWillDrain
  BY <1>9 DEF ChokedWillDrain, Own, Draining
<1>19. CrashHasCause
  BY <1>3 DEF CrashHasCause
<1>20. Emptied(Now)
  BY <1>3 DEF Emptied
<1> QED BY <1>3, <1>4, <1>13, <1>15, <1>16, <1>17, <1>18, <1>19, <1>20 DEF ConnInv, g

LEMMA NextOnward ==
    ASSUME ConnInv, Next
    PROVE  Onward
<1>1. ASSUME NEW c \in Conns, ConnStep(c) PROVE Onward
  BY <1>1, AcceptTurn, ConnectTurn, ErrorTurn, FlushTurn, MustSendTurn, RecvTurn,
     RecvGarbageTurn, RecvOpenFailsTurn, RecvEofTurn DEF ConnStep
<1>2. ASSUME NEW c \in Conns, ProxyStep(c) PROVE Onward
  BY <1>2, ProxyReadTurn, ProxyDrainedTurn, ProxyReplyTurn, ProxyEndTurn,
     ProxyCoverEndTurn, ProxyFlushTurn DEF ProxyStep
<1>3. ASSUME NEW how \in {"graceful", "forced"}, Shutdown(how) PROVE Onward
  BY <1>3, ShutdownTurn
<1> QED BY <1>1, <1>2, <1>3, UpReadTurn, UpEofTurn, UpConnectTurn, UpErrorTurn, UpFlushTurn,
           FlushTimerTurn, AxeTimerTurn, CoversRunOutTurn DEF Next

LEMMA StutterConn ==
    ASSUME ConnInv, UNCHANGED vars
    PROVE  Onward
<1>1. /\ conn' = conn /\ ckt' = ckt /\ table' = table /\ crash' = crash /\ setup' = setup
      /\ stopping' = stopping /\ faults' = faults
  BY DEF vars
<1>2. Now' = Now
  BY <1>1 DEF Now
<1>3. /\ (Now \in States)' /\ SetupOK' /\ (stopping \in {"no", "graceful", "forced"})'
      /\ ChokedWillDrain' /\ CrashHasCause'
  BY <1>1, <1>2 DEF ConnInv, SetupOK, ChokedWillDrain, CrashHasCause, Client
<1>4. CASE crash # "no"
  BY <1>1, <1>3, <1>4 DEF Onward, ConnInv, Alive
<1>5. CASE crash = "no"
  <2> DEFINE g == Excused
  <2>1. /\ g \in BOOLEAN /\ Core(Now, g) /\ Lonely(Now) /\ AllSettled(Now) /\ Emptied(Now)
        /\ Now.conn = conn /\ Now.ckt = ckt /\ Now.table = table /\ Now.crash = crash
        /\ SetupOK /\ stopping \in {"no", "graceful", "forced"}
    BY <1>5 DEF ConnInv, Alive, Excused, Now
  <2>2. g => Excused'
    BY <1>1 DEF Excused
  <2>3. stopping' = "forced" => Now.ckt.st # "open" /\ \A c \in Conns : Now.conn[c].st # "open"
    BY <1>1, <2>1 DEF Emptied
  <2>4. stopping' \in {"no", "graceful", "forced"} /\ Now.crash = "no"
    BY <1>1, <1>5, <2>1
  <2> HIDE DEF g
  <2> QED BY <1>1, <2>1, <2>2, <2>3, <2>4, Landed
<1> QED BY <1>4, <1>5

LEMMA ConnInvariance == Spec => []ConnInv
<1>1. ConnInv /\ [Next]_vars => ConnInv'
  BY NextOnward, StutterConn DEF Onward
<1> QED BY InitConn, <1>1, PTL DEF Spec

\* Every close path of chop.cc unlinks a connection and its circuit both ways
\* before the deferred deletion: neither is left with a pointer to the other.
THEOREM LinksAreMutual == Spec => []LinkedBothWays
<1>1. ConnInv => LinkedBothWays
  <2> SUFFICES ASSUME ConnInv, Alive, NEW c \in Conns, conn[c].up
               PROVE  conn[c].st = "open" /\ ckt.st = "open" /\ table = "ckt"
    BY DEF LinkedBothWays
  <2>1. Core(Now, Excused) /\ Own(conn[c], Excused) /\ Now.conn = conn /\ Now.ckt = ckt
        /\ Now.table = table
    BY Before
  <2> QED BY <2>1 DEF Core, Registered, Own, Ends
<1> QED BY <1>1, ConnInvariance, PTL

\* A circuit that lost its last connection has the timer that will send on it
\* or close it (drop_downstream, send, check_for_eof), or it only drains.
THEOREM LonelyCircuitsAreTimed == Spec => []LonelyCircuitTimed
<1>1. ConnInv => LonelyCircuitTimed
  <2> SUFFICES ASSUME ConnInv, Alive, ckt.st = "open", Downstreams(Now) = {}
               PROVE  \/ ckt.sent_fin /\ ckt.received_fin /\ ckt.pending
                      \/ IF Client THEN ckt.flush ELSE ckt.axe \/ ckt.axed
    BY DEF LonelyCircuitTimed
  <2>1. Lonely(Now) /\ Now.conn = conn /\ Now.ckt = ckt
    BY Before
  <2>2. \A c \in Conns : ~Now.conn[c].up
    BY DEF Downstreams
  <2> QED BY <2>1, <2>2 DEF Lonely
<1> QED BY <1>1, ConnInvariance, PTL

\* The axe timer of a server runs only while no connection of the circuit has
\* room for a block: send() arms it when pick_connection finds none, and
\* add_downstream, after which there may be one, disarms it.
THEOREM AxeSparesTheLinked == Spec => []AxeOnlyWithoutRoom
<1>1. ConnInv => AxeOnlyWithoutRoom
  <2> SUFFICES ASSUME ConnInv, Alive, ~Client, ckt.axe
               PROVE  \A c \in Downstreams(Now) : ~HasRoom(conn[c])
    BY DEF AxeOnlyWithoutRoom
  <2>1. Core(Now, Excused) /\ Now.conn = conn /\ Now.ckt = ckt
    BY Before
  <2> QED BY <2>1 DEF Core, AxeHangs, Downstreams
<1> QED BY <1>1, ConnInvariance, PTL

\* Whichever connection the proxy has stopped reading waits for output that is
\* there, in both directions and from the hand-over on, and so does one that is
\* only kept to finish its output.
THEOREM ChokedConnectionsDrain == Spec => []ChokedWillDrain
<1>1. ConnInv => ChokedWillDrain
  BY DEF ConnInv
<1> QED BY <1>1, ConnInvariance, PTL

\* Only a circuit that has sent its FIN leaves a finished connection open.
THEOREM OrphansFollowFin == Spec => []OrphansOnlyAfterFin
<1>1. ConnInv => OrphansOnlyAfterFin
  <2> SUFFICES ASSUME ConnInv, Alive, NEW c \in Conns, conn[c].st = "open", ~conn[c].up,
                      conn[c].proxied = "no", conn[c].peer_eof, conn[c].ever, ~conn[c].out
               PROVE  ckt.sent_fin
    BY DEF OrphansOnlyAfterFin
  <2>1. Own(conn[c], Excused) /\ AllSettled(Now) /\ Now.conn = conn /\ Now.ckt = ckt
    BY Before
  <2> QED BY <2>1 DEF Own, Ends, AllSettled, Settled
<1> QED BY <1>1, ConnInvariance, PTL

\* Each assertion the process can run into, and each freed pointer it can
\* follow, has its cause: a fault, a shutdown, the axe or an RST before data, or
\* a second request to an HTTP server.
THEOREM CrashesHaveCauses == Spec => []CrashHasCause
<1>1. ConnInv => CrashHasCause
  BY DEF ConnInv
<1> QED BY <1>1, ConnInvariance, PTL

\* A circuit once closed is never opened again: its id stays in the table.
THEOREM ClosedStaysClosed == Spec => NotRevived
<1>1. ConnInv /\ [Next]_vars => [ckt.st = "gone" => ckt'.st = "gone"]_vars
  BY NextOnward DEF Onward
<1> QED BY <1>1, ConnInvariance, PTL DEF Spec, NotRevived
=============================================================================
