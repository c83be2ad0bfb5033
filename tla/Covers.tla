------------------------------- MODULE Covers -------------------------------
(***************************************************************************)
(* How the HTTP server side hides a block in a cover document, and how the *)
(* client takes it out: FileStegMod (http_steg_mods/file_steg.cc), the two *)
(* payload servers (apache_payload_server.cc, trace_payload_server.cc) and *)
(* the LRU cache of fetched covers (payload_lru_cache.h).                  *)
(*                                                                         *)
(* http_server_transmit is one call that blocks in curl; it is cut at each *)
(* turn of its loops, the steps of `cur'.  A cover is known by its hash;   *)
(* what the cover server answers for it is a document: how its header and  *)
(* body are made and what the encoder of its type makes of it.  A block is *)
(* its length.                                                             *)
(***************************************************************************)
EXTENDS Integers, Sequences, FiniteSets, SequencesExt

CONSTANTS Conns,          \* HTTP connections, each one request and one reply
          Kinds,          \* payload servers configured: "apache", "trace"
          Types,          \* content types with a steg module
          Database,       \* server_list.txt: records hash, type, capacity, length
          Trace,          \* the trace file: records response, length, eligible, capacity, doc
          MinCapacity,    \* JS_, HTML_ and PDF_MIN_AVAIL_SIZE
          MaxMessage,     \* c_MAX_MSG_BUF_SIZE
          BufferSize,     \* HTTP_PAYLOAD_BUF_SIZE
          Noise,          \* noise2signal
          MinBlock,       \* the least a block needs
          CacheSize,      \* c_PAYLOAD_CACHE_ELEMENT_CAPACITY
          MaxSearch,      \* c_MAX_SEARCH_TRIES
          MaxFetch,       \* c_MAX_FETCH_TRIES
          MaxCandidates,  \* MAX_CANDIDATE_PAYLOADS
          Documents       \* what the cover server may answer

ASSUME CoversAssumption ==
    /\ Kinds \subseteq {"apache", "trace"}
    /\ {MinBlock, CacheSize, MaxSearch, MaxFetch, MaxCandidates} \subseteq Nat \ {0}
    /\ \A d \in Documents :
          /\ d.header \in {"none", "short", "long"}
          /\ d.has_length \in BOOLEAN /\ d.fits \in BOOLEAN
          /\ d.codec \in {"same", "resize", "refuse", "garble"}

VARIABLES kind,       \* which payload server
          debug,      \* whether the log level asks for the self-test
          corrupted,  \* hashes marked corrupted in the database
          max_capacity,  \* type_detail[t].max_capacity
          tracker,    \* _key_tracker, most recent last
          cached,     \* _key_to_value
          cur,        \* the running http_server_transmit
          conn,       \* conn[c]
          status      \* "up", or why the server process died

vars == <<kind, debug, corrupted, max_capacity, tracker, cached, cur, conn, status>>

-----------------------------------------------------------------------------
(* The payload database.                                                   *)

Apache == kind = "apache"
Largest(S) == CHOOSE x \in S \cup {0} : \A y \in S : y <= x

Hashes == {Database[i].hash : i \in DOMAIN Database}

(* The scraper that writes server_list.txt looks for covers of the types   *)
(* it has steg modules for; capacity and length are unsigned.              *)
ASSUME DatabaseAssumption ==
    Database \in Seq([hash : Hashes, type : Types, capacity : Nat, length : Nat])

(* map::insert keeps the first record of a hash.                           *)
Payload(h) == Database[SelectInSeq(Database, LAMBDA r : r.hash = h)]

(* sorted_payloads: every record, the shortest cover first.                *)
SortedPayloads ==
    LET shorter(i, j) == \/ Database[i].length < Database[j].length
                         \/ Database[i].length = Database[j].length /\ i < j
        order == SetToSortSeq(DOMAIN Database, shorter)
    IN  [n \in DOMAIN order |-> Database[order[n]].hash]

LoadDatabase(t) ==
    Largest({Database[i].capacity :
               i \in {j \in DOMAIN Database : Database[j].type = t}})

(* The trace server's pools: the recorded responses of a type, each with   *)
(* the capacity it is entered with.                                        *)
TracePool(t, keep(_), capacity(_)) ==
    LET ids == SelectSeq([i \in DOMAIN Trace |-> i],
                 LAMBDA i : /\ Trace[i].response /\ Trace[i].length <= BufferSize
                            /\ t \in Trace[i].eligible /\ keep(i))
    IN  [n \in DOMAIN ids |-> [cover |-> ids[n], capacity |-> capacity(ids[n])]]

Roomy(i) == Trace[i].capacity > MinCapacity
Whole(i) == Trace[i].capacity

InitJsPool == TracePool("js", Roomy, Whole)
InitHtmlPool == TracePool("html", Roomy, Whole)
InitPdfPool == TracePool("pdf", Roomy, LAMBDA i : (Trace[i].capacity - 2) \div 2)
InitSwfPool == TracePool("swf", LAMBDA i : TRUE, LAMBDA i : MaxMessage)

Pool(t) == CASE t = "js" -> InitJsPool
             [] t = "html" -> InitHtmlPool
             [] t = "pdf" -> InitPdfPool
             [] t = "swf" -> InitSwfPool
             [] OTHER -> << >>

LoadTrace(t) ==
    IF t = "swf" THEN MaxMessage ELSE Largest({p.capacity : p \in ToSet(Pool(t))})

(* transmit_room is asked, and the block made, in the call that transmits. *)
NoConn == [type |-> "none", state |-> "new", drained |-> 0, reply |-> "none",
           carries |-> 0, has_length |-> FALSE, garbled |-> FALSE,
           arrived |-> "nothing", result |-> "none", got |-> 0]

Idle == [pc |-> "idle"]
EmptyDoc == [header |-> "none", has_length |-> FALSE, fits |-> TRUE, codec |-> "none"]

Init ==
    /\ kind \in Kinds
    /\ debug \in BOOLEAN
    /\ corrupted = {}
    /\ max_capacity = [t \in Types |-> IF Apache THEN LoadDatabase(t) ELSE LoadTrace(t)]
    /\ tracker = << >>
    /\ cached = << >>
    /\ cur = Idle
    /\ conn = [c \in Conns |-> NoConn]
    /\ status = "up"

-----------------------------------------------------------------------------
(* The cache.                                                              *)

Forget(f, k) == [x \in DOMAIN f \ {k} |-> f[x]]

(* Mutant: drop forgets the tracker.                                       *)
DropKeepsKey(k) ==
    /\ cached' = Forget(cached, k)
    /\ UNCHANGED tracker

Drop(k) ==
    /\ cached' = Forget(cached, k)
    /\ tracker' = RemoveFirst(tracker, k)

(* insert evicts the least recently used key of a full cache.              *)
Insert(k, doc) ==
    LET full == Cardinality(DOMAIN cached) = CacheSize
        kept == IF full THEN Forget(cached, Head(tracker)) ELSE cached
    IN  /\ cached' = [x \in DOMAIN kept \cup {k} |-> IF x = k THEN doc ELSE kept[x]]
        /\ tracker' = Append(IF full THEN Tail(tracker) ELSE tracker, k)

Touch(k) ==
    /\ tracker' = Append(RemoveFirst(tracker, k), k)
    /\ UNCHANGED cached

-----------------------------------------------------------------------------
(* Disqualifying a cover.                                                  *)

(* Mutant: the maximum is reset and not searched for again.                *)
AdjustToZero(h, bad) ==
    LET t == Payload(h).type
    IN  IF Payload(h).capacity >= max_capacity[t]
        THEN [max_capacity EXCEPT ![t] = 0] ELSE max_capacity

(* adjust_type_max_capacity, with bad the covers corrupted by now.         *)
AdjustTypeMaxCapacity(h, bad) ==
    LET t == Payload(h).type
    IN  IF Payload(h).capacity >= max_capacity[t]
        THEN [max_capacity EXCEPT ![t] =
                Largest({Payload(g).capacity :
                           g \in {g \in Hashes \ bad : Payload(g).type = t}})]
        ELSE max_capacity

(* Mutant: the maximum is adjusted but the cover not marked.               *)
DisqualifyUnmarked(h) ==
    IF Apache
    THEN /\ UNCHANGED corrupted
         /\ max_capacity' = AdjustTypeMaxCapacity(h, corrupted)
    ELSE UNCHANGED <<corrupted, max_capacity>>

(* The trace server does not support it.                                   *)
DisqualifyPayload(h) ==
    IF Apache
    THEN /\ corrupted' = corrupted \cup {h}
         /\ max_capacity' = AdjustTypeMaxCapacity(h, corrupted \cup {h})
    ELSE UNCHANGED <<corrupted, max_capacity>>

-----------------------------------------------------------------------------
(* http_server_transmit.                                                   *)

Type == conn[cur.conn].type
Continue(rec) == cur' = rec /\ UNCHANGED <<conn, status>>

(* It returns -1: the block stays in the source, chop closes the connection. *)
ReturnError == /\ cur' = Idle
               /\ conn' = [conn EXCEPT ![cur.conn].state = "failed"]
               /\ UNCHANGED status

Abort(why) == /\ cur' = Idle
              /\ status' = why
              /\ UNCHANGED conn

Fixed == UNCHANGED <<kind, debug>>
CacheKept == UNCHANGED <<tracker, cached>>
DatabaseKept == UNCHANGED <<corrupted, max_capacity>>

(* The server has read a request for a type on this connection.            *)
Request(c) ==
    /\ status = "up" /\ cur = Idle /\ conn[c].state = "new"
    /\ \E t \in Types : conn' = [conn EXCEPT ![c].type = t, ![c].state = "ready"]
    /\ UNCHANGED <<cur, status>> /\ Fixed /\ CacheKept /\ DatabaseKept

(* chop makes a block of at most what transmit_room offers.                *)
TransmitRoom(c) == IF conn[c].state # "ready" \/ max_capacity[conn[c].type] < MinBlock
                   THEN {}
                   ELSE MinBlock..max_capacity[conn[c].type]

Transmit(c) ==
    /\ status = "up" /\ cur = Idle
    /\ \E n \in TransmitRoom(c) :
          Continue([pc |-> "pick", conn |-> c, len |-> n, out |-> "zero"])
    /\ Fixed /\ CacheKept /\ DatabaseKept

PickAppropriateCoverPayload ==
    /\ cur.pc = "pick"
    /\ IF max_capacity[Type] <= 0 \/ cur.len > max_capacity[Type]
       THEN Abort("no cover is large enough")
       ELSE Continue([pc |-> IF Apache THEN "search" ELSE "trace", conn |-> cur.conn,
                      len |-> cur.len, out |-> cur.out, searches |-> 0])
    /\ Fixed /\ CacheKept /\ DatabaseKept

(* The shortest cover that will do; n is past the end when there is none.  *)
Suits(h) == /\ h \notin corrupted
            /\ Payload(h).capacity >= cur.len
            /\ Payload(h).type = Type
            /\ Payload(h).length >= Noise * cur.len

MostEfficient == SelectInSeq(SortedPayloads, Suits)

(* One try of the search.  The walk reads the element past the end before  *)
(* it notices: whatever that is, it is not found, or the process dies.     *)
Search ==
    /\ cur.pc = "search"
    /\ IF cur.searches = MaxSearch
       THEN ReturnError
       ELSE IF MostEfficient = 0
       THEN ReturnError \/ Abort("read past the end of the database")
       ELSE LET h == SortedPayloads[MostEfficient]
            IN  IF Payload(h).length < BufferSize
                THEN Continue([pc |-> "fetch", conn |-> cur.conn, len |-> cur.len,
                               out |-> cur.out, searches |-> cur.searches + 1,
                               cover |-> h, fetches |-> 0])
                ELSE ReturnError
    /\ Fixed /\ CacheKept /\ DatabaseKept

Embedding(h, doc) == [pc |-> "embed", conn |-> cur.conn, len |-> cur.len,
                      out |-> cur.out, cover |-> h, doc |-> doc]

(* One try at the cover through the cache: a hit, a miss that is fetched   *)
(* and kept, or an empty answer, which is inserted (evicting another       *)
(* cover) and dropped.                                                     *)
FetchHit ==
    /\ cur.pc = "fetch" /\ cur.fetches < MaxFetch /\ cur.cover \in DOMAIN cached
    /\ Touch(cur.cover)
    /\ Continue(Embedding(cur.cover, cached[cur.cover]))
    /\ Fixed /\ DatabaseKept

FetchMiss ==
    /\ cur.pc = "fetch" /\ cur.fetches < MaxFetch /\ cur.cover \notin DOMAIN cached
    /\ \E doc \in Documents \cup {EmptyDoc} :
          /\ Insert(cur.cover, doc)
          /\ IF doc = EmptyDoc
             THEN Continue([cur EXCEPT !.pc = "drop"])
             ELSE Continue(Embedding(cur.cover, doc))
    /\ Fixed /\ DatabaseKept

FetchDrop ==
    /\ cur.pc = "drop"
    /\ Drop(cur.cover)
    /\ Continue([cur EXCEPT !.pc = "fetch", !.fetches = @ + 1])
    /\ Fixed /\ DatabaseKept

FetchGivenUp ==
    /\ cur.pc = "fetch" /\ cur.fetches = MaxFetch
    /\ corrupted' = corrupted \cup {cur.cover}
    /\ Continue([pc |-> "search", conn |-> cur.conn, len |-> cur.len, out |-> cur.out,
                 searches |-> cur.searches])
    /\ UNCHANGED max_capacity /\ Fixed /\ CacheKept

(* The trace server looks from a random place at candidates that are       *)
(* larger than the block and takes the shortest.                           *)
TraceSearch ==
    LET pool == Pool(Type)
        cnt == Len(pool)
        from(r) == [i \in 1..cnt |-> ((r + i - 1) % cnt) + 1]
        fits(k) == /\ pool[k].capacity > cur.len
                   /\ Trace[pool[k].cover].length >= Noise * cur.len
        seen(r) == LET found == SelectSeq(from(r), fits)
                   IN  SubSeq(found, 1, IF Len(found) < MaxCandidates
                                        THEN Len(found) ELSE MaxCandidates)
        size(k) == Trace[pool[k].cover].length
    IN  /\ cur.pc = "trace"
        /\ \/ /\ cnt = 0
              /\ ReturnError
           \/ \E r \in 0..(cnt - 1) :
                 IF seen(r) = << >>
                 THEN ReturnError
                 ELSE \E n \in DOMAIN seen(r) :
                        /\ \A m \in DOMAIN seen(r) :
                              \/ size(seen(r)[n]) < size(seen(r)[m])
                              \/ size(seen(r)[n]) = size(seen(r)[m]) /\ n <= m
                        /\ LET i == pool[seen(r)[n]].cover
                           IN  Continue(Embedding(i, Trace[i].doc))
        /\ Fixed /\ CacheKept /\ DatabaseKept

Again == Continue([pc |-> "pick", conn |-> cur.conn, len |-> cur.len, out |-> "negative"])

(* A cover without the end of a header is disqualified; `continue' then    *)
(* tests outbuflen, which is zero unless an earlier cover failed to embed. *)
EmbedHeaderless ==
    /\ cur.pc = "embed" /\ cur.doc.header = "none"
    /\ DisqualifyPayload(cur.cover)
    /\ IF cur.out = "negative" THEN Again ELSE Continue([cur EXCEPT !.pc = "emit"])
    /\ Fixed /\ CacheKept

EmbedTooLarge ==
    /\ cur.pc = "embed" /\ cur.doc.header # "none" /\ ~cur.doc.fits
    /\ DisqualifyPayload(cur.cover)
    /\ ReturnError
    /\ Fixed /\ CacheKept

EmbedRefused ==
    /\ cur.pc = "embed" /\ cur.doc.header # "none" /\ cur.doc.fits
    /\ cur.doc.codec = "refuse"
    /\ DisqualifyPayload(cur.cover)
    /\ Again
    /\ Fixed /\ CacheKept

EmbedDone ==
    /\ cur.pc = "embed" /\ cur.doc.header # "none" /\ cur.doc.fits
    /\ cur.doc.codec # "refuse"
    /\ Continue([cur EXCEPT !.pc = "emit", !.out = "positive"])
    /\ Fixed /\ CacheKept /\ DatabaseKept

(* What goes out, and the source is drained.  With nothing embedded the    *)
(* header and the body are both empty.                                     *)
Reply(reply, carries, has_length, garbled) ==
    /\ cur' = Idle
    /\ conn' = [conn EXCEPT ![cur.conn] =
                  [@ EXCEPT !.state = "sent", !.drained = cur.len, !.reply = reply,
                            !.carries = carries, !.has_length = has_length,
                            !.garbled = garbled]]
    /\ UNCHANGED status

EmitNothing ==
    /\ cur.pc = "emit" /\ cur.out = "zero"
    /\ IF debug THEN ReturnError ELSE Reply("nothing", 0, FALSE, FALSE)
    /\ Fixed /\ CacheKept /\ DatabaseKept

(* The self-test of a debug log level.                                     *)
EmitSelfTestFails ==
    /\ cur.pc = "emit" /\ cur.out = "positive" /\ cur.doc.codec = "garble" /\ debug
    /\ ReturnError
    /\ Fixed /\ CacheKept /\ DatabaseKept

SameLength == cur.doc.codec \in {"same", "garble"}

EmitSame ==
    /\ cur.pc = "emit" /\ cur.out = "positive" /\ SameLength
    /\ ~(debug /\ cur.doc.codec = "garble")
    /\ IF cur.doc.header = "long"
       THEN Abort("header larger than its buffer")
       ELSE Reply("document", cur.len, cur.doc.has_length, cur.doc.codec = "garble")
    /\ Fixed /\ CacheKept /\ DatabaseKept

(* alter_length_in_response_header: 0 without a length to alter; a long    *)
(* header is written past the end of newHdr.                               *)
EmitResized ==
    /\ cur.pc = "emit" /\ cur.out = "positive" /\ ~SameLength
    /\ IF ~cur.doc.has_length
       THEN DisqualifyPayload(cur.cover) /\ ReturnError
       ELSE /\ IF cur.doc.header = "long"
               THEN Abort("header larger than its buffer")
               ELSE Reply("document", cur.len, TRUE, FALSE)
            /\ DatabaseKept
    /\ Fixed /\ CacheKept

-----------------------------------------------------------------------------
(* http_client_receive, as more of the reply arrives.                      *)

Stages == <<"nothing", "some", "header", "all">>
Stage(s) == CHOOSE n \in DOMAIN Stages : Stages[n] = s

(* Mutant: the body is decoded as soon as the header is there.             *)
ReceiveEarly(c) ==
    /\ conn[c].reply = "document" /\ conn[c].result = "none"
    /\ \E s \in {s \in ToSet(Stages) : Stage(s) > Stage(conn[c].arrived)} :
          conn' = [conn EXCEPT ![c] =
                     IF s = "some" THEN [@ EXCEPT !.arrived = s]
                     ELSE [@ EXCEPT !.arrived = s, !.result = "good",
                                    !.got = IF s = "all" THEN conn[c].carries ELSE 0]]
    /\ UNCHANGED <<cur, status>> /\ Fixed /\ CacheKept /\ DatabaseKept

Receive(c) ==
    /\ conn[c].reply = "document" /\ conn[c].result = "none"
    /\ \E s \in {s \in ToSet(Stages) : Stage(s) > Stage(conn[c].arrived)} :
       \E bad \in BOOLEAN :
          LET new == [conn[c] EXCEPT !.arrived = s]
          IN  /\ bad => s = "all" /\ new.garbled
              /\ conn' = [conn EXCEPT ![c] =
                   IF s = "some" THEN new
                   ELSE IF ~new.has_length \/ bad THEN [new EXCEPT !.result = "bad"]
                   ELSE IF s = "header" THEN new
                   ELSE [new EXCEPT !.result = "good",
                                    !.got = IF new.garbled THEN 0 ELSE new.carries]]
    /\ UNCHANGED <<cur, status>> /\ Fixed /\ CacheKept /\ DatabaseKept

-----------------------------------------------------------------------------
Step == \/ PickAppropriateCoverPayload \/ Search
        \/ FetchHit \/ FetchMiss \/ FetchDrop \/ FetchGivenUp \/ TraceSearch
        \/ EmbedHeaderless \/ EmbedTooLarge \/ EmbedRefused \/ EmbedDone
        \/ EmitNothing \/ EmitSelfTestFails \/ EmitSame \/ EmitResized

Next == \/ \E c \in Conns : Request(c) \/ Transmit(c) \/ Receive(c)
        \/ Step

(* A handler that has begun runs on.                                       *)
Spec == Init /\ [][Next]_vars /\ WF_vars(Step)

-----------------------------------------------------------------------------
(* Properties.                                                             *)

(* The cache's list and map hold the same keys, each once, no more than    *)
(* its capacity, and between two fetches no empty answer: insert, evict,   *)
(* drop and the move to the back keep them together.                       *)
CacheCoherent ==
    /\ Cardinality(ToSet(tracker)) = Len(tracker)
    /\ ToSet(tracker) = DOMAIN cached
    /\ Len(tracker) <= CacheSize
    /\ \A k \in DOMAIN cached : cached[k] = EmptyDoc => cur.pc = "drop"

(* Disqualifying covers never lowers a type's maximum below a cover that   *)
(* can still be used: transmit_room would refuse blocks that fit.          *)
UsableFits ==
    Apache => \A h \in Hashes \ corrupted :
                 Payload(h).capacity <= max_capacity[Payload(h).type]

(* What the client takes out of a reply it accepts is the block the server *)
(* drained for it, unless the encoder garbled it with the self-test off.   *)
GoodMeansSent ==
    \A c \in Conns : conn[c].result = "good" =>
        conn[c].got = conn[c].drained \/ (conn[c].garbled /\ ~debug)

(* The Apache server's search for a cover ends: every turn of the loop     *)
(* takes a cover out of use.                                               *)
TransmitReturns == (Apache /\ cur.pc # "idle") ~> cur.pc = "idle"

(* file_steg.cc:206: a cover without a header is given up and "we try with *)
(* another cover"; so a drained block is on the wire.                      *)
DrainedIsSent ==
    \A c \in Conns : conn[c].drained # 0 => conn[c].reply = "document"
=============================================================================
