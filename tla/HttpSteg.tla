------------------------------ MODULE HttpSteg ------------------------------
(***************************************************************************)
(* The HTTP steg modules: http (steg/http.cc, over recorded traces) and    *)
(* http_apache (steg/http_apache.cc, over a live cover server), one client *)
(* process and one server process.                                         *)
(*                                                                         *)
(* A connection carries one request, which hides a block in the URL and    *)
(* its query or in cookies, and one reply, a cover document of the type    *)
(* the request asked for (module Covers).  http_apache's two ends agree on *)
(* a dictionary of URLs by protocol data that chop carries, in order on    *)
(* each circuit, for the steg configuration as a whole.                    *)
(*                                                                         *)
(* A URL is its last path component cut at the dots: <<"jquery","js">>; a  *)
(* block is a sequence of bytes in base Base (256 in the code).            *)
(***************************************************************************)
EXTENDS Integers, Sequences, FiniteSets, SequencesExt

CONSTANTS Modules,     \* steg modules run: "http", "http_apache"
          Conns,       \* connections
          Circuits,    \* chop circuits of the client
          Dict,        \* the server's dictionary, a sequence of URLs
          Stored,      \* dictionaries the client may find in client_list.txt
          Recorded,    \* URLs of the recorded requests (http)
          Active,      \* what --steg-mod may activate: sets of types, {} being all
          Covered,     \* types with a cover that takes a block
          Base,        \* values of a byte
          Blocks,      \* blocks chop sends
          FaultKinds,  \* {} or {"crash"}: see Restart
          MaxFaults    \* restarts of the client

ASSUME HttpAssumption ==
    /\ Modules \subseteq {"http", "http_apache"}
    /\ Base \in Nat \ {0, 1} /\ MaxFaults \in Nat
    /\ \A b \in Blocks : b \in Seq(0..(Base - 1))

ASSUME DictAssumption == Dict \in Seq(Seq(STRING))

VARIABLES module,  \* the steg module of both ends
          active,  \* the types activated
          client,  \* the client's http_apache_steg_config_t
          server,  \* the server's
          file,    \* client_list.txt
          ckt,     \* ckt[k][s]: chunks of protocol data s sent, in transit
          conn,    \* conn[c]
          crash,   \* whether an assertion has ended the client
          faults   \* how many so far

vars == <<module, active, client, server, file, ckt, conn, crash, faults>>

Sides == {"client", "server"}
Other(s) == IF s = "client" THEN "server" ELSE "client"

-----------------------------------------------------------------------------
(* Content types.                                                          *)

NoUrl == <<"">>
Types == {"html", "js", "pdf", "swf", "png", "jpg", "gif"}

(* ext is what follows the dot; "unknown" is -1.                           *)
ExtensionToContentType(ext) ==
    CASE ext \in {<<"html">>, <<"htm">>, <<"php">>, <<"jsp">>, <<"asp">>} -> "html"
      [] Len(ext) = 1 /\ ext[1] \in Types -> ext[1]
      [] OTHER -> "unknown"

(* The client looks at the last dot of the file name...                    *)
FindUrlType(url) ==
    IF Len(url) = 1 THEN "html" ELSE ExtensionToContentType(<<Last(url)>>)

(* ... and the server, parsing the request, at the first.                  *)
FindUriType(url) ==
    IF Len(url) = 1 THEN "html" ELSE ExtensionToContentType(Tail(url))

IsActivatedValidContentType(t) == t \in Types /\ (active = {} \/ t \in active)

-----------------------------------------------------------------------------
(* The dictionary as a code.                                               *)

(* n after it has been divided k times.                                    *)
Quotient(n, k) ==
    LET left[j \in Nat] == IF j = 0 THEN n ELSE left[j - 1] \div Base IN left[k]

(* for (cut = 0; (n /= Base) > 0; cut++)                                   *)
UriByteCut(dict) ==
    CHOOSE k \in 0..Len(dict) :
        /\ \A j \in 1..k : Quotient(Len(dict), j) > 0
        /\ Quotient(Len(dict), k + 1) = 0

UrlIndex(block, cut) ==
    LET n == IF cut < Len(block) THEN cut ELSE Len(block)
        index[i \in 0..n] == IF i = 0 THEN 0 ELSE index[i - 1] * Base + block[i]
    IN  index[n]

(* uri_decode_book: of a URL listed twice the last index counts; of one    *)
(* that is not listed, operator[] makes 0.                                 *)
UrlCode(dict, url) ==
    LET n == SelectLastInSeq(dict, LAMBDA u : u = url)
    IN  IF n = 0 THEN 0 ELSE n - 1

(* MUTANT: a dictionary is used before it is known to be in sync.          *)
UriRequestUnsynced(block) ==
    LET url == IF client.dict # << >> THEN client.dict[UrlIndex(block, client.cut) + 1]
               ELSE NoUrl
    IN  [url |-> url, param |-> "q", data |-> SubSeq(block, client.cut + 1, Len(block))]

(* http_client_uri_transmit: the first bytes choose the URL, the rest is   *)
(* the base64 query.                                                       *)
UriRequest(block) ==
    LET synced == client.dict # << >> /\ client.up2date
        url == IF synced THEN client.dict[UrlIndex(block, client.cut) + 1] ELSE NoUrl
    IN  IF Len(block) > client.cut
        THEN [url |-> url, param |-> "q",
              data |-> SubSeq(block, client.cut + 1, Len(block))]
        ELSE [url |-> url, param |-> "p", data |-> <<Len(block)>>]

(* http_server_receive_uri.  The number after "?p=" is read from its "="   *)
(* and so is 0.                                                            *)
UriMeaning(req) ==
    LET code == UrlCode(server.dict, req.url)
        length == IF req.url = NoUrl \/ req.param = "p" THEN 0 ELSE server.cut
        digits == [i \in 1..length |-> Quotient(code, i - 1) % Base]
    IN  digits \o (IF req.param = "q" THEN req.data ELSE << >>)

-----------------------------------------------------------------------------
(* Protocol data: a byte that is an operation, two halves of the SHA256 of *)
(* a dictionary, its URLs, and the end mark.                               *)

Op(o) == [kind |-> o, dict |-> << >>, url |-> NoUrl]
Mac(dict) == <<[kind |-> "mac1", dict |-> dict, url |-> NoUrl],
               [kind |-> "mac2", dict |-> dict, url |-> NoUrl]>>
ExportDict(dict) ==
    [i \in DOMAIN dict |-> [kind |-> "url", dict |-> << >>, url |-> dict[i]]]

Ops == {"DICT_MAC", "DICT_UP2DATE", "DICT_UPDATE"}
NewConfig(dict) == [op |-> "NO_OP", up2date |-> FALSE, cut |-> 0, dict |-> dict,
                    in |-> << >>, out |-> << >>]

(* The steg_t of a connection, at both ends, and what is between them.     *)
NewSteg == [state |-> "none", type |-> "unset", data |-> << >>, request |-> "none",
            seen |-> "nothing", have_received |-> FALSE, server_type |-> "unset",
            got |-> << >>, tried |-> FALSE, reply |-> "none", arrived |-> "nothing",
            result |-> "none", curl |-> "off"]

Init ==
    /\ module \in Modules
    /\ active \in Active
    /\ file \in Stored
    /\ client = NewConfig(file)
    /\ server = [NewConfig(Dict) EXCEPT !.cut = UriByteCut(Dict)]
    /\ ckt = [k \in Circuits |-> [s \in Sides |-> << >>]]
    /\ conn = [c \in Conns |-> NewSteg]
    /\ crash = FALSE
    /\ faults = 0

-----------------------------------------------------------------------------
(* process_protocol_data: one operation for each chunk that comes in.      *)

(* An operation is taken from the buffer only when none is under way.      *)
NextOperation(cfg) ==
    IF cfg.op \notin {"NO_OP", "WAIT_PEER"}
    THEN cfg
    ELSE [cfg EXCEPT !.in = Tail(@),
                     !.op = IF Head(cfg.in).kind \in Ops THEN Head(cfg.in).kind
                            ELSE "unrecognizable"]

(* MUTANT: the end mark is not sent.                                       *)
SendDictUnended(cfg) ==
    [cfg EXCEPT !.op = "NO_OP", !.out = @ \o <<Op("DICT_UPDATE")>> \o ExportDict(cfg.dict)]

SendDictToPeer(cfg) ==
    [cfg EXCEPT !.op = "NO_OP",
                !.out = @ \o <<Op("DICT_UPDATE")>> \o ExportDict(cfg.dict)
                          \o <<Op("END")>>]

DictMac(cfg) ==
    IF Len(cfg.in) < 2 THEN cfg
    ELSE LET done == [cfg EXCEPT !.in = SubSeq(@, 3, Len(@)), !.op = "NO_OP"]
         IN  IF SubSeq(cfg.in, 1, 2) = Mac(cfg.dict)
             THEN [done EXCEPT !.out = Append(@, Op("DICT_UP2DATE"))]
             ELSE SendDictToPeer(done)

DictUp2date(cfg) ==
    [cfg EXCEPT !.up2date = TRUE, !.cut = UriByteCut(cfg.dict), !.op = "NO_OP"]

(* init_uri_dict: the URLs of the text, one after the other.               *)
InitUriDict(text) ==
    LET dict[i \in 0..Len(text)] ==
            IF i = 0 THEN << >>
            ELSE IF text[i].kind = "url" THEN Append(dict[i - 1], text[i].url)
            ELSE dict[i - 1]
    IN  dict[Len(text)]

(* MUTANT: what has come is taken for the whole dictionary.                *)
DictUpdateEarly(cfg) ==
    LET dict == InitUriDict(cfg.in)
    IN  [cfg EXCEPT !.in = << >>, !.dict = dict, !.up2date = TRUE,
                    !.cut = UriByteCut(dict), !.op = "NO_OP"]

(* The whole buffer, whatever follows the end mark, becomes the            *)
(* dictionary: only the length of an end mark is taken from its end.       *)
DictUpdate(cfg) ==
    LET dict == InitUriDict(Front(cfg.in))
    IN  IF ~Contains(cfg.in, Op("END")) THEN cfg
        ELSE [cfg EXCEPT !.in = << >>, !.dict = dict, !.up2date = TRUE,
                         !.cut = UriByteCut(dict), !.op = "NO_OP"]

ProcessProtocolData(arrived) ==
    LET cfg == NextOperation(arrived)
    IN  CASE cfg.op = "DICT_MAC" -> DictMac(cfg)
          [] cfg.op = "DICT_UP2DATE" -> DictUp2date(cfg)
          [] cfg.op = "DICT_UPDATE" -> DictUpdate(cfg)
          [] OTHER -> cfg

Config(s) == IF s = "client" THEN client ELSE server
SetConfig(s, cfg) == IF s = "client" THEN client' = cfg /\ UNCHANGED server
                     ELSE server' = cfg /\ UNCHANGED client

(* chop puts what fits of protocol_data_out into a block on some circuit.  *)
Ship(s, k) ==
    /\ ~crash /\ Config(s).out # << >>
    /\ \E n \in 1..Len(Config(s).out) :
          /\ ckt' = [ckt EXCEPT ![k][s] = Append(@, SubSeq(Config(s).out, 1, n))]
          /\ SetConfig(s, [Config(s) EXCEPT !.out = SubSeq(@, n + 1, Len(@))])
    /\ UNCHANGED <<module, active, file, conn, crash, faults>>

(* store_dict may fail to open the file, or to write all of it.            *)
StoreDict(new) == IF new.dict = client.dict THEN {file} ELSE {file} \cup Prefixes(new.dict)

Deliver(s, k) ==
    LET peer == Other(s)
        new == ProcessProtocolData([Config(peer) EXCEPT !.in = @ \o Head(ckt[k][s])])
    IN  /\ ~crash /\ ckt[k][s] # << >>
        /\ ckt' = [ckt EXCEPT ![k][s] = Tail(@)]
        /\ SetConfig(peer, new)
        /\ IF peer = "client" THEN file' \in StoreDict(new) ELSE UNCHANGED file
        /\ UNCHANGED <<module, active, conn, crash, faults>>

-----------------------------------------------------------------------------
(* Connections.                                                            *)

(* The fields of rec are set in the steg_t of c.                           *)
With(steg, rec) == [f \in DOMAIN steg |-> IF f \in DOMAIN rec THEN rec[f] ELSE steg[f]]
Set(c, rec) == conn' = [conn EXCEPT ![c] = With(@, rec)]

(* A new connection of the client asks for the dictionary to be checked,   *)
(* unless it has been, or is being.                                        *)
StegCreate(c) ==
    /\ ~crash /\ conn[c].state = "none"
    /\ Set(c, [state |-> "open"])
    /\ IF module = "http_apache" /\ ~client.up2date /\ client.op = "NO_OP"
       THEN client' = [client EXCEPT !.op = "WAIT_PEER",
                                     !.out = @ \o <<Op("DICT_MAC")>> \o Mac(client.dict)]
       ELSE UNCHANGED client
    /\ UNCHANGED <<module, active, server, file, ckt, crash, faults>>

(* The type is remembered for the reply; curl takes the socket over.       *)
UriTransmit(c) ==
    /\ ~crash /\ module = "http_apache" /\ conn[c].state = "open"
    /\ \E block \in Blocks :
          LET req == UriRequest(block)
          IN  Set(c, [state |-> "transmitted", data |-> block, request |-> req,
                      type |-> FindUrlType(req.url), curl |-> "sending"])
    /\ UNCHANGED <<module, active, client, server, file, ckt, crash, faults>>

(* A recorded request of an activated type, with the block in its cookies. *)
CookieTransmit(c) ==
    /\ ~crash /\ module = "http" /\ conn[c].state = "open"
    /\ \E block \in Blocks, url \in Recorded :
          /\ IsActivatedValidContentType(FindUriType(url))
          /\ Set(c, [state |-> "transmitted", data |-> block,
                     request |-> [url |-> url, param |-> "cookie", data |-> block],
                     type |-> FindUriType(url)])
    /\ UNCHANGED <<module, active, client, server, file, ckt, crash, faults>>

(* No recorded request is of an activated type: transmit fails.            *)
CookieTransmitFails(c) ==
    /\ ~crash /\ module = "http" /\ conn[c].state = "open"
    /\ ~\E url \in Recorded : IsActivatedValidContentType(FindUriType(url))
    /\ Set(c, [state |-> "failed"])
    /\ UNCHANGED <<module, active, client, server, file, ckt, crash, faults>>

(* http_apache falls back to html, http keeps -1.                          *)
ServerType(req) ==
    LET type == FindUriType(req.url)
    IN  IF module = "http_apache" /\ type = "unknown" THEN "html" ELSE type

(* http_server_receive; until the blank line it waits for more.            *)
ServerReceive(c) ==
    /\ conn[c].state = "transmitted" /\ ~conn[c].have_received
    /\ LET req == conn[c].request
       IN  \/ conn[c].seen = "nothing" /\ Set(c, [seen |-> "part"])
           \/ Set(c, [seen |-> "all", have_received |-> TRUE,
                      got |-> IF req.param = "cookie" THEN req.data ELSE UriMeaning(req),
                      server_type |-> ServerType(req)])
    /\ UNCHANGED <<module, active, client, server, file, ckt, crash, faults>>

(* The server's transmit_room is 0 before the request and after the reply. *)
ServerRoom(c) == /\ conn[c].have_received /\ ~conn[c].tried
                 /\ conn[c].server_type \in Covered

(* A type that is not activated is refused: the block fails, and the       *)
(* connection stays without a reply until chop lets go of it.              *)
ServerTransmit(c) ==
    /\ ServerRoom(c)
    /\ IF IsActivatedValidContentType(conn[c].server_type)
       THEN Set(c, [tried |-> TRUE, reply |-> conn[c].server_type])
       ELSE Set(c, [tried |-> TRUE])
    /\ UNCHANGED <<module, active, client, server, file, ckt, crash, faults>>

(* curl_downstream_read_cb, the reading end of http_apache's client, which *)
(* stops watching for writes.                                              *)
CurlReading == IF module = "http_apache" THEN "receiving" ELSE "off"

(* http_client_receive, called by curl_downstream_read_cb for http_apache. *)
(* The decoder of another type finds no block in the reply.                *)
ClientReceive(c) ==
    /\ ~crash /\ conn[c].reply # "none" /\ conn[c].result = "none"
    /\ IF conn[c].type \notin Types
       THEN crash' = TRUE /\ UNCHANGED conn
       ELSE /\ UNCHANGED crash
            /\ \/ /\ conn[c].arrived = "nothing"
                  /\ Set(c, [arrived |-> "part", curl |-> CurlReading])
               \/ Set(c, [arrived |-> "all", curl |-> CurlReading,
                          result |-> IF conn[c].reply = conn[c].type
                                     THEN "good" ELSE "bad"])
    /\ UNCHANGED <<module, active, client, server, file, ckt, faults>>

(* curl is done with the socket, at the end of the reply or because there  *)
(* was none or a bad one: ignore_close closes the connection.              *)
IgnoreClose(c) ==
    /\ ~crash /\ conn[c].curl \in {"sending", "receiving"}
    /\ conn[c].tried
    /\ conn[c].reply = "none" \/ conn[c].result # "none"
    /\ Set(c, [curl |-> "done", state |-> "closed"])
    /\ UNCHANGED <<module, active, client, server, file, ckt, crash, faults>>

-----------------------------------------------------------------------------
(* The client's process is started again and reads what was stored: when   *)
(* the server holds nothing of an exchange, or ("crash") at any time.  The *)
(* connections of the process before it die, and what they carried.        *)
Quiet == /\ server.in = << >> /\ server.out = << >> /\ server.op = "NO_OP"
         /\ \A k \in Circuits, s \in Sides : ckt[k][s] = << >>

Restart ==
    /\ faults < MaxFaults
    /\ "crash" \in FaultKinds \/ Quiet
    /\ client' = NewConfig(file)
    /\ ckt' = [k \in Circuits |-> [s \in Sides |-> << >>]]
    /\ conn' = [c \in Conns |-> NewSteg]
    /\ crash' = FALSE
    /\ faults' = faults + 1
    /\ UNCHANGED <<module, active, server, file>>

Transport == \E s \in Sides, k \in Circuits : Ship(s, k) \/ Deliver(s, k)

Next == \/ \E s \in Sides, k \in Circuits : Ship(s, k) \/ Deliver(s, k)
        \/ \E c \in Conns : \/ StegCreate(c) \/ UriTransmit(c) \/ CookieTransmit(c)
                            \/ CookieTransmitFails(c) \/ ServerReceive(c)
                            \/ ServerTransmit(c) \/ ClientReceive(c) \/ IgnoreClose(c)
        \/ Restart

(* chop sends protocol data before any other, and delivers it.             *)
Spec == Init /\ [][Next]_vars /\ WF_vars(Transport)

-----------------------------------------------------------------------------
(* Properties.                                                             *)

(* The client uses its dictionary only while it is the server's, whatever  *)
(* the pieces the update comes in and whatever a restart finds on disk     *)
(* (http_apache.cc:347: "it will corrupt the coding").                     *)
InSync == client.up2date => client.dict = server.dict

(* The server takes out of a request the block the client put in, before   *)
(* and after the dictionary is agreed on.  It reads the bytes of an index  *)
(* in the other order, so no more than one byte may be cut.                *)
RequestMeaning ==
    \A c \in Conns : (conn[c].have_received /\ server.cut <= 1) =>
        conn[c].got = conn[c].data

(* Without a fault a client that asked gets a dictionary it may use.       *)
DictArrives ==
    (client.op = "WAIT_PEER" /\ faults = 0) ~> (client.up2date \/ faults # 0)

(* http_apache.cc:712: "we need to stick to clients request": the server   *)
(* answers with the type whose decoder the client will use.                *)
TypesAgree ==
    \A c \in Conns : conn[c].have_received => conn[c].server_type = conn[c].type
=============================================================================
