------------------------------ MODULE MCCovers ------------------------------
(***************************************************************************)
(* Covers for TLC: three covers of one type, one of another that is too   *)
(* large to fetch; a trace of five recorded messages.                     *)
(***************************************************************************)
EXTENDS Covers

Doc(h, l, f, c) == [header |-> h, has_length |-> l, fits |-> f, codec |-> c]

MCDatabase == <<[hash |-> "b", type |-> "html", capacity |-> 2, length |-> 6],
                [hash |-> "a", type |-> "html", capacity |-> 1, length |-> 4],
                [hash |-> "d", type |-> "html", capacity |-> 3, length |-> 7],
                [hash |-> "s", type |-> "swf", capacity |-> 1, length |-> 9]>>

Recorded(response, length, eligible, capacity, doc) ==
    [response |-> response, length |-> length, eligible |-> eligible,
     capacity |-> capacity, doc |-> doc]

MCTrace == <<Recorded(FALSE, 1, {}, 0, Doc("short", TRUE, TRUE, "same")),
             Recorded(TRUE, 4, {"html"}, 2, Doc("short", TRUE, TRUE, "refuse")),
             Recorded(TRUE, 6, {"html"}, 3, Doc("short", FALSE, TRUE, "same")),
             Recorded(TRUE, 5, {"swf"}, 0, Doc("short", TRUE, TRUE, "resize")),
             Recorded(TRUE, 6, {"pdf"}, 8, Doc("short", TRUE, TRUE, "resize"))>>

MCDocuments == {Doc("none", TRUE, TRUE, "same"), Doc("short", TRUE, FALSE, "same"),
                Doc("short", TRUE, TRUE, "same"), Doc("short", FALSE, TRUE, "resize"),
                Doc("short", TRUE, TRUE, "resize"), Doc("short", TRUE, TRUE, "refuse"),
                Doc("short", TRUE, TRUE, "garble"), Doc("long", TRUE, TRUE, "same"),
                Doc("long", TRUE, TRUE, "resize")}
=============================================================================
