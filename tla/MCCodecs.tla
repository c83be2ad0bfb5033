------------------------------ MODULE MCCodecs ------------------------------
(***************************************************************************)
(* Codecs for TLC: every small cover of each kind, with bytes chosen to    *)
(* look like the markers.                                                  *)
(***************************************************************************)
EXTENDS Codecs

MCByte == {"?", ",", "FF", "DA"}
MCHexOf == [b \in MCByte |-> CASE b = "?" -> <<"0", "0">> [] b = "," -> <<"0", "1">>
                               [] b = "FF" -> <<"1", "0">> [] OTHER -> <<"1", "1">>]
MCValueOf == [b \in MCByte |-> CASE b = "?" -> 63 [] b = "," -> 44
                                 [] b = "FF" -> 255 [] OTHER -> 218]
MCBlock == UNION {[1..n -> MCByte] : n \in 1..3} \cup {<<",", "FF", "?", "DA", "FF", "FF", "?">>}

Texts(chars, n) == [1..n -> chars]
Gifs == {[i \in 1..n |-> IF i = m THEN "," ELSE "FF"] : n \in 1..11, m \in 0..3}
Jpgs == {[i \in 1..n |-> CASE i = m -> "FF" [] i = m + 1 -> "DA"
                           [] i = m + 2 -> ToString(f) [] OTHER -> "b"] :
            n \in 6..12, m \in 1..3, f \in 1..3}
Chunk(t, n) == [type |-> t, bytes |-> [i \in 1..n |-> "b"]]
Pngs == {<<Chunk("IHDR", 1)>> \o s : s \in
            {<<Chunk("IEND", 0)>>}
            \cup {<<Chunk("IDAT", n), Chunk("IDAT", m)>> : n, m \in 0..5}
            \cup {<<Chunk("tEXt", 2), Chunk("IDAT", n)>> : n \in 0..5}}
Swfs == {<<"a", "b", "c", "d", "e">>}
Pdfs == {<<"obj", "stream", "b", "b", "b", "endstream">>,
         <<"obj", "stream", "b", "b", "b", "b", "endstream", "obj", "stream", "b", "endstream">>,
         <<"obj", "stream", "b", "b", "b", "b", "b", "b", "b", "endstream", "obj", "stream", "b",
           "endstream">>,
         <<"hdr", "stream", "b", "b", "b", "b", "endstream">>,
         <<"obj", "stream", "b", "b">>}
Jss == {[text |-> t, next |-> c] :
            t \in Texts({"0", "v", "r", ";", "?"}, 6), c \in {"0", ";"}}
Htmls == {<<s, t>> : s, t \in Texts({"0", "v", ";", "?"}, 4)}

MCCover == [k \in {"gif", "jpg", "png", "swf", "pdf", "delimiters", "js", "html", "cookie"} |->
    CASE k = "gif" -> Gifs [] k = "jpg" -> Jpgs [] k = "png" -> Pngs [] k = "swf" -> Swfs
      [] k = "pdf" -> Pdfs [] k = "delimiters" -> 1..6 [] k = "js" -> Jss [] k = "html" -> Htmls
      [] OTHER -> {0}]
HtmlCover == [k \in {"html"} |-> Htmls]
GifCover == [k \in {"gif"} |-> Gifs]
=============================================================================
