------------------------------- MODULE Codecs -------------------------------
(***************************************************************************)
(* What hides a block in an HTTP message: the encoders of the file types   *)
(* (steg/http_steg_mods), base64 and the cookies that carry it             *)
(* (base64.cc, b64cookies.cc), and the delimiters of pdfSteg.              *)
(*                                                                         *)
(* A block is a sequence of bytes.  A cover keeps of a document only what  *)
(* an encoder looks at: lengths, markers, chunks, streams, the characters  *)
(* of a script.  One block goes through one encoder: Pick, Encode (for     *)
(* cookies in several steps), Decode.                                      *)
(***************************************************************************)
EXTENDS Integers, Sequences, FiniteSets, SequencesExt, FiniteSetsExt

CONSTANTS Byte,        \* bytes of a block
          HexOf,       \* HexOf[b]: the two hexadecimal digits of b
          ValueOf,     \* ValueOf[b]: b as a number
          Block,       \* blocks
          Cover,       \* Cover[kind]: the documents of a kind
          SizeofInt,   \* bytes of an int (4)
          SizeofSizeT, \* bytes of a size_t (8)
          SwfCapacity, \* what an SWF cover takes, whatever its size
          SwfSaved,    \* bytes kept at either end of an SWF cover (1500)
          PdfRoom      \* HTTP_PAYLOAD_BUF_SIZE less what encode adds to a stream

Kinds == DOMAIN Cover

ASSUME CodecAssumption ==
    /\ Kinds \subseteq {"gif", "jpg", "png", "swf", "pdf", "delimiters", "js", "html", "cookie"}
    /\ \A b, c \in Byte : HexOf[b] = HexOf[c] \/ ValueOf[b] = ValueOf[c] => b = c
    /\ SizeofInt < SizeofSizeT

VARIABLES stage,  \* "idle", "picked", "wrapping", "sent", "received"
          kind, cover, block,
          sent,   \* what encode wrote, as the peer gets it; Fail
          rest,   \* base64 text not yet in a cookie
          got     \* what decode read; Fail

vars == <<stage, kind, cover, block, sent, rest, got>>

Fail == << >>
Garbage == "garbage"  \* bytes of a buffer after the message

AtLeast0(n) == IF n > 0 THEN n ELSE 0
(* Reading and writing n bytes of buf after the first `from`, past its end *)
(* where the code does; a message of the length of buf is what is sent.    *)
ReadAt(buf, from, n) ==
    [i \in 1..n |-> IF from + i <= Len(buf) THEN buf[from + i] ELSE Garbage]
WriteAt(buf, from, text) ==
    [i \in DOMAIN buf |-> IF i - from \in DOMAIN text THEN text[i - from] ELSE buf[i]]

(* A length stored in n bytes, the low one first.                          *)
SizeField(n, bytes) == <<ToString(n)>> \o [i \in 1..(bytes - 1) |-> "0"]
SizeOfField(field) == CHOOSE n \in 0..Len(block) : field[1] = ToString(n)
IsSize(field) == \E n \in 0..Len(block) : field[1] = ToString(n)

-----------------------------------------------------------------------------
(* GIF: after the first ",".                                               *)

GifStartingPoint(doc) ==
    LET at == {i \in 1..(Len(doc) - 1) : doc[i] = ","}
    IN  IF at = {} THEN -1 ELSE Min(at)

GifCapacity(doc) ==
    LET from == GifStartingPoint(doc)
    IN  IF from < 0 THEN 0 ELSE AtLeast0(Len(doc) - from - 1 - SizeofInt)

(* The length is a size_t.                                                 *)
GifEncode(doc, data) ==
    IF GifCapacity(doc) < Len(data) \/ GifStartingPoint(doc) <= 0 THEN Fail
    ELSE WriteAt(doc, GifStartingPoint(doc), SizeField(Len(data), SizeofSizeT) \o data)

GifDecode(doc) ==
    LET from == GifStartingPoint(doc)
        size == ReadAt(doc, from, SizeofSizeT)
    IN  IF from <= 0 \/ ~IsSize(size) THEN Fail
        ELSE ReadAt(doc, from + SizeofSizeT, SizeOfField(size))

-----------------------------------------------------------------------------
(* JPEG: after the header of the first scan, FF DA and its length.  A scan *)
(* at the very start is not seen.                                          *)

JpgStartingPoint(doc) ==
    LET at == {i \in 1..(Len(doc) - 2) : doc[i] = "FF" /\ doc[i + 1] = "DA"}
        start == Min(at) + 1 + (CHOOSE n \in 0..Len(doc) : doc[Min(at) + 2] = ToString(n))
    IN  IF at = {} THEN -1
        ELSE IF Min(at) = 1 \/ start > Len(doc) - 2 - SizeofInt THEN -1 ELSE start

JpgCapacity(doc) ==
    LET from == JpgStartingPoint(doc)
    IN  IF from < 0 THEN 0 ELSE AtLeast0(Len(doc) - from - 2 - SizeofInt)

JpgEncode(doc, data) ==
    IF JpgCapacity(doc) < Len(data) \/ JpgStartingPoint(doc) < 0 THEN Fail
    ELSE WriteAt(doc, JpgStartingPoint(doc), SizeField(Len(data), SizeofInt) \o data)

JpgDecode(doc) ==
    LET from == JpgStartingPoint(doc)
        size == ReadAt(doc, from, SizeofInt)
    IN  IF from < 0 \/ ~IsSize(size) THEN Fail
        ELSE ReadAt(doc, from + SizeofInt, SizeOfField(size))

-----------------------------------------------------------------------------
(* PNG: a sequence of chunks, each with its type and its bytes.            *)

(* get_next_IDAT_chunk after chunk i of a walk that knows where the file   *)
(* ends.  The chunk a walk has found does not, its payload_end being null, *)
(* so that the walk never leaves the first IDAT.                           *)
NextIdat(doc, i, knows_end) ==
    LET later == {j \in (i + 1)..Len(doc) : doc[j].type = "IDAT"}
    IN  IF knows_end /\ later # {} THEN Min(later) ELSE 0

FirstIdat(doc) == NextIdat(doc, 1, TRUE)
Idats(doc) ==
    IF FirstIdat(doc) = 0 THEN << >>
    ELSE <<FirstIdat(doc)>> \o
         (IF NextIdat(doc, FirstIdat(doc), FALSE) = 0 THEN << >>
          ELSE <<NextIdat(doc, FirstIdat(doc), FALSE)>>)
Room(doc) == FoldLeft(LAMBDA n, i : n + Len(doc[i].bytes), 0, Idats(doc))

(* MUTANT: the length is not allowed for.                                  *)
PngCapacityNoLength(doc) == Room(doc)

PngCapacity(doc) == AtLeast0(Room(doc) - SizeofInt)

PngEncode(doc, data) ==
    LET text == SizeField(Len(data), SizeofInt) \o data
    IN  IF Len(text) > Room(doc) THEN Fail
        ELSE [doc EXCEPT ![FirstIdat(doc)].bytes = WriteAt(@, 0, text)]

PngDecode(doc) ==
    LET bytes == doc[FirstIdat(doc)].bytes
        size == ReadAt(bytes, 0, SizeofInt)
    IN  IF FirstIdat(doc) = 0 \/ Len(bytes) < SizeofInt \/ ~IsSize(size) THEN Fail
        ELSE IF SizeOfField(size) + SizeofInt > Len(bytes) THEN Fail
        ELSE ReadAt(bytes, SizeofInt, SizeOfField(size))

-----------------------------------------------------------------------------
(* zlib: what is compressed, and the last byte of its checksum, which may  *)
(* be any.                                                                 *)

Compress(text) == {<<[zip |-> text, checksum |-> c]>> : c \in {"b", "CR"}}

(* SWF: the ends of the cover are kept, what is between them replaced.     *)
SwfEncode(doc, data) ==
    IF SwfCapacity < Len(data) THEN {Fail}
    ELSE Compress(SubSeq(doc, 1, SwfSaved) \o data
                  \o SubSeq(doc, Len(doc) - SwfSaved + 1, Len(doc)))

SwfDecode(msg) == SubSeq(msg[1].zip, SwfSaved + 1, Len(msg[1].zip) - SwfSaved)

(* PDF: a sequence of words; "stream" is found inside "endstream" too.     *)
IsStream(word) == word \in {"stream", "endstream"}
StreamStart(doc) == SelectInSeq(doc, IsStream)
StreamEnd(doc, from) ==
    LET at == {i \in from..Len(doc) : doc[i] = "endstream"}
    IN  IF at = {} THEN 0 ELSE Min(at)

(* Where a word begins, in bytes; a word that is not a marker is one byte. *)
Width(word) == CASE word = "stream" -> 6 [] word = "endstream" -> 9 [] word = "obj" -> 4 [] OTHER -> 1
Widths(words) == FoldLeft(LAMBDA n, word : n + Width(word), 0, words)
ByteOf(doc, i) == Widths(SubSeq(doc, 1, i - 1))

(* A stream counts, less 2 for its end of line, and so does what is        *)
(* between the end of one and the end of the next.  The search for the     *)
(* next goes on 9 bytes into the stream: a short one is skipped with the   *)
(* "endstream" after it.                                                   *)
PdfCapacity(doc) ==
    LET starts == {ByteOf(doc, i) + Width(doc[i]) : i \in {k \in DOMAIN doc : IsStream(doc[k])}}
        ends == {ByteOf(doc, i) : i \in {k \in DOMAIN doc : doc[k] = "endstream"}}
        from[bp \in Nat] ==
            LET start == Min({s \in starts : s - 6 >= bp})
                after == {e \in ends : e >= start}
            IN  IF {s \in starts : s - 6 >= bp} = {} \/ after = {} THEN 0
                ELSE AtLeast0(Min(after) - start - 2) + from[start + 9]
    IN  from[0]

StrInBinaryRewind(doc, before) == SelectLastInSeq(SubSeq(doc, 1, before - 1), LAMBDA w : w = "obj")

(* The block goes into the first stream, whatever its size, unless the     *)
(* result, with zlib shortening nothing, is too much for the buffer.       *)
PdfEncode(doc, data) ==
    LET end == StreamEnd(doc, 1)
        obj == StrInBinaryRewind(doc, StreamStart(doc))
        size == Widths(SubSeq(doc, 1, obj)) + Len(data) + Widths(SubSeq(doc, end, Len(doc)))
    IN  IF \/ PdfCapacity(doc) < Len(data) \/ StreamStart(doc) = 0 \/ end = 0 \/ obj = 0
           \/ size > PdfRoom
        THEN {Fail}
        ELSE {<<[before |-> SubSeq(doc, 1, obj) \o <<"meta", "stream", "LF">>,
                 blob |-> z[1],
                 after |-> <<"LF", "endstream">> \o SubSeq(doc, end + 1, Len(doc))]>> :
                    z \in Compress(data)}

(* A checksum that ends in CR makes CR LF of the line feed after it: both  *)
(* are taken off and zlib has not enough.                                  *)
PdfDecode(msg) ==
    IF StreamStart(msg[1].before) # Len(msg[1].before) - 1 \/ msg[1].blob.checksum = "CR"
    THEN Fail ELSE msg[1].blob.zip

(* pdf_add_delimiter doubles the delimiter and ends with it and a byte     *)
(* that is another; pdf_remove_delimiter takes the text in pieces, here    *)
(* cut after the first `cover` bytes, and keeps a delimiter at the end of  *)
(* one piece in mind for the next.                                         *)
AddDelimiter(data) ==
    FoldLeft(LAMBDA out, b : out \o (IF b = "?" THEN <<b, b>> ELSE <<b>>), << >>, data)
    \o <<"?", "b">>

RemoveByte(st, b) ==
    IF st.end THEN st
    ELSE IF st.escape
         THEN IF b = "?" THEN [st EXCEPT !.escape = FALSE, !.out = Append(@, b)]
              ELSE [st EXCEPT !.end = TRUE]
         ELSE IF b = "?" THEN [st EXCEPT !.escape = TRUE]
              ELSE [st EXCEPT !.out = Append(@, b)]
RemoveDelimiter(text, st) == FoldLeft(RemoveByte, st, text)
RemoveDelimiters(text, cut) ==
    RemoveDelimiter(SubSeq(text, cut + 1, Len(text)),
        RemoveDelimiter(SubSeq(text, 1, cut),
            [end |-> FALSE, escape |-> FALSE, out |-> << >>])).out

-----------------------------------------------------------------------------
(* JavaScript: a text of characters: hexadecimal digits, other letters,    *)
(* the delimiter "?" and its replacement "!", other marks.                 *)

Digit == {"0", "1"}
Letter == {"v", "r"}
Alnum == Digit \cup Letter
HexText(data) == FlattenSeq([i \in DOMAIN data |-> HexOf[data[i]]])
UnHex(text) ==
    [i \in 1..(Len(text) \div 2) |->
        CHOOSE b \in Byte : HexOf[b] = <<text[2 * i - 1], text[2 * i]>>]

WordStart(text, i) ==
    Max({k \in 1..i : (k = 1 \/ text[k - 1] \notin Alnum) /\ \A j \in k..i : text[j] \in Alnum})

(* "var", whose "a" may be any digit, followed by a mark other than the    *)
(* delimiters.                                                             *)
SkipJSPattern(text, k) ==
    /\ k + 3 <= Len(text)
    /\ text[k] = "v" /\ text[k + 1] \in Digit /\ text[k + 2] = "r"
    /\ text[k + 3] \notin Alnum \cup {"?", "!"}

(* The digits offset2Hex stops at, one after the other: not the first      *)
(* character of a word, nor in a keyword.  After such a digit it looks one *)
(* character past the end of the text.                                     *)
Usable(text, next) ==
    LET inside == {i \in DOMAIN text : /\ text[i] \in Digit
                                       /\ WordStart(text, i) # i
                                       /\ ~SkipJSPattern(text, WordStart(text, i))}
        n == Len(text)
    IN  IF /\ next \in Digit /\ inside # {} /\ Max(inside) < n
           /\ \A i \in Max(inside)..n : text[i] \in Alnum
        THEN inside \cup {n + 1} ELSE inside

Nth(positions, k) == CHOOSE i \in positions : Cardinality({j \in positions : j <= i}) = k

(* MUTANT: a delimiter of the cover is left where it is.                   *)
JsBlockKeepsMark(text, next, hex) ==
    LET usable == Usable(text, next)
        count == Min({Len(hex), Cardinality(usable)})
        last == IF count = 0 THEN 0 ELSE Nth(usable, count)
    IN  [count |-> count, fin |-> count = Len(hex),
         text |-> [i \in DOMAIN text |->
            IF i \in usable /\ i <= last THEN hex[Cardinality({j \in usable : j <= i})]
            ELSE IF count = Len(hex) /\ i = last + 1 THEN "?" ELSE text[i]]]

(* encode_in_single_js_block: the text with as much of hex as it takes,    *)
(* how much that is, and whether the end was marked.                       *)
JsBlock(text, next, hex) ==
    LET usable == Usable(text, next)
        count == Min({Len(hex), Cardinality(usable)})
        last == IF count = 0 THEN 0 ELSE Nth(usable, count)
        fin == count = Len(hex)
    IN  [count |-> count, fin |-> fin,
         text |-> [i \in DOMAIN text |->
            IF i \in usable /\ i <= last THEN hex[Cardinality({j \in usable : j <= i})]
            ELSE IF fin /\ i = last + 1 THEN "?"
            ELSE IF text[i] = "?" /\ (i < last \/ ~fin) THEN "!"
            ELSE text[i]]]

JsCapacity(doc) == AtLeast0(Cardinality(Usable(doc.text, doc.next)) - 1) \div 2

JsEncode(doc, data) ==
    LET done == JsBlock(doc.text, doc.next, HexText(data))
    IN  IF JsCapacity(doc) < Len(data) \/ ~done.fin THEN Fail
        ELSE <<[text |-> done.text, next |-> "NUL"]>>

(* decode_single_js_block                                                  *)
JsBlockDecode(text, next) ==
    LET mark == SelectInSeq(text, LAMBDA ch : ch = "?")
        read == {i \in Usable(text, next) : mark = 0 \/ i < mark}
    IN  [fin |-> mark # 0,
         hex |-> [k \in 1..Cardinality(read) |->
                     IF Nth(read, k) <= Len(text) THEN text[Nth(read, k)] ELSE next]]

JsDecode(msg) ==
    LET hex == JsBlockDecode(msg[1].text, msg[1].next).hex
    IN  IF Len(hex) % 2 = 1 THEN Fail ELSE UnHex(hex)

(* HTML: a sequence of scripts.  "<" follows each, and what is between     *)
(* them is not looked at.                                                  *)
HtmlCapacity(doc) ==
    AtLeast0(FoldLeft(LAMBDA n, text : n + Cardinality(Usable(text, "<")), 0, doc) - 1) \div 2

(* Script after script until the block is in; the mark the last one had no *)
(* room for is written nowhere, its fin being set.                         *)
HtmlEncode(doc, data) ==
    LET Script(st, text) ==
            IF st.left = << >> THEN [st EXCEPT !.out = Append(@, text)]
            ELSE LET done == JsBlock(text, "<", st.left)
                 IN  [out |-> Append(st.out, done.text),
                      left |-> SubSeq(st.left, done.count + 1, Len(st.left))]
        end == FoldLeft(Script, [out |-> << >>, left |-> HexText(data)], doc)
    IN  IF HtmlCapacity(doc) < Len(data) \/ end.left # << >> THEN Fail ELSE end.out

HtmlDecode(doc) ==
    LET Script(st, text) ==
            LET read == JsBlockDecode(text, "<")
            IN  IF st.fin THEN st ELSE [fin |-> read.fin, hex |-> st.hex \o read.hex]
        hex == FoldLeft(Script, [fin |-> FALSE, hex |-> << >>], doc).hex
    IN  IF Len(hex) % 2 = 1 THEN Fail ELSE UnHex(hex)

-----------------------------------------------------------------------------
(* Base64, 6 bits a character, and cookies: 64 is the padding, 65 "=" and  *)
(* 66 ";".                                                                 *)

Bits(data) == [i \in 1..(8 * Len(data)) |->
    (ValueOf[data[((i - 1) \div 8) + 1]] \div 2^(7 - ((i - 1) % 8))) % 2]
Number(bits) == FoldLeft(LAMBDA n, b : 2 * n + b, 0, bits)

B64Encode(data) ==
    LET n == (8 * Len(data) + 5) \div 6
        bits == Bits(data) \o <<0, 0, 0, 0, 0>>
    IN  [i \in 1..n |-> Number(SubSeq(bits, 6 * i - 5, 6 * i))]
        \o [i \in 1..((3 - (Len(data) % 3)) % 3) |-> 64]

B64Decode(text) ==
    LET digits == SelectSeq(text, LAMBDA d : d < 64)
        bits == [i \in 1..(6 * Len(digits)) |->
                    (digits[((i - 1) \div 6) + 1] \div 2^(5 - ((i - 1) % 6))) % 2]
    IN  [i \in 1..(Len(bits) \div 8) |->
            CHOOSE b \in Byte \cup {Garbage} :
                IF b \in Byte THEN ValueOf[b] = Number(SubSeq(bits, 8 * i - 7, 8 * i))
                ELSE \A c \in Byte : ValueOf[c] # Number(SubSeq(bits, 8 * i - 7, 8 * i))]

(* gen_one_cookie and what gen_b64_cookies writes after it: the lengths of *)
(* the text taken and what it becomes.                                     *)
OneCookie(text) ==
    LET n == Len(text)
    IN  IF n < 5 THEN {[left |-> << >>, out |-> text]}
        ELSE {LET len == Min({value, n - name})
                  left == SubSeq(text, name + len + 1, n)
                  out == SubSeq(text, 1, name) \o <<65>> \o SubSeq(text, name + 1, name + len)
              IN  IF Len(left) < 5 THEN [left |-> << >>, out |-> out \o left]
                  ELSE [left |-> left, out |-> Append(out, 66)] :
              name \in 1..(IF n < 10 THEN 5 ELSE 10), value \in 0..((n * 2) \div 3 - 1)}

UnwrapB64Cookies(text) == SelectSeq(text, LAMBDA ch : ch \notin {65, 66})

-----------------------------------------------------------------------------
(* One block.                                                              *)

Capacity(k, doc) ==
    CASE k = "gif" -> GifCapacity(doc)
      [] k = "jpg" -> JpgCapacity(doc)
      [] k = "png" -> PngCapacity(doc)
      [] k = "swf" -> SwfCapacity
      [] k = "pdf" -> PdfCapacity(doc)
      [] k = "js" -> JsCapacity(doc)
      [] k = "html" -> HtmlCapacity(doc)
      [] OTHER -> Max({Len(b) : b \in Block})

Encodings(k, doc, data) ==
    CASE k = "gif" -> {GifEncode(doc, data)}
      [] k = "jpg" -> {JpgEncode(doc, data)}
      [] k = "png" -> {PngEncode(doc, data)}
      [] k = "swf" -> SwfEncode(doc, data)
      [] k = "pdf" -> PdfEncode(doc, data)
      [] k = "js" -> {JsEncode(doc, data)}
      [] k = "html" -> {HtmlEncode(doc, data)}
      [] OTHER -> {AddDelimiter(data)}

Decoding(k, doc, msg) ==
    CASE k = "gif" -> GifDecode(msg)
      [] k = "jpg" -> JpgDecode(msg)
      [] k = "png" -> PngDecode(msg)
      [] k = "swf" -> SwfDecode(msg)
      [] k = "pdf" -> PdfDecode(msg)
      [] k = "js" -> JsDecode(msg)
      [] k = "html" -> HtmlDecode(msg)
      [] k = "cookie" -> B64Decode(UnwrapB64Cookies(msg))
      [] OTHER -> RemoveDelimiters(msg, Min({doc, Len(msg)}))

Init == /\ stage = "idle" /\ kind = "none" /\ cover = << >> /\ block = << >>
        /\ sent = << >> /\ rest = << >> /\ got = << >>

UpTo(n) == {b \in Block : Len(b) <= n}

(* A block no longer than the cover is said to take.                       *)
Pick == /\ stage = "idle"
        /\ \E k \in Kinds : \E doc \in Cover[k] : \E data \in UpTo(Capacity(k, doc)) :
              /\ kind' = k /\ cover' = doc /\ block' = data
        /\ stage' = "picked"
        /\ UNCHANGED <<sent, rest, got>>

Encode == /\ stage = "picked" /\ kind # "cookie"
          /\ sent' \in Encodings(kind, cover, block)
          /\ stage' = "sent"
          /\ UNCHANGED <<kind, cover, block, rest, got>>

EncodeBase64 == /\ stage = "picked" /\ kind = "cookie"
                /\ rest' = B64Encode(block)
                /\ stage' = "wrapping"
                /\ UNCHANGED <<kind, cover, block, sent, got>>

GenOneCookie == /\ stage = "wrapping"
                /\ \E c \in OneCookie(rest) :
                      /\ sent' = sent \o c.out
                      /\ rest' = c.left
                      /\ stage' = IF c.left = << >> THEN "sent" ELSE "wrapping"
                /\ UNCHANGED <<kind, cover, block, got>>

Decode == /\ stage = "sent" /\ sent # Fail
          /\ got' = Decoding(kind, cover, sent)
          /\ stage' = "received"
          /\ UNCHANGED <<kind, cover, block, sent, rest>>

Next == Pick \/ Encode \/ EncodeBase64 \/ GenOneCookie \/ Decode

Spec == Init /\ [][Next]_vars

-----------------------------------------------------------------------------
(* Properties.                                                             *)

(* Three cases lose a block: a GIF cover filled to within the difference   *)
(* of a size_t and what its capacity allows for a length, a PDF stream     *)
(* whose checksum ends in CR, and an HTML block that ends at the end of a  *)
(* script.                                                                 *)
GifOverrun == kind = "gif" /\ Len(block) > GifCapacity(cover) - (SizeofSizeT - SizeofInt - 1)
PdfCarriageReturn == kind = "pdf" /\ sent # Fail /\ sent[1].blob.checksum = "CR"
HtmlEndsWithScript ==
    kind = "html" /\ \E k \in DOMAIN cover :
        /\ Len(cover[k]) \in Usable(cover[k], "<")
        /\ 2 * Len(block) = FoldLeft(LAMBDA n, text : n + Cardinality(Usable(text, "<")), 0,
                                    SubSeq(cover, 1, k))

(* What a decoder takes out of a message is the block the encoder put in,  *)
(* whatever the cover, the bytes of the block and the pieces it comes in.  *)
RoundTrip ==
    (stage = "received" /\ ~GifOverrun /\ ~PdfCarriageReturn /\ ~HtmlEndsWithScript)
        => got = block

(* An encoder takes every block its capacity function says the cover can   *)
(* take.  A PDF cover may lack the "obj" that encode alone asks for, and   *)
(* the block may be too much for its first stream.                         *)
CapacityHonoured == (stage = "sent" /\ kind # "pdf") => sent # Fail

(* htmlSteg.cc:143: "handling the boundary case in which JS_DELIMITER      *)
(* hasn't been added by encode()": a block in an HTML cover comes out.     *)
HtmlBoundary == (stage = "received" /\ kind = "html") => got = block

(* gifSteg.cc:60: "4 for len": a GIF cover takes what its capacity says.   *)
GifLength == (stage = "received" /\ kind = "gif") => got = block
=============================================================================
