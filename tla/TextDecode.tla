----------------------------- MODULE TextDecode -----------------------------
(* Response::text_with_charset: the body is collected chunk by chunk, then *)
(* decode_body (encoding.rs) picks a decoder from a byte order mark, the   *)
(* declared charset or the caller's default. UTF-16 is decoded in Rust and *)
(* compared here with the WHATWG decoder, a machine that reads the body a  *)
(* byte at a time; the system's converters are known by which one is used. *)
(* Definitions named Bug... are faulty variants of the ones that follow.   *)
EXTENDS Integers, SequencesExt, Option

CONSTANTS
  Fallbacks,  \* default_encoding arguments
  Openings,   \* what bodies may begin with, byte order marks among them
  Following,  \* the bytes that may follow
  MaxBody,    \* bound on the length of a body
  Unknown     \* a label that is none of WHATWG's

VARIABLES
  charset,    \* the label text_with_charset passes to decode_body
  icu,        \* whether icu.dll and its converters are available
  body,       \* the parts collect_body has joined
  failed,     \* a chunk failed: there is no text
  reader      \* the WHATWG decoder, for each byte order

textVars == <<charset, icu, body, failed, reader>>

-----------------------------------------------------------------------------
(* The tables of encoding.rs *)

\* whatwg_label_to_codepage, an encoding for all its labels.
Codepage ==
  [utf_8 |-> 65001, ibm866 |-> 866, iso_8859_2 |-> 28592, iso_8859_3 |-> 28593,
   iso_8859_4 |-> 28594, iso_8859_5 |-> 28595, iso_8859_6 |-> 28596,
   iso_8859_7 |-> 28597, iso_8859_8 |-> 28598, iso_8859_8_i |-> 38598,
   iso_8859_10 |-> 28600, iso_8859_13 |-> 28603, iso_8859_14 |-> 28604,
   iso_8859_15 |-> 28605, iso_8859_16 |-> 28606, koi8_r |-> 20866,
   koi8_u |-> 21866, macintosh |-> 10000, windows_874 |-> 874,
   windows_1250 |-> 1250, windows_1251 |-> 1251, windows_1252 |-> 1252,
   windows_1253 |-> 1253, windows_1254 |-> 1254, windows_1255 |-> 1255,
   windows_1256 |-> 1256, windows_1257 |-> 1257, windows_1258 |-> 1258,
   x_mac_cyrillic |-> 10017, gbk |-> 936, gb18030 |-> 54936, big5 |-> 950,
   euc_jp |-> 51932, iso_2022_jp |-> 50220, shift_jis |-> 932, euc_kr |-> 51949,
   utf_16be |-> 1201, utf_16le |-> 1200, x_user_defined |-> 0,
   replacement |-> -1]

\* The charset parameters of Content-Type headers.
Charsets == DOMAIN Codepage \union {Unknown}

\* What the constants have to be: a default is any label.
TextConstantsOK ==
  /\ Fallbacks \subseteq Charsets /\ Unknown \notin DOMAIN Codepage
  /\ None \notin Charsets \union Int
  /\ MaxBody \in Nat

\* codepage_backend: the codepages ICU is required or preferred for, each with
\* the converter it opens.
RequiredConverters == {<<28600, "ISO-8859-10">>, <<28604, "ISO-8859-14">>, <<51932, "EUC-JP">>}
PreferredConverters ==
  {<<28593, "ISO-8859-3">>, <<28596, "ISO-8859-6">>, <<28597, "ISO-8859-7">>,
   <<28598, "ISO-8859-8">>, <<38598, "ISO-8859-8">>, <<10000, "macintosh">>,
   <<1253, "windows-1253">>, <<1257, "windows-1257">>, <<10017, "x-mac-cyrillic">>,
   <<936, "gb18030">>, <<54936, "gb18030">>, <<950, "Big5-HKSCS">>,
   <<51949, "windows-949">>, <<874, "ibm-1162">>, <<50220, "ISO-2022-JP">>}
IcuRequired == {converter[1] : converter \in RequiredConverters}
IcuPreferred == {converter[1] : converter \in PreferredConverters}
Nls == {866, 28592, 28594, 28595, 28603, 28605, 20866, 21866, 1250, 1251, 1252,
        1254, 1255, 1256, 1258, 932}
\* Decoded by decode_body itself.
Special == {Codepage.x_user_defined, Codepage.replacement, Codepage.iso_8859_16}

-----------------------------------------------------------------------------
(* UTF-16 *)

Replacement == 65533
IsHigh(u) == 55296 <= u /\ u <= 56319
IsLow(u) == 56320 <= u /\ u <= 57343
Scalar(high, low) == 65536 + (high - 55296) * 1024 + (low - 56320)

CodeUnit(order, b1, b2) == IF order = "le" THEN b1 + 256 * b2 ELSE 256 * b1 + b2

\* as_chunks::<2> and from_bytes: the whole code units, without the odd byte.
Units(order, data) ==
  [i \in 1..(Len(data) \div 2) |-> CodeUnit(order, data[2 * i - 1], data[2 * i])]

\* String::from_utf16_lossy: pairs are joined, lone surrogates replaced.
Lossy(words) ==
  LET paired(i) == /\ i \in 1..(Len(words) - 1)
                   /\ IsHigh(words[i]) /\ IsLow(words[i + 1])
      char(i) == IF paired(i) THEN <<Scalar(words[i], words[i + 1])>>
                 ELSE IF paired(i - 1) THEN <<>>
                 ELSE IF IsHigh(words[i]) \/ IsLow(words[i]) THEN <<Replacement>>
                 ELSE <<words[i]>>
  IN  FlattenSeq([i \in DOMAIN words |-> char(i)])

\* The odd byte always costs a replacement character of its own.
BugTrailing(words, odd) == odd

\* An odd byte is one more error, unless a high surrogate was left waiting too.
Trailing(words, odd) == odd /\ (words = <<>> \/ ~IsHigh(Last(words)))

DecodeUtf16(order, data) ==
  LET words == Units(order, data)
  IN  Lossy(words) \o IF Trailing(words, Len(data) % 2 = 1) THEN <<Replacement>>
                      ELSE <<>>

-----------------------------------------------------------------------------
(* decode_body *)

BomOf(data) ==
  IF IsPrefix(<<239, 187, 191>>, data) THEN "utf_8"
  ELSE IF IsPrefix(<<255, 254>>, data) THEN "utf_16le"
  ELSE IF IsPrefix(<<254, 255>>, data) THEN "utf_16be"
  ELSE None

BomLength(bom) == IF bom = None THEN 0 ELSE IF bom = "utf_8" THEN 3 ELSE 2

\* A text decoded here, or the bytes as they are handed to a decoder.
Text(by, chars) == [by |-> by, chars |-> chars]
Handed(by, bytes) == [by |-> by, bytes |-> bytes]

\* ASCII, and the upper half in the private use area.
UserDefined(data) ==
  [i \in DOMAIN data |-> IF data[i] < 128 THEN data[i] ELSE 63232 + data[i]]

\* The table's verdict, and icu_decode's or decode_icu_preferred's.
ByCodepage(cp, data) ==
  IF cp = Codepage.replacement THEN Text("rust", <<Replacement>>)
  ELSE IF cp = Codepage.x_user_defined THEN Text("rust", UserDefined(data))
  ELSE IF cp \in Special THEN Handed("rust", data)
  ELSE IF cp \in IcuRequired THEN Handed(IF icu THEN "icu" ELSE "error", data)
  ELSE IF cp \in IcuPreferred THEN Handed(IF icu THEN "icu" ELSE "nls", data)
  ELSE IF cp \in Nls THEN Handed("nls", data)
  ELSE Handed("error", data)

DecodeBody(data, label) ==
  LET bom == BomOf(data)
      rest == SubSeq(data, BomLength(bom) + 1, Len(data))
      encoding == IF bom = None THEN label ELSE bom
  IN  IF data = <<>> THEN Text("rust", <<>>)
      ELSE IF encoding \in {"utf_8", Unknown} THEN Handed("rust", rest)
      ELSE IF encoding = "utf_16le" THEN Text("rust", DecodeUtf16("le", rest))
      ELSE IF encoding = "utf_16be" THEN Text("rust", DecodeUtf16("be", rest))
      ELSE ByCodepage(Codepage[encoding], rest)

-----------------------------------------------------------------------------
(* The WHATWG UTF-16 decoder, fed from the start of the body *)

Fresh == [lead |-> None, surrogate |-> None, out |-> <<>>]

\* A unit that is no low surrogate ends the pending one in error and is read
\* again with nothing pending.
Fed(order, r, byte) ==
  IF r.lead = None THEN [r EXCEPT !.lead = byte]
  ELSE LET unit == CodeUnit(order, r.lead, byte)
           broken == IF r.surrogate = None THEN <<>> ELSE <<Replacement>>
           Emit(chars) == [lead |-> None, surrogate |-> None, out |-> r.out \o chars]
       IN  IF r.surrogate # None /\ IsLow(unit)
             THEN Emit(<<Scalar(r.surrogate, unit)>>)
           ELSE IF IsHigh(unit)
             THEN [Emit(broken) EXCEPT !.surrogate = unit]
           ELSE IF IsLow(unit) THEN Emit(broken \o <<Replacement>>)
           ELSE Emit(broken \o <<unit>>)

\* End of queue: whatever is pending is one error.
Ended(r) ==
  IF r.lead = None /\ r.surrogate = None THEN r.out
  ELSE Append(r.out, Replacement)

-----------------------------------------------------------------------------
(* text_with_charset *)

Orders == {"le", "be"}

\* The declared charset wins over the caller's default.
TextInit ==
  /\ \E declared \in Charsets \union {None}, default \in Fallbacks :
       charset = IF declared = None THEN default ELSE declared
  /\ icu \in BOOLEAN
  /\ body = <<>>
  /\ failed = FALSE
  /\ reader = [order \in Orders |-> Fresh]

\* Only an opening, what a mark says of the rest, or a body that may be UTF-16,
\* is worth going on with.
Interesting(byte) ==
  \/ \E opening \in Openings : IsPrefix(Append(body, byte), opening)
  \/ /\ byte \in Following
     /\ \/ body = <<>>
        \/ charset \in {"utf_16le", "utf_16be"}
        \/ BomOf(body) # None

\* collect_body: one more chunk.
Chunk(byte) ==
  /\ ~failed
  /\ Interesting(byte)
  /\ Len(body) < MaxBody
  /\ body' = Append(body, byte)
  /\ reader' = [order \in Orders |-> Fed(order, reader[order], byte)]
  /\ UNCHANGED <<charset, icu, failed>>

\* A failed read or a timeout ends the collection, and the parts are dropped.
ChunkFails ==
  /\ ~failed
  /\ failed' = TRUE
  /\ UNCHANGED <<charset, icu, body, reader>>

TextNext == (\E byte \in 0..255 : Chunk(byte)) \/ ChunkFails

TextDone == failed /\ UNCHANGED textVars

-----------------------------------------------------------------------------
(* Properties *)

TextTypeOK ==
  /\ charset \in Charsets \union Fallbacks
  /\ icu \in BOOLEAN
  /\ failed \in BOOLEAN
  /\ body \in Seq(0..255) /\ Len(body) <= MaxBody
  /\ \A order \in Orders : reader[order].out \in Seq(0..1114111)

\* The encodings the doc of text() says require system ICU, and those ICU
\* provides better than NLS does (the comments on codepage_backend).
Rare == {"iso_8859_10", "iso_8859_14", "euc_jp"}
IcuProvided ==
  {"iso_8859_3", "iso_8859_6", "iso_8859_7", "iso_8859_8", "iso_8859_8_i",
   "macintosh", "windows_1253", "windows_1257", "x_mac_cyrillic", "gbk",
   "gb18030", "big5", "euc_kr", "windows_874", "iso_2022_jp"}
InRust == {"utf_8", Unknown, "iso_8859_16"}

\* The decoder of a text that is neither UTF-16 nor x-user-defined nor nothing
\* but U+FFFD: Rust, system ICU or NLS, or none without ICU.
Decoder(encoding) ==
  IF encoding \in InRust THEN "rust"
  ELSE IF encoding \in Rare THEN (IF icu THEN "icu" ELSE "error")
  ELSE IF encoding \in IcuProvided /\ icu THEN "icu"
  ELSE "nls"

\* A byte order mark, or else the label, names the encoding.
Marks8 == <<239, 187, 191>>
Marks16 == [le |-> <<255, 254>>, be |-> <<254, 255>>]
Decides ==
  IF IsPrefix(Marks8, body) THEN "utf_8"
  ELSE IF IsPrefix(Marks16.le, body) THEN "utf_16le"
  ELSE IF IsPrefix(Marks16.be, body) THEN "utf_16be"
  ELSE charset

\* What WHATWG's decoder makes of the body, the mark skipped.
ReadAs(order) ==
  IF IsPrefix(Marks16[order], body) THEN Tail(Ended(reader[order]))
  ELSE Ended(reader[order])

\* The standard's x-user-defined: the upper half is U+F780 and on.
PrivateUse ==
  [i \in DOMAIN body |-> IF body[i] < 128 THEN body[i] ELSE 63360 + (body[i] - 128)]

\* If the body ended here, its text would be what the doc of text() says: an
\* empty body has an empty text; a byte order mark decides before the label
\* does and is not part of the text, and nothing else is left out; UTF-16 comes
\* out as WHATWG's decoder has it wherever the body is cut; every encoding of
\* the standard has the decoder the docs name, without icu.dll all but
\* ISO-8859-10, ISO-8859-14 and EUC-JP; and the bytes of x-user-defined and of
\* replacement stand for what they stand for there (decode_body).
DecodedAsDocumented ==
  LET text == DecodeBody(body, charset)
  IN  IF body = <<>> THEN text = Text("rust", <<>>)
      ELSE IF Decides = "utf_16le" THEN text = Text("rust", ReadAs("le"))
      ELSE IF Decides = "utf_16be" THEN text = Text("rust", ReadAs("be"))
      ELSE IF Decides = "x_user_defined" THEN text = Text("rust", PrivateUse)
      ELSE IF Decides = "replacement" THEN text = Text("rust", <<Replacement>>)
      ELSE /\ text.by = Decoder(Decides)
           /\ body = (IF IsPrefix(Marks8, body) THEN Marks8 ELSE <<>>) \o text.bytes

=============================================================================
