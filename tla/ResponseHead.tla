---------------------------- MODULE ResponseHead ----------------------------
(* How execute_request asks WinHTTP for the head of a response once it is  *)
(* there: status, version, header block and final URL (winhttp.rs,         *)
(* abi/winhttp.rs), each question of which may fail. A header block is a   *)
(* sequence of lines, a URL one of units; Nul is what ends either.         *)
(* Definitions named Bug... are faulty variants of the ones that follow.   *)
EXTENDS Integers, SequencesExt

CONSTANTS
  Statuses,   \* status codes WinHTTP may report
  Versions,   \* version texts
  Long,       \* those of them that do not fit the buffer on the stack
  Blocks,     \* header blocks, sequences of lines
  Urls,       \* final URLs, sequences of units
  Parsable,   \* those of them Url::parse takes
  Mine,       \* the URL the request was made for
  Nul,        \* the NUL at the end of a text
  None        \* Option::None

\* What the constants have to be: texts end where their NUL is, and None is none.
ConstantsOK ==
  /\ \A block \in Blocks : block \in Seq(Range(block) \ {Nul})
  /\ \A url \in Urls : url \in Seq(Range(url) \ {Nul})
  /\ None # "HTTP/1.0"

VARIABLES
  stage,   \* the question asked next, done or failed
  wire,    \* what WinHTTP has received: [status, flags, version, block, url]
  buf,     \* the buffer of the question under way
  parsed,  \* the lines of it parse_raw_headers is done with
  head     \* what is known: [status, flags, text, version, headers, url]

headVars == <<stage, wire, buf, parsed, head>>

Unasked ==
  [status |-> None, flags |-> None, text |-> None, version |-> None, headers |-> None,
   url |-> None]

-----------------------------------------------------------------------------

HeadInit ==
  /\ stage = "status"
  /\ wire \in [status : Statuses, flags : SUBSET {"HTTP2", "HTTP3"}, version : Versions,
               block : Blocks, url : Urls]
  /\ buf = None
  /\ parsed = 0
  /\ head = Unasked

Fails ==
  /\ stage' = "failed"
  /\ UNCHANGED <<wire, buf, parsed, head>>

\* StatusCode::from_u16 takes three digits.
ParseStatus(code) == IF code < 65536 /\ code \in 100..999 THEN code ELSE None

QueryStatus ==
  /\ stage = "status"
  /\ IF ParseStatus(wire.status) = None THEN Fails
     ELSE /\ stage' = "flags"
          /\ head' = [head EXCEPT !.status = ParseStatus(wire.status)]
          /\ UNCHANGED <<wire, buf, parsed>>

\* The status or the headers cannot be had: no response.
QueryFails == stage \in {"status", "size headers", "fill headers"} /\ Fails

\* The protocol flags, from Windows 10 1607 on, HTTP/3 being known since 21H1.
QueryFlags ==
  /\ stage = "flags"
  /\ stage' = "version"
  /\ \E flags \in {None, wire.flags, wire.flags \ {"HTTP3"}} :
       head' = [head EXCEPT !.flags = flags]
  /\ UNCHANGED <<wire, buf, parsed>>

\* The text decides whatever was negotiated.
BugResolveVersion(flags, text) == IF text = "HTTP/1.0" THEN text ELSE "HTTP/1.1"

\* The flags take precedence, then the text, and then it is HTTP/1.1.
ResolveVersion(flags, text) ==
  IF flags # None /\ "HTTP3" \in flags THEN "HTTP/3"
  ELSE IF flags # None /\ "HTTP2" \in flags THEN "HTTP/2"
  ELSE IF text = "HTTP/1.0" THEN text
  ELSE "HTTP/1.1"

\* A text that does not fit the buffer, or cannot be had, says nothing.
QueryVersion ==
  /\ stage = "version"
  /\ stage' = "size headers"
  /\ \E text \in {None} \union ({wire.version} \ Long) :
       head' = [head EXCEPT !.text = text, !.version = ResolveVersion(head.flags, text)]
  /\ UNCHANGED <<wire, buf, parsed>>

Zeros(n) == [i \in 1..n |-> Nul]

\* What the buffer holds after the second call, and truncated to the length
\* that it returned. The size counts a NUL that this length does not.
Filled(text) == text \o Zeros(Len(buf) - Len(text))
Taken(text, length) == SubSeq(Filled(text), 1, length)

\* The first call says the size, in which the NUL is counted.
SizeHeaders ==
  /\ stage = "size headers"
  /\ stage' = "fill headers"
  /\ buf' = Zeros(Len(wire.block) + 1)
  /\ UNCHANGED <<wire, parsed, head>>

\* A block without lines succeeds without a buffer.
NoHeaders ==
  /\ stage = "size headers" /\ wire.block = <<>>
  /\ stage' = "size url"
  /\ head' = [head EXCEPT !.headers = [n \in {} |-> <<>>]]
  /\ UNCHANGED <<wire, buf, parsed>>

FillHeaders ==
  /\ stage = "fill headers"
  /\ stage' = "parse headers"
  /\ buf' = Taken(wire.block, Len(wire.block))
  /\ head' = [head EXCEPT !.headers = [n \in {} |-> <<>>]]
  /\ UNCHANGED <<wire, parsed>>

\* The lines that have a name and a value, both valid.
IsHeader(line) == line # Nul /\ line.kind = "header" /\ line.valid

\* HeaderMap::append.
Appended(map, name, value) ==
  [n \in DOMAIN map \union {name} |->
     IF n # name THEN map[n]
     ELSE Append(IF n \in DOMAIN map THEN map[n] ELSE <<>>, value)]

\* parse_raw_headers goes through the lines in order, and skips the others.
ParseLine ==
  /\ stage = "parse headers" /\ parsed < Len(buf)
  /\ parsed' = parsed + 1
  /\ LET line == buf[parsed + 1]
     IN  head' = IF IsHeader(line)
                 THEN [head EXCEPT !.headers = Appended(@, line.name, line.value)]
                 ELSE head
  /\ UNCHANGED <<stage, wire, buf>>

LinesOver ==
  /\ stage = "parse headers" /\ parsed = Len(buf)
  /\ stage' = "size url"
  /\ UNCHANGED <<wire, buf, parsed, head>>

\* The final URL is that of the request when WinHTTP cannot say.
NoUrl ==
  /\ stage \in {"size url", "fill url"}
  /\ stage' = "done"
  /\ head' = [head EXCEPT !.url = Mine]
  /\ UNCHANGED <<wire, buf, parsed>>

SizeUrl ==
  /\ stage = "size url" /\ wire.url # <<>>
  /\ stage' = "fill url"
  /\ buf' = Zeros(Len(wire.url) + 1)
  /\ UNCHANGED <<wire, parsed, head>>

WithoutNul(text) == IF text # <<>> /\ Last(text) = Nul THEN Front(text) ELSE text

\* An option's size may or may not count the NUL.
FillUrl ==
  /\ stage = "fill url"
  /\ stage' = "done"
  /\ buf' = Filled(wire.url)
  /\ \E length \in {Len(wire.url), Len(wire.url) + 1} :
       LET text == WithoutNul(Taken(wire.url, length))
       IN  head' = [head EXCEPT !.url = IF text \in Parsable THEN text ELSE Mine]
  /\ UNCHANGED <<wire, parsed>>

HeadNext ==
  \/ QueryStatus \/ QueryFails \/ QueryFlags \/ QueryVersion
  \/ SizeHeaders \/ NoHeaders \/ FillHeaders \/ ParseLine \/ LinesOver
  \/ SizeUrl \/ NoUrl \/ FillUrl

HeadOver == stage \in {"done", "failed"}
HeadDone == HeadOver /\ UNCHANGED headVars

-----------------------------------------------------------------------------
(* Properties *)

\* The type invariant of the questions.
HeadTypeOK ==
  /\ stage \in {"status", "flags", "version", "size headers", "fill headers", "parse headers",
                "size url", "fill url", "done", "failed"}
  /\ head.status \in 100..999 \union {None}
  /\ head.version \in {None, "HTTP/1.0", "HTTP/1.1", "HTTP/2", "HTTP/3"}
  /\ stage = "done" => \A field \in DOMAIN head \ {"flags", "text"} : head[field] # None

\* The lines that are headers, and those of them up to one that name one.
HeaderLines == {i \in DOMAIN wire.block : IsHeader(wire.block[i])}
LinesOf(name, upto) == {i \in HeaderLines : i <= upto /\ wire.block[i].name = name}

\* The values of these lines, all of them and in the order of the lines.
AllInOrder(values, lines) ==
  \E at \in [DOMAIN values -> lines] :
    /\ Range(at) = lines
    /\ \A i \in DOMAIN values, j \in DOMAIN values : i < j => at[i] < at[j]
    /\ \A i \in DOMAIN values : values[i] = wire.block[at[i]].value

\* The newest protocol that WinHTTP reported as used, or else the version of
\* the text, if either could be had; HTTP/1.1 for want of both, which is then
\* also claimed for a response that came by HTTP/2.
VersionAsReported ==
  LET used == IF head.flags = None THEN {} ELSE head.flags
  IN  /\ used \subseteq wire.flags /\ head.text \in {None, wire.version}
      /\ head.version = "HTTP/3" <=> "HTTP3" \in used
      /\ head.version = "HTTP/2" <=> "HTTP2" \in used /\ "HTTP3" \notin used
      /\ head.version = "HTTP/1.0" <=>
           "HTTP2" \notin used /\ "HTTP3" \notin used /\ head.text = "HTTP/1.0"

\* What a response says is what WinHTTP received, whole: no status cut to its
\* low bits, the values of a header all there and in order, the HTTP version
\* as it was reported, no URL cut or with a NUL in it (query_status_code,
\* query_version, query_headers, query_option_url).
HeadAsReceived ==
  stage = "done" =>
    /\ head.status = wire.status
    /\ VersionAsReported
    /\ DOMAIN head.headers = {wire.block[i].name : i \in HeaderLines}
    /\ \A n \in DOMAIN head.headers :
         AllInOrder(head.headers[n], LinesOf(n, Len(wire.block)))
    /\ head.url \in {wire.url, Mine}
=============================================================================
