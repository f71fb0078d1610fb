------------------------------ MODULE BodyUse ------------------------------
(* What a caller does with a Response (response.rs, body.rs): reading chunk *)
(* by chunk, collecting, streaming, or handing it on as an http::Response  *)
(* or as the body of another request. Exchange has a single read; here it  *)
(* is one of many, while the Client may be gone and the deadline run out.  *)
(* A read may be given up with its holder, or alone: a dropped chunk()     *)
(* leaves the Response, and WinHTTP still at the read.                     *)
(* Definitions named Bug... are faulty variants of the ones that follow.   *)
EXTENDS Integers, Sequences, FiniteSets

CONSTANTS
  MaxChunks,  \* bound on the chunks of a response
  MaxReads,   \* bound on the calls of chunk(), or the polls of a stream
  None        \* Option::None

Responses == [raw : BOOLEAN, client : BOOLEAN]

\* What the constants have to be.
ConstantsOK == MaxChunks \in Nat /\ MaxReads \in Nat /\ None \notin Responses

VARIABLES
  resp,      \* the Response: [raw, client], None once it is dropped
  holder,    \* who has it: response, collecting, stream, body, nobody
  reading,   \* whether a read is under way
  client,    \* whether the caller still has the Client
  server,    \* what is to come: [left, breaks]
  late,      \* whether the deadline has passed
  adrift,    \* how many reads WinHTTP works on that were given up
  got,       \* history: what became of each read, in order
  lost,      \* history: the chunks that came with nobody to have them
  total      \* history: the chunks there were at first

vars == <<resp, holder, reading, client, server, late, adrift, got, lost, total>>

Ends == {"end", "whole", "error", "timeout", "consumed"}
Chunks == {"data", "torn"}

-----------------------------------------------------------------------------

\* from_raw: the Response has a Client of its own beside the caller's.
Init ==
  /\ resp = [raw |-> TRUE, client |-> TRUE]
  /\ holder = "response"
  /\ reading = FALSE /\ late = FALSE /\ client = TRUE
  /\ total \in 0..MaxChunks
  /\ server \in [left : {total}, breaks : BOOLEAN]
  /\ got = <<>> /\ adrift = 0 /\ lost = 0

DropClient ==
  /\ client
  /\ client' = FALSE
  /\ UNCHANGED <<resp, holder, reading, server, late, adrift, got, lost, total>>

DeadlinePasses ==
  /\ ~ late
  /\ late' = TRUE
  /\ UNCHANGED <<resp, holder, reading, client, server, adrift, got, lost, total>>

\* bytes_stream, From<Response> for Body, From<Response> for http::Response,
\* text, json, bytes: each takes the Response.
HandTo(to) ==
  /\ holder = "response" /\ ~ reading
  /\ holder' = to
  /\ UNCHANGED <<reading, client, server, late, adrift, got, lost, total>>

\* into_parts moves the raw response out, and forgets the client beside it.
BugStreamer == resp' = [resp EXCEPT !.client = FALSE]

\* into_parts: of what is taken apart the streamer keeps handle and client.
Streamer == UNCHANGED resp

IntoStream == HandTo("stream") /\ UNCHANGED resp
IntoHttpResponse == HandTo("body") /\ Streamer
IntoBody == HandTo("body") /\ UNCHANGED resp
Collect == HandTo("collecting") /\ UNCHANGED resp

-----------------------------------------------------------------------------
(* chunk() *)

\* What the holder makes of an answer: a stream is over after an error, and
\* only its own chunk() leaves a Response behind.
Holds(answer) == holder = "response" \/ answer \in Chunks

\* collect_body's answer at the end is everything.
Told(answer) == IF holder = "collecting" /\ answer = "end" THEN "whole" ELSE answer

\* End and timeout release the handle, and with it the reads given up; other
\* errors leave it.
Answer(answer) ==
  /\ got' = Append(got, Told(answer))
  /\ IF Holds(answer)
       THEN /\ resp' = [resp EXCEPT !.raw = @ /\ answer \notin {"end", "timeout"}]
            /\ UNCHANGED holder
       ELSE resp' = None /\ holder' = "nobody"
  /\ adrift' = IF Holds(answer) /\ answer \notin {"end", "timeout"} THEN adrift ELSE 0

\* With the handle gone, or the deadline passed, nothing is read.
ChunkRefused ==
  /\ resp # None /\ ~ reading /\ Len(got) < MaxReads
  /\ ~ resp.raw \/ late
  /\ Answer(IF resp.raw THEN "timeout" ELSE "consumed")
  /\ UNCHANGED <<reading, client, server, late, lost, total>>

BeginChunk ==
  /\ resp # None /\ ~ reading /\ Len(got) < MaxReads
  /\ resp.raw /\ ~ late
  /\ reading' = TRUE
  /\ UNCHANGED <<resp, holder, client, server, late, adrift, got, lost, total>>

ChunkTimesOut ==
  /\ reading /\ late
  /\ reading' = FALSE
  /\ Answer("timeout")
  /\ UNCHANGED <<client, server, late, lost, total>>

\* WinHTTP keeps a request only while its session is open: without one the
\* read is cancelled. Failed once, a request's reads go on failing.
ReadAnswer ==
  IF ~ (client \/ resp.client) THEN "error"
  ELSE IF server.left > 0 THEN "data"
  ELSE IF server.breaks THEN "error"
  ELSE "end"

\* A read takes its answer from the server; the chunk of one given up is lost.
Takes(givenUp) ==
  /\ server' = IF ReadAnswer = "data" THEN [server EXCEPT !.left = @ - 1] ELSE server
  /\ lost' = IF givenUp /\ ReadAnswer = "data" THEN lost + 1 ELSE lost

\* The chunk() future is dropped and the Response kept: the read stays at
\* WinHTTP, its buffer in read_buffer.
GiveUp ==
  /\ holder = "response" /\ reading
  /\ reading' = FALSE
  /\ adrift' = adrift + 1
  /\ got' = Append(got, "dropped")
  /\ UNCHANGED <<resp, holder, client, server, late, lost, total>>

\* A read given up is answered while no other waits: the signal has no listener.
NobodyIsTold ==
  /\ adrift > 0 /\ ~ reading
  /\ adrift' = adrift - 1
  /\ Takes(TRUE)
  /\ UNCHANGED <<resp, holder, reading, client, late, got, total>>

\* WinHTTP answers in order. With a read given up before it, this one is told
\* that one's answer: the length of a chunk whose bytes are not in the buffer
\* that guard.insert put in the place of the other, and its own read is adrift.
ChunkReturns ==
  /\ reading
  /\ reading' = FALSE
  /\ Answer(IF adrift > 0 /\ ReadAnswer = "data" THEN "torn" ELSE ReadAnswer)
  /\ Takes(adrift > 0)
  /\ UNCHANGED <<client, late, total>>

\* The Response, the stream or the Body is dropped, and with the handle its reads.
DropHolder ==
  /\ resp # None
  /\ resp' = None /\ holder' = "nobody" /\ reading' = FALSE /\ adrift' = 0
  /\ UNCHANGED <<client, server, late, got, lost, total>>

Use ==
  \/ DropClient \/ DeadlinePasses
  \/ IntoStream \/ IntoHttpResponse \/ IntoBody \/ Collect
  \/ ChunkRefused \/ BeginChunk \/ ChunkTimesOut \/ ChunkReturns
  \/ GiveUp \/ NobodyIsTold \/ DropHolder

Over == resp = None \/ Len(got) = MaxReads
Done == Over /\ UNCHANGED vars
Next == Use \/ Done

Spec == Init /\ [][Next]_vars

-----------------------------------------------------------------------------
(* Properties *)

\* The type invariant of the Response and its holder.
TypeOK ==
  /\ resp \in Responses \union {None}
  /\ holder \in {"response", "collecting", "stream", "body", "nobody"}
  /\ resp = None <=> holder = "nobody"
  /\ reading => resp # None
  /\ got \in Seq(Chunks \union Ends \union {"dropped"})
  /\ adrift \in Nat /\ lost \in Nat

Gotten(what) == {i \in DOMAIN got : got[i] = what}

\* Whoever has the Response, and whether the Client is gone: a body ends only
\* when the server has no more of it, and an error is told only if the server
\* broke off; a read never fails for want of a session; after an error no more
\* data comes, and after the end or the deadline nothing at all; every chunk
\* taken from the server was given to the holder unless a read was given up.
\* What that costs is bounded: one chunk for each read given up and each chunk
\* that came out torn, and none is torn before a read was given up (chunk,
\* bytes_stream, into_parts, the comment on _client).
BodyDelivered ==
  /\ \A i \in Gotten("end") \union Gotten("whole") : server = [left |-> 0, breaks |-> FALSE]
  /\ Gotten("error") # {} => server = [left |-> 0, breaks |-> TRUE]
  /\ \A i \in DOMAIN got, j \in DOMAIN got : i < j =>
       /\ got[i] \in {"end", "whole", "timeout", "consumed"} => got[j] = "consumed"
       /\ got[i] = "error" => got[j] \notin Chunks
  /\ Cardinality(Gotten("data")) + lost = total - server.left
  /\ lost <= Cardinality(Gotten("dropped")) + Cardinality(Gotten("torn"))
  /\ \A i \in Gotten("torn") : \E j \in Gotten("dropped") : j < i

=============================================================================
