------------------------------- MODULE Exchange -------------------------------
(* One attempt at a request: execute_request and write_data, then the reads   *)
(* of the response body (src/winhttp.rs, src/response.rs), under the total    *)
(* deadline of Client::execute_inner, with the future free to be dropped at   *)
(* any await.  A program counter names every await; the events come through   *)
(* CompletionSignal; WinHTTP is an environment that accepts, completes or     *)
(* refuses operations.  The drop of the request handle is taken to wait for   *)
(* the callbacks, as CallbackDrain promises.                                  *)
(* Definitions named Bug... are faulty variants of the ones that follow them. *)
EXTENDS Naturals, Sequences, FiniteSets

CONSTANTS
  Requests,      \* the requests to try: [body, parts, https, get]
  ChunkMax,      \* LARGE_BODY_CHUNK_MAX
  ReadMax,       \* bytes a response read may return
  HasDeadline,   \* whether Client::timeout is set
  ReadAgain      \* whether the caller reads on after it dropped a chunk() future

ASSUME BoundsOK == ChunkMax \in Nat \ {0} /\ ReadMax \in Nat \ {0}
ASSUME FlagsOK == HasDeadline \in BOOLEAN /\ ReadAgain \in BOOLEAN
ASSUME RequestsOK ==
  \A r \in Requests :
    /\ r.body \in {"none", "inline", "large", "stream"}
    /\ r.parts \in Seq(Nat)    \* of a stream its chunks, else <<length>> or <<>>
    /\ r.body = "large" => r.parts # <<>>
    /\ r.https \in BOOLEAN /\ r.get \in BOOLEAN

VARIABLES
  req,         \* the request
  at,          \* where its future, or its Response, is
  result,      \* what the caller was told last
  queue,       \* body parts not yet handed to write_data
  frames,      \* the sizes of the buffers handed to write_data so far
  offset,      \* write_data's offset in the last of them
  wire,        \* the units WinHTTP took, as <<frame, position>>
  ops,         \* the operations WinHTTP is working on
  https,       \* whether the request's current URL, after redirects, is https
  abort,       \* CallbackAbort: "no", "reason" or "taken"
  attempted,   \* CertlessRedirectRetry.attempted
  sendBody,    \* the buffer in RequestState.send_body (0: none)
  readBuffer,  \* the buffer in RequestState.read_buffer (0: none)
  abandoned,   \* a chunk() future was dropped before its read completed
  expired,     \* the deadline has passed
  sender, held, rx, mail

EventKinds == {"complete", "write", "read", "failed", "certNeeded", "cancelled"}
Events == [kind : EventKinds, n : Nat]
Event(kind, n) == [kind |-> kind, n |-> n]
Signal == INSTANCE CompletionSignal

bodyVars == <<queue, frames, offset, wire>>
linkVars == <<https, abort, attempted>>
bufVars == <<sendBody, readBuffer>>
signalVars == <<sender, held, rx, mail>>
vars == <<req, at, result, bodyVars, ops, linkVars, bufVars, abandoned, expired, signalVars>>

Awaits == {"awaitSend", "awaitWrite", "awaitReceive", "awaitResend", "awaitRead"}
Places == Awaits \cup {"setup", "send", "nextChunk", "write", "receive", "resend", "respond",
                       "idle", "closing", "gone"}
Results == {"none", "ok", "eof", "error", "reason", "timeout", "dropped"}

Last(s) == s[Len(s)]
Cut(n) ==   \* the pieces of an n-byte body, at most ChunkMax each
  [i \in 1 .. (n + ChunkMax - 1) \div ChunkMax |->
     IF i * ChunkMax <= n THEN ChunkMax ELSE n % ChunkMax]
Pieces(r) == IF r.body = "large" THEN Cut(r.parts[1]) ELSE r.parts

Init ==
  /\ req \in Requests
  /\ at = "setup" /\ result = "none"
  /\ queue = Pieces(req) /\ frames = <<>> /\ offset = 0 /\ wire = <<>>
  /\ ops = {}
  /\ https = req.https /\ abort = "no" /\ attempted = FALSE
  /\ sendBody = 0 /\ readBuffer = 0
  /\ abandoned = FALSE /\ expired = FALSE
  /\ Signal!SignalInit

-----------------------------------------------------------------------------
(* Leaving the request, and await_win32.                                     *)

\* The future ends: what it owns is dropped, the handle first.
Leave(res) == at' = "closing" /\ result' = res

\* await_win32: listen, start, and wait, unless WinHTTP refuses (Refused).
Start(kind, buffer, to) ==
  /\ Signal!Listen
  /\ abort = "no"
  /\ ops' = ops \cup {[kind |-> kind, buffer |-> buffer, from |-> offset]}
  /\ at' = to

Arrived(e) == mail = {e}
Waiting == rx = "open" /\ mail = {}

\* into_result: an abort's reason, once, in place of the error of the event.
Fail(e) ==
  IF abort = "reason"
  THEN Leave("reason") /\ abort' = "taken"
  ELSE Leave("error") /\ UNCHANGED abort

-----------------------------------------------------------------------------
(* execute_request up to the headers.                                        *)

\* The setup of the handle; a body in memory goes to send_body before it.
Setup ==
  /\ at = "setup" /\ ~expired
  /\ sendBody' = IF req.body \in {"inline", "large"} THEN 1 ELSE 0
  /\ \/ at' = "send" /\ UNCHANGED result
     \/ Leave("error")
  /\ UNCHANGED <<req, bodyVars, ops, linkVars, readBuffer, abandoned, expired, signalVars>>

\* execute_inner: no time left, no attempt.
SetupTooLate ==
  /\ at = "setup" /\ expired
  /\ Leave("timeout")
  /\ UNCHANGED <<req, bodyVars, ops, linkVars, bufVars, abandoned, expired, signalVars>>

InlineBuffer == IF req.body = "inline" THEN 1 ELSE 0

SendRequest ==
  /\ at = "send"
  /\ Start("send", InlineBuffer, "awaitSend")
  /\ UNCHANGED <<req, result, bodyVars, linkVars, bufVars, abandoned, expired>>

\* A server behind TLS may want a certificate.
Challenges == IF https THEN {Event("certNeeded", 0)} ELSE {}

\* CertlessRedirectRetry::on_error: one more send, of a GET without a body
\* that was redirected from http to https.
BugRetryAgain(e) ==
  e.kind = "certNeeded" /\ ~req.https /\ req.get /\ req.body = "none" /\ abort = "no" /\ https
MayRetry(e) ==
  /\ e.kind = "certNeeded"
  /\ ~req.https /\ req.get /\ req.body = "none"
  /\ ~attempted
  /\ abort = "no"
  /\ https

Retry == at' = "resend" /\ attempted' = TRUE /\ UNCHANGED result

OnError(e) ==
  IF MayRetry(e) THEN Retry /\ UNCHANGED abort ELSE Fail(e) /\ UNCHANGED attempted

\* WinHTTP refuses an operation, for want of a certificate even: that may be
\* retried where the errors of the operation's events are.
Refused ==
  /\ at \in {"send", "write", "receive", "resend"}
  /\ Signal!ListenAbandoned
  /\ \E e \in {Event("failed", 0)} \cup Challenges :
       IF at \in {"send", "receive"} /\ MayRetry(e)
       THEN Retry
       ELSE Leave("error") /\ UNCHANGED attempted
  /\ UNCHANGED <<req, bodyVars, ops, https, abort, bufVars, abandoned, expired>>

\* The body is given up as soon as the headers are sent.
BugFreeAfterSend(e) ==
  /\ at = "awaitSend" /\ Arrived(e)
  /\ Signal!DropReceiver
  /\ IF e.kind = "complete"
     THEN /\ at' = IF req.body \in {"none", "inline"} THEN "receive" ELSE "nextChunk"
          /\ sendBody' = 0
          /\ UNCHANGED <<result, abort>>
     ELSE Fail(e) /\ UNCHANGED sendBody
  /\ UNCHANGED <<req, bodyVars, ops, https, attempted, readBuffer, abandoned, expired>>

ResumeSend(e) ==
  /\ at = "awaitSend" /\ Arrived(e)
  /\ Signal!DropReceiver
  /\ IF e.kind = "complete"
     THEN /\ at' = IF req.body \in {"none", "inline"} THEN "receive" ELSE "nextChunk"
          /\ UNCHANGED <<result, abort, attempted>>
     ELSE IF req.body \in {"none", "inline"}
     THEN OnError(e)
     ELSE Fail(e) /\ UNCHANGED attempted
  /\ UNCHANGED <<req, bodyVars, ops, https, bufVars, abandoned, expired>>

\* A frame is its size line and its data: one unit more than the chunk.  Of a
\* body in memory the pieces stay where they are, in buffer 1.
Enframe(size, buffer) ==
  /\ frames' = Append(frames, size)
  /\ offset' = 0
  /\ sendBody' = buffer
  /\ at' = "write"

EndOfBody == Len(queue) = 0

\* The next piece of a large body, or chunk of a stream: an empty one is skipped.
NextChunk ==
  /\ at = "nextChunk" /\ ~EndOfBody
  /\ queue' = Tail(queue)
  /\ \/ req.body = "large" /\ Enframe(Head(queue), 1)
     \/ req.body # "large" /\ Head(queue) > 0 /\ Enframe(Head(queue) + 1, Len(frames) + 1)
     \/ req.body # "large" /\ Head(queue) = 0 /\ UNCHANGED <<frames, offset, sendBody, at>>
  /\ UNCHANGED <<req, result, wire, ops, linkVars, readBuffer, abandoned, expired, signalVars>>

Terminated == frames # <<>> /\ Last(frames) = 1

\* The future is suspended: at an await, that of the caller's stream included.
Suspended == at \in Awaits \/ (at = "nextChunk" /\ req.body = "stream" /\ ~Terminated)

\* The stream is over: the terminating frame, then the response.
EndStream ==
  /\ at = "nextChunk" /\ EndOfBody
  /\ IF req.body = "stream" /\ ~Terminated
     THEN Enframe(1, Len(frames) + 1)
     ELSE at' = "receive" /\ UNCHANGED <<frames, offset, sendBody>>
  /\ UNCHANGED <<req, result, queue, wire, ops, linkVars, readBuffer, abandoned, expired,
                 signalVars>>

StreamFails ==
  /\ at = "nextChunk" /\ req.body = "stream" /\ ~Terminated
  /\ Leave("error")
  /\ UNCHANGED <<req, bodyVars, ops, linkVars, bufVars, abandoned, expired, signalVars>>

WriteData ==
  /\ at = "write"
  /\ Start("write", sendBody, "awaitWrite")
  /\ UNCHANGED <<req, result, bodyVars, linkVars, bufVars, abandoned, expired>>

Remaining == Last(frames) - offset

\* A write that took only a part counts for the whole.
BugWholeWrite(e) ==
  /\ at = "awaitWrite" /\ Arrived(e)
  /\ Signal!DropReceiver
  /\ at' = "nextChunk"
  /\ UNCHANGED <<req, result, bodyVars, ops, linkVars, bufVars, abandoned, expired>>

\* Any count but zero is taken.
BugAnyCount(e) ==
  /\ at = "awaitWrite" /\ Arrived(e)
  /\ Signal!DropReceiver
  /\ IF e.kind = "write" /\ e.n > 0
     THEN /\ offset' = offset + e.n
          /\ at' = IF e.n >= Remaining THEN "nextChunk" ELSE "write"
          /\ UNCHANGED result
     ELSE Leave("error") /\ UNCHANGED offset
  /\ UNCHANGED <<req, queue, frames, wire, ops, linkVars, bufVars, abandoned, expired>>

\* advance_write_offset: nothing written, or too much, is an error.
ResumeWrite(e) ==
  /\ at = "awaitWrite" /\ Arrived(e)
  /\ Signal!DropReceiver
  /\ IF e.kind = "write" /\ e.n \in 1 .. Remaining
     THEN /\ offset' = offset + e.n
          /\ at' = IF e.n = Remaining THEN "nextChunk" ELSE "write"
          /\ UNCHANGED result
     ELSE Leave("error") /\ UNCHANGED offset
  /\ UNCHANGED <<req, queue, frames, wire, ops, linkVars, bufVars, abandoned, expired>>

\* WinHTTP may use the optional data of the send until the response is there.
ReceiveResponse ==
  /\ at = "receive"
  /\ Start("receive", InlineBuffer, "awaitReceive")
  /\ UNCHANGED <<req, result, bodyVars, linkVars, bufVars, abandoned, expired>>

ResumeReceive(e) ==
  /\ at = "awaitReceive" /\ Arrived(e)
  /\ Signal!DropReceiver
  /\ IF e.kind = "complete"
     THEN at' = "respond" /\ UNCHANGED <<result, abort, attempted>>
     ELSE OnError(e)
  /\ UNCHANGED <<req, bodyVars, ops, https, bufVars, abandoned, expired>>

Resend ==
  /\ at = "resend"
  /\ Start("send", 0, "awaitResend")
  /\ UNCHANGED <<req, result, bodyVars, linkVars, bufVars, abandoned, expired>>

ResumeResend(e) ==
  /\ at = "awaitResend" /\ Arrived(e)
  /\ Signal!DropReceiver
  /\ IF e.kind = "complete"
     THEN at' = "receive" /\ UNCHANGED <<result, abort>>
     ELSE Fail(e)
  /\ UNCHANGED <<req, bodyVars, ops, https, attempted, bufVars, abandoned, expired>>

\* The body is dropped, the headers are read (which may fail) and a Response
\* is made, unless a downgrade to http was blocked.
Respond ==
  /\ at = "respond"
  /\ sendBody' = 0
  /\ \/ at' = "idle" /\ result' = "ok"
     \/ Leave("error")
  /\ UNCHANGED <<req, bodyVars, ops, linkVars, readBuffer, abandoned, expired, signalVars>>

-----------------------------------------------------------------------------
(* Response::chunk and read_chunk.                                           *)

\* A new buffer is none that WinHTTP still has.
FreshBuffer ==
  CHOOSE b \in 1 .. Cardinality(ops) + 1 : \A o \in ops : o.kind = "read" => o.buffer # b

MayRead == at = "idle" /\ ~expired /\ (abandoned => ReadAgain)

StartRead ==
  /\ MayRead
  /\ readBuffer' = FreshBuffer
  /\ Start("read", FreshBuffer, "awaitRead")
  /\ UNCHANGED <<req, result, bodyVars, linkVars, sendBody, abandoned, expired>>

\* The buffer is stored before WinHTTP refuses; the Response stays usable.
ReadRefused ==
  /\ MayRead
  /\ readBuffer' = FreshBuffer
  /\ Signal!ListenAbandoned
  /\ result' = "error"
  /\ UNCHANGED <<req, at, bodyVars, ops, linkVars, sendBody, abandoned, expired>>

\* Zero bytes are the end of the body: the request handle is given up early.
ResumeRead(e) ==
  /\ at = "awaitRead" /\ Arrived(e)
  /\ Signal!DropReceiver
  /\ readBuffer' = IF e.kind = "read" THEN 0 ELSE readBuffer
  /\ IF e.kind = "read" /\ e.n = 0
     THEN Leave("eof")
     ELSE /\ at' = "idle"
          /\ result' = IF e.kind = "read" /\ readBuffer # 0 /\ e.n <= ReadMax
                       THEN "ok" ELSE "error"
  /\ UNCHANGED <<req, bodyVars, ops, linkVars, sendBody, abandoned, expired>>

ReadTooLate ==
  /\ at = "idle" /\ expired
  /\ Leave("timeout")
  /\ UNCHANGED <<req, bodyVars, ops, linkVars, bufVars, abandoned, expired, signalVars>>

\* The Response, or the stream made of it, is dropped between two chunks.
DropResponse ==
  /\ at = "idle"
  /\ Leave("dropped")
  /\ UNCHANGED <<req, bodyVars, ops, linkVars, bufVars, abandoned, expired, signalVars>>

-----------------------------------------------------------------------------
(* The deadline, and futures dropped at an await.                            *)

Expire ==
  /\ HasDeadline /\ ~expired
  /\ expired' = TRUE
  /\ UNCHANGED <<req, at, result, bodyVars, ops, linkVars, bufVars, abandoned, signalVars>>

\* select polls the request, then the Delay: an event that comes in between
\* is given up with the future.
TimeOut ==
  /\ expired
  /\ Suspended
  /\ Leave("timeout")
  /\ Signal!DropReceiver
  /\ UNCHANGED <<req, bodyVars, ops, linkVars, bufVars, abandoned, expired>>

\* The caller drops the future of send() ...
DropFuture ==
  /\ Suspended /\ at # "awaitRead"
  /\ Leave("dropped")
  /\ Signal!DropReceiver
  /\ UNCHANGED <<req, bodyVars, ops, linkVars, bufVars, abandoned, expired>>

\* ... or the one of chunk(), which leaves the Response as it is.
DropRead ==
  /\ at = "awaitRead"
  /\ at' = "idle" /\ result' = "dropped" /\ abandoned' = TRUE
  /\ Signal!DropReceiver
  /\ UNCHANGED <<req, bodyVars, ops, linkVars, bufVars, expired>>

\* WinHttpRequestHandle::drop has waited for the last callback; the
\* RequestState goes with it.
Drained ==
  /\ at = "closing" /\ ops = {} /\ held = {}
  /\ at' = "gone"
  /\ sendBody' = 0 /\ readBuffer' = 0
  /\ Signal!DropSignal
  /\ UNCHANGED <<req, result, bodyVars, ops, linkVars, abandoned, expired>>

-----------------------------------------------------------------------------
(* WinHTTP: operations complete, on a thread of its pool.                    *)

\* The completions the code handles: a server may ask
\* for a certificate again; a write may be reported short or long.
Outcomes(o) ==
  IF at = "closing" \/ abort # "no"
  THEN {Event("cancelled", 0)}
  ELSE {Event("failed", 0)} \cup
       CASE o.kind = "write" -> {Event("write", n) : n \in 0 .. Last(frames) - o.from + 1}
         [] o.kind = "read" -> {Event("read", n) : n \in 0 .. ReadMax}
         [] OTHER -> {Event("complete", 0)} \cup Challenges

\* The units a write took, of the n it reports.
Taken(o, n) ==
  LET rest == Last(frames) - o.from
  IN  [i \in 1 .. IF n <= rest THEN n ELSE rest |-> <<Len(frames), o.from + i>>]

Complete(o) ==
  /\ o \in ops
  /\ \E e \in Outcomes(o) :
       /\ Signal!Take(e)
       /\ wire' = IF e.kind = "write" THEN wire \o Taken(o, e.n) ELSE wire
  /\ ops' = ops \ {o}
  /\ UNCHANGED <<req, at, result, queue, frames, offset, linkVars, bufVars, abandoned, expired>>

\* signal() sends after it released the lock.
Deliver ==
  /\ \E h \in held : Signal!Send(h)
  /\ UNCHANGED <<req, at, result, bodyVars, ops, linkVars, bufVars, abandoned, expired>>

\* Challenges and redirects can surface during either send or receive.
Requesting == \E o \in ops : o.kind \in {"send", "receive"}

\* A redirect, never from https to http.
Redirect ==
  /\ Requesting /\ abort = "no" /\ ~https
  /\ https' = TRUE
  /\ UNCHANGED <<req, at, result, bodyVars, ops, abort, attempted, bufVars, abandoned, expired,
                 signalVars>>

\* The redirect callback closes the handle (abort_from_callback).
AbortRedirect ==
  /\ Requesting /\ abort = "no"
  /\ abort' = "reason"
  /\ UNCHANGED <<req, at, result, bodyVars, ops, https, attempted, bufVars, abandoned, expired,
                 signalVars>>

-----------------------------------------------------------------------------
Resume ==
  \E e \in mail :
    \/ ResumeSend(e) \/ ResumeWrite(e) \/ ResumeReceive(e) \/ ResumeResend(e) \/ ResumeRead(e)

\* What the executor does with a future that can run.
Run ==
  \/ Setup \/ SetupTooLate \/ SendRequest \/ NextChunk \/ EndStream \/ WriteData
  \/ ReceiveResponse \/ Resend \/ Respond \/ Refused \/ StreamFails \/ Resume \/ TimeOut

Read == StartRead \/ ReadRefused \/ ReadTooLate

Environment ==
  \/ Expire \/ Redirect \/ AbortRedirect \/ Deliver
  \/ \E o \in ops : Complete(o)

Done == at = "gone" /\ ops = {} /\ held = {} /\ UNCHANGED vars

Next ==
  \/ Run \/ Read \/ Environment \/ Drained
  \/ DropResponse \/ DropFuture \/ DropRead
  \/ Done

\* The executor polls what can run, a stream body yields, WinHTTP completes
\* what it accepted and its callbacks run on.  Nothing makes a deadline pass,
\* a caller read on, or a future be dropped.
Fairness ==
  /\ WF_vars(Run)
  /\ WF_vars(Deliver)
  /\ WF_vars(\E o \in ops : Complete(o))
  /\ WF_vars(Drained)

Spec == Init /\ [][Next]_vars /\ Fairness

-----------------------------------------------------------------------------
(* Properties.                                                               *)

\* Every variable stays in its type; the future waits exactly at its awaits.
TypeOK ==
  /\ req \in Requests
  /\ at \in Places /\ result \in Results
  /\ queue \in Seq(Nat) /\ frames \in Seq(Nat)
  /\ offset \in 0 .. IF frames = <<>> THEN 0 ELSE Last(frames)
  /\ ops \subseteq [kind : {"send", "write", "receive", "read"}, buffer : Nat, from : Nat]
  /\ https \in BOOLEAN /\ attempted \in BOOLEAN /\ abandoned \in BOOLEAN /\ expired \in BOOLEAN
  /\ abort \in {"no", "reason", "taken"}
  /\ sendBody \in Nat /\ readBuffer \in Nat
  /\ Signal!SignalTypeOK
  /\ at \in Awaits <=> rx = "open"

\* A buffer WinHTTP was given stays in RequestState until the operation is
\* over, also when the future is dropped meanwhile (the comments of send_body
\* and read_buffer).
BuffersSurvive ==
  \A o \in ops :
    o.buffer # 0 => o.buffer = IF o.kind = "read" THEN readBuffer ELSE sendBody

\* Partial writes: the units reach the wire once each and in order, no buffer
\* is started before the one before it was taken whole (write_data_with). A
\* chunked body is terminated once, at its end, and the response to it is only
\* awaited after the terminator was taken: an empty chunk never ends it.
InOrder ==
  \A i \in 1 .. Len(wire) :
    LET before == IF i = 1 THEN <<1, 0>> ELSE wire[i - 1]
    IN  \/ wire[i] = <<before[1], before[2] + 1>>
        \/ wire[i] = <<before[1] + 1, 1>> /\ before[2] = frames[before[1]]

TerminatedOnce ==
  req.body = "stream" =>
    /\ \A i \in 1 .. Len(frames) : frames[i] = 1 => i = Len(frames) /\ EndOfBody
    /\ at = "receive" => wire # <<>> /\ Last(wire) = <<Len(frames), 1>> /\ Last(frames) = 1

BodySentWhole == InOrder /\ TerminatedOnce

\* A request that a redirect callback aborted tells its caller the reason, not
\* the cancellation WinHTTP reports, unless the caller gave up first.
\* While the future waits exactly one answer is under way to it: with WinHTTP,
\* in the hands of a callback, or arrived.  None is lost in between, none comes
\* twice, and none is left over from an operation given up before (the comment
\* on the timeout in Response::chunk).
ReasonSurfaces ==
  abort # "no" /\ at \in {"closing", "gone"} => result \in {"reason", "timeout", "dropped"}

OneAnswerComing ==
  LET carried == {h \in held : h.to = "live"}
  IN  at \in Awaits =>
        Cardinality(ops) + Cardinality(carried) + Cardinality(mail) = 1

OneAnswer == ReasonSurfaces /\ OneAnswerComing

\* Every attempt ends, in headers or in an error, however WinHTTP splits the
\* writes and whatever it asks for: no completion is lost on the way, and the
\* certificate retry does not go on for ever. A read that was started ends: the
\* caller never waits for an event that went to a listener left over from
\* before.
OperationsEnd ==
  /\ at = "setup" ~> at \in {"idle", "gone"}
  /\ at = "awaitRead" ~> at # "awaitRead"
=============================================================================
