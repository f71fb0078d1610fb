---------------------------- MODULE Exchange_proofs ----------------------------
(* What one exchange promises, for any set of requests, any bodies, any sizes  *)
(* of chunks and reads, with or without a deadline: see Exchange.              *)
EXTENDS Exchange, Functions, FiniteSetTheorems, TLAPS

-----------------------------------------------------------------------------
(* The invariant, in parts.                                                  *)

\* The operation each await waits for, and the answers that were given to it.
AwaitedKind ==
  [awaitSend |-> "send", awaitWrite |-> "write", awaitReceive |-> "receive",
   awaitResend |-> "send", awaitRead |-> "read"]
Answers == {h.event : h \in held} \cup mail

\* Which bodies come to which places, and when there is a frame.
Stages ==
  /\ at \in {"setup", "send", "awaitSend"} => frames = <<>> /\ wire = <<>>
  /\ at \in {"write", "awaitWrite"} => frames # <<>>
  /\ \A o \in ops : o.kind = "write" => frames # <<>>
  /\ at \in {"nextChunk", "write", "awaitWrite"} => req.body \in {"large", "stream"}
  /\ at \in {"resend", "awaitResend"} => req.body = "none"
  /\ IsFiniteSet(ops)

\* Nobody sends to a future that does not wait.
Quiet ==
  at \notin Awaits => mail = {} /\ sender # "live" /\ \A h \in held : h.to = "dead"

\* The one answer: with WinHTTP, in the hands of a callback, or arrived.
WithWinHttp ==
  \E o \in ops : ops = {o} /\ o.kind = AwaitedKind[at] /\ held = {} /\ mail = {} /\ sender = "live"
WithCallback ==
  \E h \in held : held = {h} /\ h.to = "live" /\ ops = {} /\ mail = {} /\ sender = "none"
WithFuture ==
  \E e \in mail : mail = {e} /\ ops = {} /\ held = {} /\ sender = "none"

OneLine ==
  ~abandoned =>
    /\ at \in Awaits => WithWinHttp \/ WithCallback \/ WithFuture
    /\ at \notin Awaits \cup {"closing"} => ops = {} /\ held = {}

\* A read given up is all that WinHTTP can still be at.
Late ==
  abandoned =>
    /\ at \in {"idle", "awaitRead", "closing", "gone"}
    /\ \A o \in ops : o.kind = "read"
    /\ at = "awaitRead" => ReadAgain

InUse == {"send", "awaitSend", "receive", "awaitReceive", "resend", "awaitResend", "respond"}
Kept ==
  /\ (abandoned => ~ReadAgain) => BuffersSurvive
  /\ at \in InUse /\ req.body = "inline" => sendBody = 1

Asking == {"awaitSend", "awaitReceive", "awaitResend"}
Aborted ==
  /\ abort # "no" => at \in Asking \cup {"closing", "gone"}
  /\ at \in Asking => abort # "taken"
  /\ at \in Asking /\ abort = "reason" => \A e \in Answers : e.kind = "cancelled"
  /\ at = "closing" /\ Requesting => result \in {"timeout", "dropped"}
  /\ at = "gone" => ops = {}
  /\ ReasonSurfaces

\* How far the wire is: p units of the last frame, after the whole of those before.
Reached(p) ==
  IF wire = <<>> THEN p = 0 /\ Len(frames) = 1
  ELSE \/ Last(wire) = <<Len(frames), p>>
       \/ p = 0 /\ Len(frames) > 1 /\ Last(wire) = <<Len(frames) - 1, frames[Len(frames) - 1]>>
Took(e) ==
  IF e.kind # "write" THEN 0 ELSE IF e.n <= Remaining THEN e.n ELSE Remaining

Progress ==
  /\ wire \in Seq(Nat \X Nat)
  /\ \A i \in 1 .. Len(wire) : wire[i][1] \in 1 .. Len(frames)
  /\ at = "nextChunk" =>
       IF frames = <<>> THEN wire = <<>>
       ELSE wire # <<>> /\ Last(wire) = <<Len(frames), Last(frames)>>
  /\ at = "write" => Reached(offset)
  /\ at = "awaitWrite" =>
       /\ \A o \in ops : o.from = offset /\ Reached(offset)
       /\ \A e \in Answers : Reached(offset + Took(e))
  /\ InOrder
  /\ TerminatedOnce

IInv == TypeOK /\ Stages /\ Quiet /\ OneLine /\ Late /\ Kept /\ Aborted /\ Progress

-----------------------------------------------------------------------------
(* Types.                                                                    *)

LEMMA CutType == \A n \in Nat : Cut(n) \in Seq(Nat)
<1> TAKE n \in Nat
<1>1. (n + ChunkMax - 1) \div ChunkMax \in Nat /\ n % ChunkMax \in Nat /\ ChunkMax \in Nat
  BY BoundsOK
<1>2. \A m \in Nat : \A f \in [1 .. m -> Nat] : f \in Seq(Nat)
  OBVIOUS
<1>3. Cut(n) \in [1 .. (n + ChunkMax - 1) \div ChunkMax -> Nat]
  BY <1>1 DEF Cut
<1> QED BY <1>1, <1>2, <1>3

LEMMA PiecesType == \A r \in Requests : Pieces(r) \in Seq(Nat)
<1> TAKE r \in Requests
<1>1. CASE r.body = "large"
  <2>1. r.parts[1] \in Nat
    BY <1>1, RequestsOK
  <2> QED BY <1>1, <2>1, CutType DEF Pieces
<1>2. CASE r.body # "large"
  BY <1>2, RequestsOK DEF Pieces
<1> QED BY <1>1, <1>2

LEMMA InitTypeOK == Init => TypeOK
<1> SUFFICES ASSUME Init PROVE TypeOK
  OBVIOUS
<1>1. queue \in Seq(Nat)
  BY PiecesType DEF Init
<1>2. https \in BOOLEAN
  BY RequestsOK DEF Init
<1>3. offset \in 0 .. IF frames = <<>> THEN 0 ELSE Last(frames)
  BY DEF Init
<1>4. Signal!SignalTypeOK /\ rx = "none"
  BY DEF Init, Signal!SignalInit, Signal!SignalTypeOK
<1> QED
  <2>1. req \in Requests /\ at \in Places /\ result \in Results /\ (at \in Awaits <=> rx = "open")
    BY <1>4 DEF Init, Places, Awaits, Results
  <2>2. frames \in Seq(Nat) /\ ops = {} /\ sendBody \in Nat /\ readBuffer \in Nat
    BY DEF Init
  <2>3. attempted \in BOOLEAN /\ abandoned \in BOOLEAN /\ expired \in BOOLEAN /\ abort = "no"
    BY DEF Init
  <2> QED BY <1>1, <1>2, <1>3, <1>4, <2>1, <2>2, <2>3 DEF TypeOK

\* Among as many buffers as there are operations and one more, one is free.
LEMMA FreshBufferType ==
  ASSUME IsFiniteSet(ops)
  PROVE  /\ FreshBuffer \in Nat
         /\ \A o \in ops : o.kind = "read" => o.buffer # FreshBuffer
<1> DEFINE n == Cardinality(ops)
           used == {o.buffer : o \in ops}
<1>1. n \in Nat
  BY FS_CardinalityType
<1>2. IsFiniteSet(used) /\ Cardinality(used) <= n
  <2>1. [o \in ops |-> o.buffer] \in Surjection(ops, used)
    BY DEF Surjection
  <2> QED BY <2>1, FS_Surjection
<1>3. IsFiniteSet(1 .. n + 1) /\ Cardinality(1 .. n + 1) = n + 1
  BY <1>1, FS_Interval
<1>4. \E b \in 1 .. n + 1 : b \notin used
  <2> SUFFICES ASSUME 1 .. n + 1 \subseteq used PROVE FALSE
    OBVIOUS
  <2>1. Cardinality(1 .. n + 1) <= Cardinality(used)
    BY <1>2, FS_Subset
  <2>2. Cardinality(used) \in Nat
    BY <1>2, FS_CardinalityType
  <2> QED BY <1>1, <1>2, <1>3, <2>1, <2>2
<1>5. \E b \in 1 .. n + 1 : \A o \in ops : o.kind = "read" => o.buffer # b
  BY <1>4
<1>6. /\ FreshBuffer \in 1 .. n + 1
      /\ \A o \in ops : o.kind = "read" => o.buffer # FreshBuffer
  BY <1>5 DEF FreshBuffer
<1> QED BY <1>1, <1>6


LEMMA SignalTypes ==
  ASSUME Signal!SignalTypeOK
  PROVE  /\ Signal!Listen => Signal!SignalTypeOK' /\ rx' = "open"
         /\ Signal!ListenAbandoned \/ Signal!DropReceiver => Signal!SignalTypeOK' /\ rx' = "none"
         /\ Signal!DropSignal => Signal!SignalTypeOK' /\ (rx' = "open" => rx = "open")
         /\ \A e \in Events : Signal!Take(e) => Signal!SignalTypeOK' /\ rx' = rx
         /\ \A h \in held : Signal!Send(h) => Signal!SignalTypeOK' /\ rx' = rx
         /\ sender' = sender /\ held' = held /\ rx' = rx /\ mail' = mail
              => Signal!SignalTypeOK'
<1> USE DEF Signal!SignalTypeOK, Signal!Die
<1>1. Signal!Orphaned \subseteq [to : {"live", "dead"}, event : Events]
  BY DEF Signal!Orphaned
<1> QED
  BY <1>1 DEF Signal!Listen, Signal!ListenAbandoned, Signal!DropReceiver, Signal!DropSignal,
              Signal!Take, Signal!Send

\* A new frame is one more, none of it written.
LEMMA EnframeType ==
  ASSUME TypeOK, NEW size \in Nat, NEW buffer, Enframe(size, buffer)
  PROVE  /\ frames' \in Seq(Nat) /\ Len(frames') = Len(frames) + 1
         /\ Last(frames') = size /\ frames' # <<>>
         /\ \A i \in 1 .. Len(frames) : frames'[i] = frames[i]
         /\ offset' \in 0 .. IF frames' = <<>> THEN 0 ELSE Last(frames')
<1>1. frames \in Seq(Nat) /\ frames' = Append(frames, size) /\ offset' = 0
  BY DEF TypeOK, Enframe
<1>2. /\ frames' \in Seq(Nat) /\ Len(frames') = Len(frames) + 1 /\ frames' # <<>>
      /\ \A i \in 1 .. Len(frames) : frames'[i] = frames[i]
      /\ frames'[Len(frames) + 1] = size
  BY <1>1
<1> QED BY <1>1, <1>2 DEF Last

\* A refused operation leaves the request, or is retried as a GET without body.
LEMMA RefusedIs ==
  ASSUME Refused
  PROVE  /\ at \in {"send", "write", "receive", "resend"} /\ Signal!ListenAbandoned
         /\ UNCHANGED <<req, queue, frames, offset, wire, ops, https, abort, sendBody, readBuffer,
                        abandoned, expired>>
         /\ \/ at' = "closing" /\ result' = "error" /\ attempted' = attempted
            \/ at' = "resend" /\ result' = result /\ attempted' = TRUE /\ req.body = "none"
  BY DEF Refused, Leave, Retry, MayRetry, bodyVars, bufVars

LEMMA NextTypeOK == TypeOK /\ Stages /\ [Next]_vars => TypeOK'
<1> SUFFICES ASSUME TypeOK, Stages, [Next]_vars PROVE TypeOK'
  OBVIOUS
<1> USE SignalTypes
    DEF TypeOK, Places, Awaits, Results, Last, Leave, Start, bodyVars, linkVars, bufVars
<1>1. CASE Setup \/ SetupTooLate
  BY <1>1 DEF Setup, SetupTooLate, signalVars
<1>2. CASE SendRequest \/ WriteData \/ ReceiveResponse \/ Resend
  BY <1>2 DEF SendRequest, WriteData, ReceiveResponse, Resend, InlineBuffer
<1>3. CASE Refused
  BY <1>3, RefusedIs
<1>4. ASSUME NEW e \in mail, ResumeSend(e) \/ ResumeReceive(e) \/ ResumeResend(e)
      PROVE  TypeOK'
  BY <1>4 DEF ResumeSend, ResumeReceive, ResumeResend, OnError, Retry, Fail
<1>5. ASSUME NEW e \in mail, ResumeWrite(e) PROVE TypeOK'
  BY <1>5 DEF ResumeWrite, Remaining, Stages
<1>6. CASE NextChunk
  <2>1. Head(queue) \in Nat /\ Tail(queue) \in Seq(Nat) /\ Len(frames) + 1 \in Nat
    BY <1>6 DEF NextChunk, EndOfBody
  <2>2. ASSUME NEW size \in Nat, NEW buffer \in Nat, Enframe(size, buffer) PROVE TypeOK'
    BY <1>6, <2>1, <2>2, EnframeType DEF NextChunk, Enframe, signalVars
  <2>3. CASE UNCHANGED <<frames, offset, sendBody, at>>
    BY <1>6, <2>1, <2>3 DEF NextChunk, signalVars
  <2> QED BY <1>6, <2>1, <2>2, <2>3 DEF NextChunk
<1>16. CASE EndStream
  <2>1. CASE Enframe(1, Len(frames) + 1)
    <3>1. Len(frames) + 1 \in Nat
      OBVIOUS
    <3> QED BY <1>16, <2>1, <3>1, EnframeType DEF EndStream, Enframe, signalVars
  <2>2. CASE at' = "receive" /\ UNCHANGED <<frames, offset, sendBody>>
    BY <1>16, <2>2 DEF EndStream, signalVars
  <2> QED BY <1>16, <2>1, <2>2 DEF EndStream
<1>7. CASE StreamFails \/ Respond \/ DropResponse \/ ReadTooLate \/ Expire
  <2>1. CASE StreamFails \/ DropResponse \/ ReadTooLate
    BY <2>1 DEF StreamFails, DropResponse, ReadTooLate, signalVars
  <2>2. CASE Respond
    BY <2>2 DEF Respond, signalVars
  <2>3. CASE Expire
    BY <2>3 DEF Expire, signalVars
  <2> QED BY <1>7, <2>1, <2>2, <2>3
<1>8. CASE StartRead \/ ReadRefused
  BY <1>8, FreshBufferType DEF StartRead, ReadRefused, MayRead, Stages
<1>9. ASSUME NEW e \in mail, ResumeRead(e) PROVE TypeOK'
  BY <1>9 DEF ResumeRead
<1>10. CASE TimeOut \/ DropFuture \/ DropRead
  BY <1>10 DEF TimeOut, DropFuture, DropRead, Suspended
<1>11. CASE Drained
  BY <1>11 DEF Drained
<1>12. ASSUME NEW o \in ops, Complete(o) PROVE TypeOK'
  <2>1. Outcomes(o) \subseteq Events
    BY BoundsOK DEF Outcomes, Challenges, Event, Events, EventKinds, Stages
  <2> QED BY <1>12, <2>1 DEF Complete
<1>13. CASE Deliver
  BY <1>13 DEF Deliver
<1>14. CASE Redirect \/ AbortRedirect
  <2>1. CASE Redirect
    BY <2>1 DEF Redirect, signalVars
  <2>2. CASE AbortRedirect
    BY <2>2 DEF AbortRedirect, signalVars
  <2> QED BY <1>14, <2>1, <2>2
<1>15. CASE UNCHANGED vars
  BY <1>15 DEF vars, signalVars
<1> QED
  BY <1>1, <1>2, <1>3, <1>4, <1>5, <1>6, <1>7, <1>8, <1>9, <1>10, <1>11, <1>12, <1>13, <1>14, <1>15, <1>16
     DEF Next, Run, Resume, Read, Environment, Done

-----------------------------------------------------------------------------
(* The parts on where the future is, and on who may still answer it.         *)

\* What completes as a write was one; nothing is left to say but "cancelled"
\* once the handle is closed.
LEMMA OutcomeKinds ==
  \A o \in ops : \A e \in Outcomes(o) :
    /\ e.kind = "write" => o.kind = "write"
    /\ at = "closing" \/ abort # "no" => e.kind = "cancelled"
  BY DEF Outcomes, Challenges, Event

LEMMA NextStages == TypeOK /\ Stages /\ [Next]_vars => Stages'
<1> SUFFICES ASSUME TypeOK, Stages, [Next]_vars PROVE Stages'
  OBVIOUS
<1> USE DEF Stages, Awaits, Leave, Start, bodyVars, linkVars, bufVars, signalVars
<1>1. CASE Setup \/ SetupTooLate \/ Refused \/ StreamFails \/ Respond \/ TimeOut \/ ReadRefused \/ ReadTooLate
  BY <1>1, RefusedIs
     DEF Setup, SetupTooLate, StreamFails, Respond, TimeOut, ReadRefused,
         ReadTooLate, MayRead
<1>2. CASE SendRequest \/ WriteData \/ ReceiveResponse \/ Resend \/ StartRead
  BY <1>2, FS_AddElement DEF SendRequest, WriteData, ReceiveResponse, Resend, StartRead, MayRead
<1>3. CASE NextChunk \/ EndStream
  BY <1>3 DEF NextChunk, EndStream, Enframe, TypeOK
<1>4. ASSUME NEW e \in mail, ResumeSend(e) PROVE Stages'
  BY <1>4, RequestsOK DEF ResumeSend, OnError, Retry, Fail, MayRetry, TypeOK
<1>5. ASSUME NEW e \in mail, ResumeReceive(e) \/ ResumeResend(e) \/ ResumeWrite(e) \/ ResumeRead(e)
      PROVE  Stages'
  BY <1>5 DEF ResumeReceive, ResumeResend, ResumeWrite, ResumeRead, OnError, Retry, Fail, MayRetry
<1>6. ASSUME NEW o \in ops, Complete(o) PROVE Stages'
  BY <1>6, OutcomeKinds, FS_RemoveElement DEF Complete
<1>7. CASE Expire \/ Redirect \/ AbortRedirect \/ Deliver \/ Drained \/ UNCHANGED vars
  BY <1>7 DEF Expire, Redirect, AbortRedirect, Deliver, Drained, vars
<1>8. CASE DropResponse \/ DropFuture \/ DropRead
  BY <1>8 DEF DropResponse, DropFuture, DropRead
<1> QED
  BY <1>1, <1>2, <1>3, <1>4, <1>5, <1>6, <1>7, <1>8 DEF Next, Run, Resume, Read, Environment, Done

LEMMA NextQuiet == TypeOK /\ Quiet /\ [Next]_vars => Quiet'
<1> SUFFICES ASSUME TypeOK, Quiet, [Next]_vars PROVE Quiet'
  OBVIOUS
<1> USE DEF Quiet, Awaits, Leave, Start, bodyVars, linkVars, bufVars, signalVars
<1>1. Signal!ListenAbandoned \/ Signal!DropReceiver => Quiet'
  BY DEF Signal!ListenAbandoned, Signal!DropReceiver, Signal!Orphaned, Signal!Die,
         TypeOK, Signal!SignalTypeOK
<1>2. CASE \/ Refused \/ TimeOut \/ ReadRefused \/ DropFuture \/ DropRead
           \/ \E e \in mail : \/ ResumeSend(e) \/ ResumeWrite(e) \/ ResumeReceive(e)
                              \/ ResumeResend(e) \/ ResumeRead(e)
  BY <1>1, <1>2 DEF Refused, TimeOut, ReadRefused, DropFuture, DropRead, ResumeSend, ResumeWrite,
                    ResumeReceive, ResumeResend, ResumeRead
<1>3. CASE \/ Setup \/ SetupTooLate \/ NextChunk \/ EndStream \/ StreamFails \/ Respond
           \/ ReadTooLate \/ DropResponse
  BY <1>3 DEF Setup, SetupTooLate, NextChunk, EndStream, Enframe, StreamFails, Respond, ReadTooLate,
              DropResponse
<1>4. CASE SendRequest \/ WriteData \/ ReceiveResponse \/ Resend \/ StartRead
  BY <1>4 DEF SendRequest, WriteData, ReceiveResponse, Resend, StartRead
<1>5. ASSUME NEW o \in ops, Complete(o) PROVE Quiet'
  BY <1>5 DEF Complete, Signal!Take, TypeOK, Signal!SignalTypeOK
<1>6. CASE Deliver \/ Drained
  BY <1>6 DEF Deliver, Signal!Send, Drained, Signal!DropSignal
<1>7. CASE Expire \/ Redirect \/ AbortRedirect \/ UNCHANGED vars
  BY <1>7 DEF Expire, Redirect, AbortRedirect, vars
<1> QED
  BY <1>2, <1>3, <1>4, <1>5, <1>6, <1>7 DEF Next, Run, Resume, Read, Environment, Done

LEMMA AwaitedKinds ==
  /\ AwaitedKind["awaitSend"] = "send" /\ AwaitedKind["awaitWrite"] = "write"
  /\ AwaitedKind["awaitReceive"] = "receive" /\ AwaitedKind["awaitResend"] = "send"
  /\ AwaitedKind["awaitRead"] = "read"
  BY DEF AwaitedKind

\* An operation that starts where nothing is under way is the one awaited.
LEMMA StartsAlone ==
  ASSUME OneLine, NEW kind, NEW buffer, NEW to \in Awaits, at \notin Awaits \cup {"closing"},
         kind = AwaitedKind[to], Start(kind, buffer, to), ~abandoned
  PROVE  WithWinHttp'
<1> DEFINE o == [kind |-> kind, buffer |-> buffer, from |-> offset]
<1>1. ops = {} /\ held = {}
  BY DEF OneLine
<1>2. ops' = {o} /\ held' = {} /\ mail' = {} /\ sender' = "live" /\ at' = to
  BY <1>1 DEF Start, Signal!Listen, Signal!Orphaned
<1>3. o.kind = AwaitedKind[at']
  BY <1>2
<1> QED BY <1>2, <1>3 DEF WithWinHttp

LEMMA NextOneLine == TypeOK /\ Quiet /\ OneLine /\ [Next]_vars => OneLine'
<1> SUFFICES ASSUME TypeOK, Quiet, OneLine, [Next]_vars PROVE OneLine'
  OBVIOUS
<1> USE DEF Awaits, bodyVars, linkVars, bufVars, signalVars
<1>1. CASE \/ Setup \/ SetupTooLate \/ StreamFails \/ NextChunk \/ EndStream \/ Respond
           \/ ReadTooLate \/ DropResponse
  BY <1>1 DEF Setup, SetupTooLate, StreamFails, NextChunk, EndStream, Enframe, Respond, ReadTooLate,
              DropResponse, OneLine, Leave
<1>2. CASE SendRequest \/ WriteData \/ ReceiveResponse \/ Resend \/ StartRead
  <2>1. abandoned' = abandoned /\ at' \in Awaits /\ (~abandoned => WithWinHttp')
    <3>1. CASE SendRequest
      BY <3>1, StartsAlone, AwaitedKinds DEF SendRequest, Start
    <3>2. CASE WriteData
      BY <3>2, StartsAlone, AwaitedKinds DEF WriteData, Start
    <3>3. CASE ReceiveResponse
      BY <3>3, StartsAlone, AwaitedKinds DEF ReceiveResponse, Start
    <3>4. CASE Resend
      BY <3>4, StartsAlone, AwaitedKinds DEF Resend, Start
    <3>5. CASE StartRead
      BY <3>5, StartsAlone, AwaitedKinds DEF StartRead, MayRead, Start
    <3> QED BY <1>2, <3>1, <3>2, <3>3, <3>4, <3>5
  <2> QED BY <2>1 DEF OneLine
<1>3. CASE Refused \/ ReadRefused
  BY <1>3, RefusedIs DEF ReadRefused, MayRead, OneLine, Leave, Signal!ListenAbandoned,
              Signal!Orphaned
<1>4. ASSUME NEW e \in mail,
             \/ ResumeSend(e) \/ ResumeWrite(e) \/ ResumeReceive(e) \/ ResumeResend(e)
             \/ ResumeRead(e)
      PROVE  OneLine'
  <2>1. at \in Awaits /\ ops' = ops /\ abandoned' = abandoned /\ at' \notin Awaits
        /\ Signal!DropReceiver
    BY <1>4 DEF ResumeSend, ResumeWrite, ResumeReceive, ResumeResend, ResumeRead, OnError, Retry, Fail,
                Leave
  <2>2. ~abandoned => ops = {} /\ held = {}
    BY <2>1 DEF OneLine, WithWinHttp, WithCallback, WithFuture
  <2> QED BY <2>1, <2>2 DEF OneLine, Signal!DropReceiver, Signal!Orphaned
<1>5. CASE TimeOut \/ DropFuture \/ DropRead
  BY <1>5 DEF TimeOut, DropFuture, DropRead, OneLine, Leave
<1>6. ASSUME NEW o \in ops, Complete(o) PROVE OneLine'
  <2>1. CASE ~abandoned /\ at \in Awaits
    <3>1. ops = {o} /\ held = {} /\ mail = {} /\ sender = "live"
      BY <2>1 DEF OneLine, WithWinHttp, WithCallback, WithFuture
    <3>2. PICK e \in Outcomes(o) : Signal!Take(e)
      BY <1>6 DEF Complete
    <3> DEFINE h == [to |-> "live", event |-> e]
    <3>3. ops' = {} /\ held' = {h} /\ mail' = {} /\ sender' = "none" /\ h.to = "live"
      BY <1>6, <3>1, <3>2 DEF Complete, Signal!Take
    <3>4. WithCallback'
      BY <3>3 DEF WithCallback
    <3> QED BY <1>6, <2>1, <3>4 DEF Complete, OneLine
  <2> QED BY <1>6, <2>1 DEF Complete, OneLine
<1>7. CASE Deliver
  <2>1. CASE ~abandoned /\ at \in Awaits
    <3>1. PICK h \in held : Signal!Send(h)
      BY <1>7 DEF Deliver
    <3>2. held = {h} /\ h.to = "live" /\ ops = {} /\ sender = "none"
      BY <2>1, <3>1 DEF OneLine, WithWinHttp, WithCallback, WithFuture
    <3>3. mail' = {h.event} /\ held' = {} /\ ops' = {} /\ sender' = "none"
      BY <1>7, <3>1, <3>2 DEF Deliver, Signal!Send
    <3>4. WithFuture'
      BY <3>3 DEF WithFuture
    <3> QED BY <1>7, <2>1, <3>4 DEF Deliver, OneLine
  <2> QED BY <1>7, <2>1 DEF Deliver, OneLine, Signal!Send
<1>8. CASE Drained
  BY <1>8 DEF Drained, OneLine, Signal!DropSignal
<1>9. CASE Expire \/ Redirect \/ AbortRedirect \/ UNCHANGED vars
  BY <1>9 DEF Expire, Redirect, AbortRedirect, vars, OneLine, WithWinHttp, WithCallback, WithFuture
<1> QED
  BY <1>1, <1>2, <1>3, <1>4, <1>5, <1>6, <1>7, <1>8, <1>9
     DEF Next, Run, Resume, Read, Environment, Done

LEMMA NextLate == TypeOK /\ OneLine /\ Late /\ [Next]_vars => Late'
<1> SUFFICES ASSUME TypeOK, OneLine, Late, [Next]_vars PROVE Late'
  OBVIOUS
<1> USE DEF Late, Leave, bodyVars, linkVars, bufVars, signalVars
<1>1. CASE DropRead
  <2>1. ~abandoned => \A o \in ops : o.kind = "read"
    BY <1>1, AwaitedKinds DEF DropRead, OneLine, WithWinHttp, WithCallback, WithFuture, Awaits
  <2> QED BY <1>1, <2>1 DEF DropRead
<1>2. CASE StartRead
  BY <1>2 DEF StartRead, MayRead, Start
<1>3. CASE ReadRefused \/ ReadTooLate \/ DropResponse \/ TimeOut \/ DropFuture \/ Drained
  BY <1>3 DEF ReadRefused, MayRead, ReadTooLate, DropResponse, TimeOut, DropFuture, Drained
<1>4. ASSUME NEW e \in mail, ResumeRead(e) PROVE Late'
  BY <1>4 DEF ResumeRead
<1>5. ASSUME NEW o \in ops, Complete(o) PROVE Late'
  BY <1>5 DEF Complete
<1>6. CASE Expire \/ Deliver \/ Redirect \/ AbortRedirect \/ UNCHANGED vars
  BY <1>6 DEF Expire, Deliver, Redirect, AbortRedirect, vars
<1>7. CASE \/ Setup \/ SetupTooLate \/ SendRequest \/ NextChunk \/ EndStream \/ WriteData
           \/ ReceiveResponse \/ Resend \/ Respond \/ Refused \/ StreamFails
  BY <1>7 DEF Setup, SetupTooLate, SendRequest, NextChunk, EndStream, WriteData, ReceiveResponse,
              Resend, Respond, Refused, StreamFails
<1>8. ASSUME NEW e \in mail, ResumeSend(e) \/ ResumeWrite(e) \/ ResumeReceive(e) \/ ResumeResend(e)
      PROVE  Late'
  BY <1>8 DEF ResumeSend, ResumeWrite, ResumeReceive, ResumeResend
<1> QED
  BY <1>1, <1>2, <1>3, <1>4, <1>5, <1>6, <1>7, <1>8 DEF Next, Run, Resume, Read, Environment, Done

-----------------------------------------------------------------------------
(* The parts on the buffers and on the reason of an abort.                   *)

LEMMA Idle ==
  ASSUME OneLine, Late, at \notin {"idle", "closing", "gone"} \cup Awaits
  PROVE  ~abandoned /\ ops = {} /\ held = {}
  BY DEF OneLine, Late, Awaits

LEMMA NextKept ==
  TypeOK /\ Stages /\ OneLine /\ Late /\ Kept /\ [Next]_vars => Kept'
<1> SUFFICES ASSUME TypeOK, Stages, OneLine, Late, Kept, [Next]_vars PROVE Kept'
  OBVIOUS
<1> USE DEF Kept, InUse, BuffersSurvive, Leave, bodyVars, linkVars, bufVars, signalVars
<1>1. CASE Setup
  <2>1. ops = {}
    BY <1>1, Idle DEF Setup, Awaits
  <2> QED BY <1>1, <2>1 DEF Setup
<1>2. CASE NextChunk \/ EndStream
  <2>1. ops = {}
    BY <1>2, Idle DEF NextChunk, EndStream, Awaits
  <2>2. req.body # "inline" /\ ops' = ops /\ req' = req
    BY <1>2 DEF NextChunk, EndStream, Stages
  <2> QED BY <2>1, <2>2
<1>3. CASE Respond
  <2>1. ops = {}
    BY <1>3, Idle DEF Respond, Awaits
  <2> QED BY <1>3, <2>1 DEF Respond
<1>4. CASE SendRequest \/ WriteData \/ ReceiveResponse \/ Resend
  <2>1. ops = {}
    BY <1>4, Idle DEF SendRequest, WriteData, ReceiveResponse, Resend, Awaits
  <2>2. CASE SendRequest \/ ReceiveResponse
    BY <2>1, <2>2 DEF SendRequest, ReceiveResponse, Start, InlineBuffer
  <2>3. CASE WriteData
    BY <2>1, <2>3 DEF WriteData, Start, Stages
  <2>4. CASE Resend
    BY <2>1, <2>4 DEF Resend, Start
  <2> QED BY <1>4, <2>2, <2>3, <2>4
<1>5. CASE StartRead \/ ReadRefused
  <2>1. (abandoned => ~ReadAgain) => ops = {}
    BY <1>5 DEF StartRead, ReadRefused, MayRead, OneLine, Awaits
  <2> QED BY <1>5, <2>1 DEF StartRead, ReadRefused, MayRead, Start
<1>6. ASSUME NEW e \in mail, ResumeRead(e) PROVE Kept'
  <2>1. (abandoned => ~ReadAgain) => ops = {}
    BY <1>6 DEF ResumeRead, OneLine, Late, WithWinHttp, WithCallback, WithFuture, Awaits
  <2> QED BY <1>6, <2>1 DEF ResumeRead
<1>7. CASE DropRead
  BY <1>7 DEF DropRead, Late
<1>8. ASSUME NEW e \in mail, ResumeSend(e) \/ ResumeReceive(e) \/ ResumeResend(e) \/ ResumeWrite(e)
      PROVE  Kept'
  BY <1>8 DEF ResumeSend, ResumeReceive, ResumeResend, ResumeWrite, OnError, Retry, Fail
<1>9. ASSUME NEW o \in ops, Complete(o) PROVE Kept'
  BY <1>9 DEF Complete
<1>10. CASE \/ SetupTooLate \/ Refused \/ StreamFails \/ TimeOut \/ DropFuture \/ DropResponse
            \/ ReadTooLate \/ Drained
  BY <1>10 DEF SetupTooLate, Refused, StreamFails, TimeOut, DropFuture, DropResponse, ReadTooLate,
               Drained
<1>11. CASE Expire \/ Deliver \/ Redirect \/ AbortRedirect \/ UNCHANGED vars
  BY <1>11 DEF Expire, Deliver, Redirect, AbortRedirect, vars
<1> QED
  BY <1>1, <1>2, <1>3, <1>4, <1>5, <1>6, <1>7, <1>8, <1>9, <1>10, <1>11
     DEF Next, Run, Resume, Read, Environment, Done

\* Who may still tell of an aborted request: while an answer is awaited the
\* operation is with WinHTTP, or its answer is on its way.
LEMMA AnswerAwaited ==
  ASSUME TypeOK, Stages, OneLine, Late, Requesting
  PROVE  /\ at \in Asking \cup {"closing", "gone"}
         /\ at \in Asking => Answers = {}
<1>1. PICK o \in ops : o.kind \in {"send", "receive"}
  BY DEF Requesting
<1>2. ~abandoned
  BY <1>1 DEF Late
<1>3. CASE at \in Awaits
  <2>1. ops = {o} /\ o.kind = AwaitedKind[at] /\ held = {} /\ mail = {}
    BY <1>1, <1>2, <1>3 DEF OneLine, WithWinHttp, WithCallback, WithFuture
  <2>2. at \in Asking
    BY <1>1, <1>3, <2>1, AwaitedKinds DEF Awaits, Asking
  <2> QED BY <2>1, <2>2 DEF Answers
<1>4. CASE at \notin Awaits
  BY <1>1, <1>2, <1>4 DEF OneLine, Asking, Awaits
<1> QED BY <1>3, <1>4

LEMMA NextAborted ==
  TypeOK /\ Stages /\ Quiet /\ OneLine /\ Late /\ Aborted /\ [Next]_vars => Aborted'
<1> SUFFICES ASSUME TypeOK, Stages, Quiet, OneLine, Late, Aborted, [Next]_vars PROVE Aborted'
  OBVIOUS
<1> USE DEF Aborted, ReasonSurfaces, Leave, bodyVars, linkVars, bufVars, signalVars
<1>1. CASE \/ Setup \/ SetupTooLate \/ NextChunk \/ EndStream \/ StreamFails \/ Respond \/ Refused
  <2>1. ops = {} /\ ops' = ops /\ abort = "no" /\ abort' = abort
    BY <1>1, Idle, RefusedIs DEF Setup, SetupTooLate, NextChunk, EndStream, StreamFails, Respond,
                                 Awaits, Asking
  <2>2. at' # "gone"
    BY <1>1, RefusedIs DEF Setup, SetupTooLate, NextChunk, EndStream, Enframe, StreamFails, Respond
  <2> QED BY <2>1, <2>2 DEF Requesting
<1>2. CASE SendRequest \/ WriteData \/ ReceiveResponse \/ Resend \/ StartRead
  <2>1. abort = "no" /\ abort' = abort /\ at' \in Awaits
    BY <1>2 DEF SendRequest, WriteData, ReceiveResponse, Resend, StartRead, Start, Awaits
  <2> QED BY <2>1 DEF Awaits, Requesting
<1>3. CASE ReadRefused \/ ReadTooLate \/ DropResponse
  <2>1. ~ Requesting /\ abort = "no"
    BY <1>3, AnswerAwaited DEF ReadRefused, MayRead, ReadTooLate, DropResponse, Asking
  <2> QED BY <1>3, <2>1 DEF ReadRefused, MayRead, ReadTooLate, DropResponse, Requesting
<1>4. ASSUME NEW e \in mail, ResumeWrite(e) \/ ResumeRead(e) PROVE Aborted'
  <2>1. ~ Requesting /\ abort = "no" /\ ops' = ops
    BY <1>4, AnswerAwaited DEF ResumeWrite, ResumeRead, Asking
  <2>2. abort' = abort /\ at' # "gone" /\ at' \notin Asking
    BY <1>4, <2>1 DEF ResumeWrite, ResumeRead, Asking
  <2> QED BY <2>1, <2>2 DEF Requesting
<1>5. ASSUME NEW e \in mail, ResumeSend(e) \/ ResumeReceive(e) \/ ResumeResend(e) PROVE Aborted'
  <2>1. at \in Asking /\ ops' = ops /\ abort \in {"no", "reason"} /\ e \in Answers
    BY <1>5 DEF ResumeSend, ResumeReceive, ResumeResend, Asking, TypeOK, Answers
  <2>2. ops = {}
    BY <1>5, <2>1 DEF OneLine, Late, WithWinHttp, WithCallback, WithFuture, Awaits, Asking
  <2>3. CASE abort = "no"
    <3>1. abort' = abort /\ at' # "gone"
      BY <1>5, <2>3 DEF ResumeSend, ResumeReceive, ResumeResend, OnError, Retry, Fail
    <3> QED BY <2>1, <2>2, <2>3, <3>1 DEF Requesting
  <2>4. CASE abort = "reason"
    <3>1. e.kind = "cancelled"
      BY <2>1, <2>4
    <3>2. Fail(e) /\ at' = "closing"
      BY <1>5, <2>4, <3>1 DEF ResumeSend, ResumeReceive, ResumeResend, OnError, MayRetry, Fail
    <3>3. abort' = "taken" /\ result' = "reason" /\ ops' = {}
      BY <2>1, <2>2, <2>4, <3>2 DEF Fail
    <3> QED BY <3>2, <3>3 DEF Requesting, Asking
  <2> QED BY <2>1, <2>3, <2>4
<1>6. CASE TimeOut \/ DropFuture \/ DropRead
  BY <1>6, AnswerAwaited DEF TimeOut, DropFuture, DropRead, Requesting, Asking
<1>7. ASSUME NEW o \in ops, Complete(o) PROVE Aborted'
  <2>1. PICK e \in Outcomes(o) : Signal!Take(e)
    BY <1>7 DEF Complete
  <2>2. abort # "no" => e.kind = "cancelled"
    BY OutcomeKinds
  <2>3. \A f \in Answers' : f \in Answers \/ f = e
    BY <2>1 DEF Answers, Signal!Take
  <2>4. Requesting' => Requesting
    BY <1>7 DEF Complete, Requesting
  <2> QED BY <1>7, <2>2, <2>3, <2>4 DEF Complete
<1>8. CASE Deliver
  <2>1. Answers' \subseteq Answers
    BY <1>8 DEF Deliver, Answers, Signal!Send
  <2> QED BY <1>8, <2>1 DEF Deliver, Requesting
<1>9. CASE AbortRedirect
  <2>1. Answers' = Answers
    BY <1>9 DEF AbortRedirect, Answers
  <2> QED BY <1>9, <2>1, AnswerAwaited DEF AbortRedirect, Requesting
<1>10. CASE Drained
  BY <1>10 DEF Drained, Requesting, Asking
<1>11. CASE Expire \/ Redirect \/ UNCHANGED vars
  BY <1>11 DEF Expire, Redirect, vars, Answers, Requesting
<1> QED
  BY <1>1, <1>2, <1>3, <1>4, <1>5, <1>6, <1>7, <1>8, <1>9, <1>10, <1>11
     DEF Next, Run, Resume, Read, Environment, Done

-----------------------------------------------------------------------------
(* The part on the wire.                                                     *)

LEMMA Concat ==
  ASSUME NEW S, NEW s \in Seq(S), NEW t \in Seq(S)
  PROVE  /\ s \o t \in Seq(S) /\ Len(s \o t) = Len(s) + Len(t)
         /\ \A i \in 1 .. Len(s) : (s \o t)[i] = s[i]
         /\ \A i \in 1 .. Len(t) : (s \o t)[Len(s) + i] = t[i]
  OBVIOUS

\* InOrder and Reached, of any wire w and frames f.
Follows(u, v, f) ==
  \/ v = <<u[1], u[2] + 1>>
  \/ v = <<u[1] + 1, 1>> /\ u[2] = f[u[1]]
Ordered(w, f) == \A i \in 1 .. Len(w) : Follows(IF i = 1 THEN <<1, 0>> ELSE w[i - 1], w[i], f)
UpTo(w, f, p) ==
  IF w = <<>> THEN p = 0 /\ Len(f) = 1
  ELSE \/ w[Len(w)] = <<Len(f), p>>
       \/ p = 0 /\ Len(f) > 1 /\ w[Len(w)] = <<Len(f) - 1, f[Len(f) - 1]>>

LEMMA InOrderIsOrdered == InOrder <=> Ordered(wire, frames)
  BY DEF InOrder, Ordered, Follows

LEMMA ReachedIsUpTo == \A p : Reached(p) <=> UpTo(wire, frames, p)
  BY DEF Reached, UpTo, Last

\* k more units of the last frame, where p of it are on the wire w already.
LEMMA OrderGrows ==
  ASSUME NEW f \in Seq(Nat), f # <<>>, NEW S, NEW w \in Seq(S), NEW v \in Seq(S),
         NEW p \in Nat, NEW k \in Nat,
         Ordered(w, f), UpTo(w, f, p), Len(v) = Len(w) + k,
         \A i \in 1 .. Len(w) : v[i] = w[i],
         \A i \in 1 .. k : v[Len(w) + i] = <<Len(f), p + i>>
  PROVE  Ordered(v, f) /\ UpTo(v, f, p + k)
<1>1. Len(f) \in Nat \ {0} /\ Len(w) \in Nat
  OBVIOUS
<1>2. ASSUME NEW i \in 1 .. Len(v)
      PROVE  Follows(IF i = 1 THEN <<1, 0>> ELSE v[i - 1], v[i], f)
  <2>1. CASE i \in 1 .. Len(w)
    <3>1. v[i] = w[i] /\ (i # 1 => v[i - 1] = w[i - 1])
      BY <1>1, <2>1
    <3> QED BY <2>1, <3>1 DEF Ordered
  <2>2. CASE i = Len(w) + 1
    <3>1. v[i] = <<Len(f), p + 1>>
      BY <1>1, <1>2, <2>2
    <3>2. CASE w = <<>>
      BY <2>2, <3>1, <3>2 DEF UpTo, Follows
    <3>3. CASE w # <<>>
      <4>1. i # 1 /\ v[i - 1] = w[Len(w)]
        <5>1. Len(w) \in 1 .. Len(w)
          BY <1>1, <3>3
        <5>2. i - 1 = Len(w) /\ i # 1
          BY <1>1, <2>2, <5>1
        <5> QED BY <5>1, <5>2
      <4>2. CASE w[Len(w)] = <<Len(f), p>>
        <5>1. Follows(<<Len(f), p>>, <<Len(f), p + 1>>, f)
          BY DEF Follows
        <5> QED BY <3>1, <4>1, <4>2, <5>1
      <4>3. CASE p = 0 /\ w[Len(w)] = <<Len(f) - 1, f[Len(f) - 1]>>
        <5>1. Follows(<<Len(f) - 1, f[Len(f) - 1]>>, <<Len(f), 1>>, f)
          BY <1>1 DEF Follows
        <5> QED BY <3>1, <4>1, <4>3, <5>1
      <4> QED BY <3>3, <4>2, <4>3 DEF UpTo
    <3> QED BY <3>2, <3>3
  <2>3. CASE i > Len(w) + 1
    <3>1. PICK j \in 2 .. k : i = Len(w) + j
      <4>1. i - Len(w) \in 2 .. k /\ i = Len(w) + (i - Len(w))
        BY <1>1, <2>3
      <4> QED BY <4>1
    <3>2. v[i] = <<Len(f), p + j>> /\ v[i - 1] = <<Len(f), p + (j - 1)>> /\ i # 1
      <4>1. i - 1 = Len(w) + (j - 1) /\ j - 1 \in 1 .. k
        BY <1>1, <3>1
      <4>2. v[Len(w) + j] = <<Len(f), p + j>> /\ v[Len(w) + (j - 1)] = <<Len(f), p + (j - 1)>>
        <5>1. j \in 1 .. k /\ j - 1 \in 1 .. k
          BY <3>1, <4>1
        <5> HIDE <3>1
        <5> QED BY <5>1
      <4>3. i # 1
        BY <1>1, <3>1
      <4> QED BY <3>1, <4>1, <4>2, <4>3
    <3>3. Follows(<<Len(f), p + (j - 1)>>, <<Len(f), p + j>>, f)
      BY DEF Follows
    <3> QED BY <3>2, <3>3
  <2> QED BY <1>1, <1>2, <2>1, <2>2, <2>3
<1>3. CASE k = 0
  <2>1. v = w
    BY <1>1, <1>3
  <2> QED BY <1>2, <1>3, <2>1 DEF Ordered
<1>4. CASE k # 0
  <2>1. v # <<>> /\ v[Len(v)] = <<Len(f), p + k>>
    BY <1>1, <1>4
  <2> QED BY <1>2, <2>1 DEF Ordered, UpTo
<1> QED BY <1>3, <1>4

Grown(w, f, p, k) == w \o [i \in 1 .. k |-> <<Len(f), p + i>>]

LEMMA WireGrows ==
  ASSUME NEW f \in Seq(Nat), f # <<>>, NEW w \in Seq(Nat \X Nat), Ordered(w, f),
         \A i \in 1 .. Len(w) : w[i][1] \in 1 .. Len(f),
         NEW p \in Nat, NEW k \in Nat, UpTo(w, f, p),
         NEW v, v = Grown(w, f, p, k)
  PROVE  /\ v \in Seq(Nat \X Nat) /\ Ordered(v, f) /\ UpTo(v, f, p + k)
         /\ \A i \in 1 .. Len(v) : v[i][1] \in 1 .. Len(f)
<1> DEFINE more == [i \in 1 .. k |-> <<Len(f), p + i>>]
<1>1. more \in Seq(Nat \X Nat) /\ Len(more) = k
  <2>1. \A i \in 1 .. k : <<Len(f), p + i>> \in Nat \X Nat
    OBVIOUS
  <2> QED BY <2>1
<1>2. \A i \in 1 .. k : more[i] = <<Len(f), p + i>>
  OBVIOUS
<1> HIDE DEF more
<1>3. \A s, t \in Seq(Nat \X Nat) :
        /\ s \o t \in Seq(Nat \X Nat) /\ Len(s \o t) = Len(s) + Len(t)
        /\ \A i \in 1 .. Len(s) : (s \o t)[i] = s[i]
        /\ \A i \in 1 .. Len(t) : (s \o t)[Len(s) + i] = t[i]
  BY Concat
<1>4. PICK u \in Seq(Nat \X Nat) :
        /\ u = w \o more /\ Len(u) = Len(w) + k
        /\ \A i \in 1 .. Len(w) : u[i] = w[i]
        /\ \A i \in 1 .. k : u[Len(w) + i] = more[i]
  BY <1>1, <1>3
<1>5. v = u
  BY <1>4 DEF more, Grown
<1>6. /\ v \in Seq(Nat \X Nat) /\ Len(v) = Len(w) + k
      /\ \A i \in 1 .. Len(w) : v[i] = w[i]
      /\ \A i \in 1 .. k : v[Len(w) + i] = <<Len(f), p + i>>
  BY <1>2, <1>4, <1>5
<1>7. Ordered(v, f) /\ UpTo(v, f, p + k)
  BY <1>6, OrderGrows
<1>8. ASSUME NEW i \in 1 .. Len(v) PROVE v[i][1] \in 1 .. Len(f)
  <2>1. CASE i \in 1 .. Len(w)
    BY <1>6, <2>1
  <2>2. CASE i \notin 1 .. Len(w)
    <3>1. i - Len(w) \in 1 .. k /\ i = Len(w) + (i - Len(w))
      BY <1>6, <2>2
    <3>2. v[i] = <<Len(f), p + (i - Len(w))>>
      BY <1>6, <3>1
    <3>3. Len(f) \in 1 .. Len(f)
      OBVIOUS
    <3> QED BY <3>2, <3>3
  <2> QED BY <2>1, <2>2
<1> QED BY <1>6, <1>7, <1>8

LEMMA FollowsStill ==
  ASSUME NEW f, NEW g, NEW n \in Nat, \A j \in 1 .. n : g[j] = f[j],
         NEW u, NEW v, u[1] \in 1 .. n, Follows(u, v, f)
  PROVE  Follows(u, v, g)
  BY DEF Follows

\* A new frame is started where the one before it was taken whole.
LEMMA OrderStarts ==
  ASSUME NEW f \in Seq(Nat), NEW S, NEW w \in Seq(S), NEW size \in Nat,
         Ordered(w, f), \A i \in 1 .. Len(w) : w[i][1] \in 1 .. Len(f),
         IF f = <<>> THEN w = <<>> ELSE w # <<>> /\ w[Len(w)] = <<Len(f), f[Len(f)]>>
  PROVE  Ordered(w, Append(f, size)) /\ UpTo(w, Append(f, size), 0)
<1> DEFINE g == Append(f, size)
<1>1. /\ Len(f) \in Nat /\ Len(g) = Len(f) + 1 /\ g[Len(g)] = size
      /\ \A i \in 1 .. Len(f) : g[i] = f[i]
  OBVIOUS
<1>2. ASSUME NEW i \in 1 .. Len(w)
      PROVE  Follows(IF i = 1 THEN <<1, 0>> ELSE w[i - 1], w[i], g)
  <2> HIDE DEF g
  <2>0. \A u, v : u[1] \in 1 .. Len(f) /\ Follows(u, v, f) => Follows(u, v, g)
    BY <1>1, FollowsStill
  <2>1. Follows(IF i = 1 THEN <<1, 0>> ELSE w[i - 1], w[i], f)
    BY <1>2 DEF Ordered
  <2>2. CASE i = 1
    <3>1. 1 \in 1 .. Len(f)
      <4>1. w[1][1] \in 1 .. Len(f)
        BY <1>2, <2>2
      <4> QED BY <1>1, <4>1
    <3>2. <<1, 0>>[1] \in 1 .. Len(f)
      BY <3>1
    <3>3. Follows(<<1, 0>>, w[i], f)
      BY <2>1, <2>2
    <3>4. Follows(<<1, 0>>, w[i], g)
      BY <2>0, <3>2, <3>3, Zenon
    <3> QED BY <2>2, <3>4
  <2>3. CASE i # 1
    <3>1. w[i - 1][1] \in 1 .. Len(f)
      BY <1>2, <2>3
    <3>2. Follows(w[i - 1], w[i], f)
      BY <2>1, <2>3
    <3>3. Follows(w[i - 1], w[i], g)
      BY <2>0, <3>1, <3>2, Zenon
    <3> QED BY <2>3, <3>3
  <2> QED BY <2>2, <2>3
<1>3. UpTo(w, g, 0)
  <2>1. CASE f = <<>>
    BY <1>1, <2>1 DEF UpTo
  <2>2. CASE f # <<>>
    <3>1. Len(g) > 1 /\ w[Len(w)] = <<Len(g) - 1, g[Len(g) - 1]>> /\ w # <<>>
      BY <1>1, <2>2
    <3> QED BY <3>1 DEF UpTo
  <2> QED BY <2>1, <2>2
<1> QED BY <1>2, <1>3 DEF Ordered

LEMMA InitProgress == Init => Progress
  BY DEF Init, Progress, InOrder, TerminatedOnce

\* Nothing about the body changes, and the future is not where it is said how
\* far the wire is.
LEMMA ProgressElsewhere ==
  ASSUME Progress, UNCHANGED <<req, bodyVars>>,
         at' \notin {"nextChunk", "write", "awaitWrite", "receive"}
  PROVE  Progress'
  BY DEF Progress, InOrder, TerminatedOnce, EndOfBody, bodyVars

LEMMA ProgressAtEnframe ==
  ASSUME TypeOK, Stages, Progress, at = "nextChunk", NEW size \in Nat, NEW buffer,
         Enframe(size, buffer), UNCHANGED <<req, wire>>,
         req.body = "stream" => ~Terminated /\ (size = 1 => Len(queue') = 0)
  PROVE  Progress'
<1>1. frames \in Seq(Nat) /\ frames' = Append(frames, size) /\ offset' = 0 /\ at' = "write"
  BY DEF TypeOK, Enframe
<1>2. /\ Ordered(wire, frames) /\ wire \in Seq(Nat \X Nat)
      /\ \A i \in 1 .. Len(wire) : wire[i][1] \in 1 .. Len(frames)
      /\ IF frames = <<>> THEN wire = <<>>
         ELSE wire # <<>> /\ wire[Len(wire)] = <<Len(frames), frames[Len(frames)]>>
  BY InOrderIsOrdered DEF Progress, Last
<1>3. Ordered(wire, frames') /\ UpTo(wire, frames', 0)
  BY <1>1, <1>2, OrderStarts
<1>4. InOrder' /\ Reached(offset)'
  <2>1. (InOrder <=> Ordered(wire, frames))' /\ (\A p : Reached(p) <=> UpTo(wire, frames, p))'
    BY InOrderIsOrdered, ReachedIsUpTo, PTL
  <2> QED BY <1>1, <1>3, <2>1
<1>5. TerminatedOnce'
  <2> SUFFICES ASSUME req.body = "stream", NEW i \in 1 .. Len(frames'), frames'[i] = 1
               PROVE  i = Len(frames') /\ Len(queue') = 0
    BY <1>1 DEF TerminatedOnce, EndOfBody
  <2>1. Len(frames') = Len(frames) + 1 /\ Last(frames') = size
        /\ \A j \in 1 .. Len(frames) : frames'[j] = frames[j]
    BY EnframeType
  <2>2. i \notin 1 .. Len(frames)
    <3> SUFFICES ASSUME i \in 1 .. Len(frames) PROVE FALSE
      OBVIOUS
    <3>1. frames[i] = 1
      BY <2>1
    <3>2. i = Len(frames)
      BY <3>1 DEF Progress, TerminatedOnce
    <3> QED BY <3>1, <3>2 DEF Terminated, Last
  <2>3. i = Len(frames')
    BY <1>1, <2>1, <2>2
  <2> QED BY <2>1, <2>3 DEF Last
<1> QED BY <1>1, <1>2, <1>4, <1>5, EnframeType DEF Progress

LEMMA NextProgress ==
  TypeOK /\ Stages /\ Quiet /\ OneLine /\ Late /\ Progress /\ [Next]_vars => Progress'
<1> SUFFICES ASSUME TypeOK, Stages, Quiet, OneLine, Late, Progress, [Next]_vars PROVE Progress'
  OBVIOUS
<1> USE DEF Leave, bodyVars, linkVars, bufVars, signalVars
<1>1. CASE \/ Setup \/ SetupTooLate \/ SendRequest \/ StreamFails \/ ReceiveResponse \/ Resend
           \/ Respond \/ Refused \/ TimeOut \/ Read \/ DropResponse \/ DropFuture \/ DropRead
           \/ Drained
  BY <1>1, ProgressElsewhere, RefusedIs
     DEF Setup, SetupTooLate, SendRequest, StreamFails, ReceiveResponse, Resend, Respond, TimeOut,
         Read, StartRead, ReadRefused, ReadTooLate, DropResponse, DropFuture, DropRead,
         Drained, MayRead, Start
<1>2. CASE NextChunk
  <2>1. queue \in Seq(Nat) /\ queue # <<>> /\ ~(req.body = "stream" /\ Terminated)
    <3>1. queue \in Seq(Nat) /\ frames \in Seq(Nat) /\ ~EndOfBody /\ queue # <<>>
      BY <1>2 DEF NextChunk, EndOfBody, TypeOK
    <3>2. ASSUME req.body = "stream", Terminated PROVE FALSE
      <4>1. Len(frames) \in 1 .. Len(frames) /\ frames[Len(frames)] = 1
        BY <3>1, <3>2 DEF Terminated, Last
      <4> QED BY <3>1, <3>2, <4>1 DEF Progress, TerminatedOnce
    <3> QED BY <3>1, <3>2
  <2>2. Head(queue) \in Nat
    BY <2>1
  <2>3. CASE req.body = "large" /\ Enframe(Head(queue), 1)
    BY <1>2, <2>2, <2>3, ProgressAtEnframe DEF NextChunk
  <2>4. CASE req.body # "large" /\ Head(queue) > 0 /\ Enframe(Head(queue) + 1, Len(frames) + 1)
    <3>1. Head(queue) + 1 \in Nat /\ Head(queue) + 1 # 1
      BY <2>2, <2>4
    <3> QED BY <1>2, <2>1, <2>4, <3>1, ProgressAtEnframe DEF NextChunk
  <2>5. CASE Head(queue) = 0 /\ UNCHANGED <<frames, offset, sendBody, at>>
    <3>1. TerminatedOnce'
      BY <1>2, <2>1, <2>5
         DEF NextChunk, EndOfBody, Progress, TerminatedOnce, Terminated, Last, TypeOK
    <3> QED BY <1>2, <2>5, <3>1 DEF NextChunk, Progress, InOrder
  <2> QED BY <1>2, <2>3, <2>4, <2>5 DEF NextChunk
<1>3. CASE EndStream
  <2>1. CASE req.body = "stream" /\ ~Terminated
    BY <1>3, <2>1, ProgressAtEnframe DEF EndStream, EndOfBody
  <2>2. CASE ~(req.body = "stream" /\ ~Terminated)
    BY <1>3, <2>2 DEF EndStream, Progress, InOrder, TerminatedOnce, EndOfBody, Terminated
  <2> QED BY <2>1, <2>2
<1>4. CASE WriteData
  <2>1. ops = {} /\ held = {} /\ mail = {}
    BY <1>4, Idle DEF WriteData, Quiet, Awaits
  <2>2. /\ ops' = {[kind |-> "write", buffer |-> sendBody, from |-> offset]} /\ Answers' = {}
        /\ at' = "awaitWrite"
    BY <1>4, <2>1 DEF WriteData, Start, Signal!Listen, Signal!Orphaned, Answers
  <2>3. UNCHANGED <<req, bodyVars>> /\ at = "write"
    BY <1>4 DEF WriteData
  <2>4. Reached(offset)' /\ InOrder' /\ TerminatedOnce'
    BY <2>2, <2>3 DEF Progress, Reached, InOrder, TerminatedOnce, EndOfBody
  <2> QED BY <2>2, <2>3, <2>4 DEF Progress
<1>5. ASSUME NEW e \in mail, ResumeSend(e) PROVE Progress'
  <2>1. UNCHANGED <<req, bodyVars>> /\ at' \notin {"write", "awaitWrite"}
        /\ (at' = "receive" => req.body # "stream") /\ frames = <<>> /\ wire = <<>>
    BY <1>5 DEF ResumeSend, OnError, Retry, Fail, Stages
  <2> QED BY <2>1 DEF Progress, InOrder, TerminatedOnce, EndOfBody
<1>6. ASSUME NEW e \in mail, ResumeReceive(e) \/ ResumeResend(e) \/ ResumeRead(e) PROVE Progress'
  <2>1. UNCHANGED <<req, bodyVars>> /\ at' \notin {"nextChunk", "write", "awaitWrite"}
        /\ (at' = "receive" => req.body # "stream")
    BY <1>6 DEF ResumeReceive, ResumeResend, ResumeRead, OnError, Retry, Fail, Stages
  <2> QED BY <2>1 DEF Progress, InOrder, TerminatedOnce, EndOfBody
<1>7. ASSUME NEW e \in mail, ResumeWrite(e) PROVE Progress'
  <2>1. at = "awaitWrite" /\ UNCHANGED <<req, queue, frames, wire>> /\ Reached(offset + Took(e))
    BY <1>7 DEF ResumeWrite, Progress, Answers
  <2>2. InOrder' /\ TerminatedOnce' /\ wire' = wire /\ frames' = frames
    BY <1>7, <2>1 DEF ResumeWrite, Progress, InOrder, TerminatedOnce, EndOfBody
  <2>3. CASE e.kind = "write" /\ e.n \in 1 .. Remaining
    <3>1. Remaining \in Nat /\ e.n \in Nat /\ Took(e) = e.n /\ offset' = offset + e.n
          /\ at' = (IF e.n = Remaining THEN "nextChunk" ELSE "write")
      <4>1. Last(frames) \in Nat /\ offset \in 0 .. Last(frames)
        BY <2>1 DEF TypeOK, Stages, Last
      <4>2. Remaining \in Nat
        BY <4>1 DEF Remaining
      <4> QED BY <1>7, <2>3, <4>2 DEF ResumeWrite, Took
    <3>2. CASE e.n = Remaining
      <4>1. offset + e.n = Last(frames) /\ offset + e.n # 0
        BY <2>1, <2>3, <3>1, <3>2 DEF Remaining, TypeOK, Stages, Last
      <4>2. wire # <<>> /\ Last(wire) = <<Len(frames), Last(frames)>>
        BY <2>1, <3>1, <4>1 DEF Reached
      <4> QED BY <2>1, <2>2, <3>1, <3>2, <4>2 DEF Progress, Stages, Last
    <3>3. CASE e.n # Remaining
      <4>1. Reached(offset)'
        BY <2>1, <2>2, <3>1 DEF Reached, Last
      <4> QED BY <2>1, <2>2, <3>1, <3>3, <4>1 DEF Progress
    <3> QED BY <3>2, <3>3
  <2>4. CASE ~(e.kind = "write" /\ e.n \in 1 .. Remaining)
    BY <1>7, <2>4, ProgressElsewhere DEF ResumeWrite
  <2> QED BY <2>3, <2>4
<1>8. ASSUME NEW o \in ops, Complete(o) PROVE Progress'
  <2>1. PICK e \in Outcomes(o) :
          /\ Signal!Take(e)
          /\ wire' = IF e.kind = "write" THEN wire \o Taken(o, e.n) ELSE wire
    BY <1>8 DEF Complete
  <2>2. /\ UNCHANGED <<req, at, queue, frames, offset>> /\ ops' \subseteq ops
        /\ \A f \in Answers' : f \in Answers \/ f = e
    BY <1>8, <2>1 DEF Complete, Answers, Signal!Take
  <2>3. at = "awaitWrite" => o.from = offset /\ Reached(offset)
    BY DEF Progress
  <2>4. CASE e.kind # "write"
    <3>1. wire' = wire /\ Took(e) = 0 /\ offset + 0 = offset
      BY <2>1, <2>4 DEF Took, TypeOK
    <3>2. at = "awaitWrite" => \A f \in Answers' : Reached(offset + Took(f))
      BY <2>2, <2>3, <3>1 DEF Progress
    <3> QED BY <2>2, <3>1, <3>2
            DEF Progress, InOrder, TerminatedOnce, EndOfBody, Reached, Took, Remaining, Last
  <2>5. CASE e.kind = "write"
    <3>1. o.kind = "write" /\ at # "closing"
      BY <2>5, OutcomeKinds
    <3>2. at \in Awaits /\ ~abandoned
      BY <3>1 DEF Late, OneLine, Stages, TypeOK, Places
    <3>3. ops = {o} /\ o.kind = AwaitedKind[at] /\ Answers = {}
      BY <3>2 DEF OneLine, WithWinHttp, WithCallback, WithFuture, Answers
    <3>4. at = "awaitWrite"
      BY <3>1, <3>2, <3>3, AwaitedKinds DEF Awaits
    <3>5. frames \in Seq(Nat) /\ frames # <<>> /\ Remaining \in Nat /\ offset \in Nat
      <4>1. Last(frames) \in Nat /\ offset \in 0 .. Last(frames)
        BY <3>4 DEF TypeOK, Stages, Last
      <4> QED BY <3>4, <4>1 DEF Remaining, TypeOK, Stages
    <3>6. e.n \in Nat
      BY <2>5, <3>1, <3>5, <2>3, <3>4 DEF Outcomes, Event, Remaining
    <3>7. Took(e) \in Nat /\ Taken(o, e.n) = [i \in 1 .. Took(e) |-> <<Len(frames), offset + i>>]
      BY <2>3, <2>5, <3>4, <3>5, <3>6 DEF Took, Taken, Remaining
    <3>8. /\ wire' \in Seq(Nat \X Nat) /\ InOrder' /\ Reached(offset + Took(e))'
          /\ \A i \in 1 .. Len(wire') : wire'[i][1] \in 1 .. Len(frames)
      <4>1. /\ Ordered(wire, frames) /\ UpTo(wire, frames, offset) /\ wire \in Seq(Nat \X Nat)
            /\ \A i \in 1 .. Len(wire) : wire[i][1] \in 1 .. Len(frames)
        BY <2>3, <3>4, InOrderIsOrdered, ReachedIsUpTo DEF Progress
      <4>2. wire' = Grown(wire, frames, offset, Took(e))
        BY <2>1, <2>5, <3>7 DEF Grown
      <4>3. /\ wire' \in Seq(Nat \X Nat) /\ Ordered(wire', frames)
            /\ UpTo(wire', frames, offset + Took(e))
            /\ \A i \in 1 .. Len(wire') : wire'[i][1] \in 1 .. Len(frames)
        BY <3>5, <3>7, <4>1, <4>2, WireGrows
      <4>4. (InOrder <=> Ordered(wire, frames))' /\ (\A p : Reached(p) <=> UpTo(wire, frames, p))'
        BY InOrderIsOrdered, ReachedIsUpTo, PTL
      <4>5. (offset + Took(e))' = offset + Took(e)
        BY <2>2 DEF Took, Remaining, Last
      <4> QED BY <2>2, <4>3, <4>4, <4>5
    <3>9. ops' = {} /\ TerminatedOnce'
      BY <1>8, <2>2, <3>3, <3>4 DEF Complete, Progress, TerminatedOnce, EndOfBody
    <3> QED BY <2>2, <3>3, <3>4, <3>8, <3>9 DEF Progress
  <2> QED BY <2>4, <2>5
<1>9. CASE Deliver
  <2>1. Answers' \subseteq Answers /\ UNCHANGED <<req, at, bodyVars, ops>>
    BY <1>9 DEF Deliver, Answers, Signal!Send
  <2> QED BY <2>1 DEF Progress, InOrder, TerminatedOnce, EndOfBody, Reached, Took, Remaining, Last
<1>10. CASE Expire \/ Redirect \/ AbortRedirect \/ UNCHANGED vars
  <2>1. Answers' = Answers /\ UNCHANGED <<req, at, bodyVars, ops>>
    BY <1>10 DEF Expire, Redirect, AbortRedirect, vars, Answers
  <2> QED BY <2>1 DEF Progress, InOrder, TerminatedOnce, EndOfBody, Reached, Took, Remaining, Last
<1> QED
  BY <1>1, <1>2, <1>3, <1>4, <1>5, <1>6, <1>7, <1>8, <1>9, <1>10
     DEF Next, Run, Resume, Environment, Done

-----------------------------------------------------------------------------
(* The theorems.                                                             *)

LEMMA InitIInv == Init => IInv
<1> SUFFICES ASSUME Init PROVE IInv
  OBVIOUS
<1>1. Stages /\ Quiet /\ OneLine /\ Late /\ Kept /\ Aborted
  BY FS_EmptySet
     DEF Init, Signal!SignalInit, Stages, Quiet, OneLine, Late, Kept, InUse, BuffersSurvive,
         Aborted, ReasonSurfaces, Awaits
<1> QED BY <1>1, InitTypeOK, InitProgress DEF IInv

\* The invariant holds throughout every behaviour.
THEOREM Invariance == Spec => []IInv
<1>1. IInv /\ [Next]_vars => IInv'
  BY NextTypeOK, NextStages, NextQuiet, NextOneLine, NextLate, NextKept, NextAborted, NextProgress
     DEF IInv
<1> QED BY <1>1, InitIInv, PTL DEF Spec

\* Every variable stays in its type, for any requests and any bounds, and the
\* future listens exactly at its awaits.
THEOREM TypeCorrect == Spec => []TypeOK
<1>1. IInv => TypeOK
  BY DEF IInv
<1> QED BY <1>1, Invariance, PTL

\* However WinHTTP splits the writes of whatever body, the wire has its units
\* once each and in order, and a chunked body ends once and at its end
\* (write_data_with, write_chunked).
THEOREM BodyGoesOutWhole == Spec => []BodySentWhole
<1>1. IInv => BodySentWhole
  BY DEF IInv, Progress, BodySentWhole
<1> QED BY <1>1, Invariance, PTL

\* A caller that does not read on after it gave up a read never makes the
\* library free or replace a buffer that WinHTTP still has.
THEOREM BuffersOutliveOperations == ~ReadAgain => (Spec => []BuffersSurvive)
<1> SUFFICES ASSUME ~ReadAgain PROVE Spec => []BuffersSurvive
  OBVIOUS
<1>1. IInv => BuffersSurvive
  BY DEF IInv, Kept
<1> QED BY <1>1, Invariance, PTL

LEMMA OneWay ==
  ASSUME IInv, ~abandoned
  PROVE  OneAnswerComing
<1> DEFINE carried == {h \in held : h.to = "live"}
<1> SUFFICES ASSUME at \in Awaits
             PROVE  Cardinality(ops) + Cardinality(carried) + Cardinality(mail) = 1
  BY DEF OneAnswerComing
<1>1. \A S : S = {} => Cardinality(S) = 0
  BY FS_EmptySet
<1>2. \A S, x : S = {x} => Cardinality(S) = 1
  BY FS_Singleton
<1>3. WithWinHttp \/ WithCallback \/ WithFuture
  BY DEF IInv, OneLine
<1>4. CASE WithWinHttp
  <2>1. PICK o : ops = {o} /\ carried = {} /\ mail = {}
    BY <1>4 DEF WithWinHttp
  <2> HIDE DEF carried
  <2>2. Cardinality(ops) = 1 /\ Cardinality(carried) = 0 /\ Cardinality(mail) = 0
    BY <1>1, <1>2, <2>1, Zenon
  <2> QED BY <2>2
<1>5. CASE WithCallback
  <2>1. PICK h : ops = {} /\ carried = {h} /\ mail = {}
    BY <1>5 DEF WithCallback
  <2> HIDE DEF carried
  <2>2. Cardinality(ops) = 0 /\ Cardinality(carried) = 1 /\ Cardinality(mail) = 0
    BY <1>1, <1>2, <2>1, Zenon
  <2> QED BY <2>2
<1>6. CASE WithFuture
  <2>1. PICK e : ops = {} /\ carried = {} /\ mail = {e}
    BY <1>6 DEF WithFuture
  <2> HIDE DEF carried
  <2>2. Cardinality(ops) = 0 /\ Cardinality(carried) = 0 /\ Cardinality(mail) = 1
    BY <1>1, <1>2, <2>1, Zenon
  <2> QED BY <2>2
<1> QED BY <1>3, <1>4, <1>5, <1>6

\* As long as no read was given up, a waiting future has exactly one answer
\* under way, and the buffers of all operations are kept, whatever the caller
\* does later.
THEOREM UntilAReadIsGivenUp == Spec => [](~abandoned => OneAnswerComing /\ BuffersSurvive)
<1>1. IInv => (~abandoned => OneAnswerComing /\ BuffersSurvive)
  BY OneWay DEF IInv, Kept
<1> QED BY <1>1, Invariance, PTL

\* An aborted request tells its reason, and a waiting future has exactly one
\* answer under way, for any caller that does not read on after it gave up a
\* read.
THEOREM OneAnswerEach == ~ReadAgain => (Spec => []OneAnswer)
<1> SUFFICES ASSUME ~ReadAgain PROVE Spec => []OneAnswer
  OBVIOUS
<1>1. IInv => OneAnswer
  <2> SUFFICES ASSUME IInv PROVE OneAnswer
    OBVIOUS
  <2>1. abandoned => at \notin Awaits
    BY DEF IInv, Late, Awaits
  <2>2. OneAnswerComing
    BY <2>1, OneWay DEF OneAnswerComing
  <2> QED BY <2>2 DEF OneAnswer, IInv, Aborted
<1> QED BY <1>1, Invariance, PTL
=============================================================================
