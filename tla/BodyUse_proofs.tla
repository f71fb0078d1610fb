--------------------------- MODULE BodyUse_proofs ---------------------------
(* Proofs about BodyUse, for any number of chunks and of reads.  What makes   *)
(* every holder see the same body: the Response carries a Client of its own   *)
(* to whoever has it, so a read only fails where the server broke off, and    *)
(* its handle is there until the first answer that ends the body.             *)
EXTENDS BodyUse, FiniteSetTheorems, TLAPS

Answers == Chunks \union {"end", "error", "timeout", "consumed"}
Answered == Chunks \union Ends \union {"dropped"}

\* TypeOK, the types of what it leaves out, and what the constants are.
Types ==
  /\ ConstantsOK
  /\ TypeOK
  /\ reading \in BOOLEAN /\ late \in BOOLEAN /\ client \in BOOLEAN
  /\ total \in 0..MaxChunks
  /\ server \in [left : 0..MaxChunks, breaks : BOOLEAN] /\ server.left <= total

\* No holder loses the Client that keeps the session open.
ClientKept == resp # None => resp.client

\* The handle is there while a read is under way, waited for or given up, and
\* until the body is over.
HandleKept ==
  /\ reading \/ adrift > 0 => resp # None /\ resp.raw
  /\ resp # None /\ resp.raw =>
       \A i \in DOMAIN got : got[i] \notin {"end", "whole", "timeout", "consumed"}

\* BodyDelivered, one conjunct each.
EndIsAll ==
  \A i \in DOMAIN got : got[i] \in {"end", "whole"} => server = [left |-> 0, breaks |-> FALSE]

ErrorIsBreak ==
  \A i \in DOMAIN got : got[i] = "error" => server = [left |-> 0, breaks |-> TRUE]

Ordered ==
  \A i \in DOMAIN got, j \in DOMAIN got : i < j =>
    /\ got[i] \in {"end", "whole", "timeout", "consumed"} => got[j] = "consumed"
    /\ got[i] = "error" => got[j] \notin Chunks

Places(w, what) == {i \in DOMAIN w : w[i] = what}
Many(w, what) == Cardinality(Places(w, what))

AllCounted == Many(got, "data") + lost = total - server.left

\* A read adrift was given up, or came after one that was and got its answer.
LossBounded == adrift + lost <= Many(got, "dropped") + Many(got, "torn")

TornLater ==
  /\ adrift > 0 => Places(got, "dropped") # {}
  /\ \A i \in Places(got, "torn") : \E j \in Places(got, "dropped") : j < i

IInv ==
  /\ Types /\ ClientKept /\ HandleKept
  /\ EndIsAll /\ ErrorIsBreak /\ Ordered
  /\ AllCounted /\ LossBounded /\ TornLater

-----------------------------------------------------------------------------
(* What is told, one more time.                                              *)

LEMMA AppendFacts ==
  ASSUME NEW S, NEW w \in Seq(S), NEW a \in S
  PROVE  /\ Append(w, a) \in Seq(S) /\ w \o <<a>> = Append(w, a) /\ w \o << >> = w
         /\ DOMAIN Append(w, a) = DOMAIN w \union {Len(w) + 1}
         /\ Len(w) + 1 \notin DOMAIN w
         /\ \A i \in DOMAIN w : Append(w, a)[i] = w[i] /\ i < Len(w) + 1
         /\ Append(w, a)[Len(w) + 1] = a
         /\ \A i \in DOMAIN w : i \in 1..Len(w)
OBVIOUS

LEMMA GottenFinite ==
  ASSUME Types, NEW what
  PROVE  IsFiniteSet(Places(got, what)) /\ Many(got, what) \in Nat
<1>1. got \in Seq(Answered)
  BY DEF Types, TypeOK, Answered
<1>2. IsFiniteSet(1..Len(got)) /\ Places(got, what) \subseteq 1..Len(got)
  BY <1>1, FS_Interval DEF Places
<1> QED BY <1>2, FS_Subset, FS_CardinalityType DEF Many

\* One more answer in the history.
LEMMA GottenMore ==
  ASSUME Types, NEW a \in Answered, NEW what, got' = Append(got, a)
  PROVE  /\ got' \in Seq(Answered)
         /\ a = what => Many(got', what) = Many(got, what) + 1
         /\ a # what => Many(got', what) = Many(got, what)
<1>0. got \in Seq(Answered)
  BY DEF Types, TypeOK, Answered
<1>1. /\ DOMAIN got' = DOMAIN got \union {Len(got) + 1} /\ Len(got) + 1 \notin DOMAIN got
      /\ \A i \in DOMAIN got : got'[i] = got[i]
      /\ got'[Len(got) + 1] = a /\ got' \in Seq(Answered)
  BY <1>0, AppendFacts
<1>2. CASE a = what
  <2>1. Places(got', what) = Places(got, what) \union {Len(got) + 1} /\ Len(got) + 1 \notin Places(got, what)
    BY <1>1, <1>2 DEF Places
  <2> QED BY <1>1, <1>2, <2>1, GottenFinite, FS_AddElement DEF Many
<1>3. CASE a # what
  <2>1. Places(got', what) = Places(got, what)
    BY <1>1, <1>3 DEF Places
  <2> QED BY <1>1, <1>3, <2>1 DEF Many
<1> QED BY <1>1, <1>2, <1>3

\* The same, entry by entry.
LEMMA OneMore ==
  ASSUME Types, NEW a \in Answered, got' = Append(got, a)
  PROVE  /\ Len(got) + 1 \in Nat /\ got'[Len(got) + 1] = a
         /\ DOMAIN got' = DOMAIN got \union {Len(got) + 1}
         /\ \A i \in DOMAIN got : got'[i] = got[i] /\ i < Len(got) + 1 /\ i \in Nat
<1>0. got \in Seq(Answered)
  BY DEF Types, TypeOK, Answered
<1> QED BY <1>0, AppendFacts

\* What is torn comes after what was given up also when more is told.
LEMMA TornStays ==
  ASSUME Types, TornLater, NEW a \in Answered, got' = Append(got, a),
         a = "torn" => Places(got, "dropped") # {}, adrift' > 0 => adrift > 0 \/ a = "dropped"
  PROVE  TornLater'
<1> DEFINE n == Len(got) + 1
<1>1. /\ n \in Nat /\ got'[n] = a /\ DOMAIN got' = DOMAIN got \union {n}
      /\ \A i \in DOMAIN got : got'[i] = got[i] /\ i < n /\ i \in Nat
  BY OneMore
<1> HIDE DEF n
<1>2. /\ Places(got, "dropped") \subseteq Places(got', "dropped")
      /\ a = "dropped" => n \in Places(got', "dropped")
      /\ Places(got', "torn") \subseteq Places(got, "torn") \union {n}
      /\ n \in Places(got', "torn") => a = "torn"
      /\ \A i \in Places(got, "dropped") : i < n
      /\ n \notin Places(got, "torn")
  BY <1>1 DEF Places
<1>3. adrift' > 0 => Places(got', "dropped") # {}
  BY <1>2 DEF TornLater
<1>4. \A i \in Places(got', "torn") : \E j \in Places(got', "dropped") : j < i
  <2> TAKE i \in Places(got', "torn")
  <2>1. CASE i = n
    BY <1>2, <2>1
  <2>2. CASE i \in Places(got, "torn")
    BY <1>2, <2>2 DEF TornLater
  <2> QED BY <1>2, <2>1, <2>2
<1> QED BY <1>3, <1>4 DEF TornLater

LEMMA IInvImplies == IInv => TypeOK /\ BodyDelivered
<1> SUFFICES ASSUME IInv PROVE TypeOK /\ BodyDelivered
  OBVIOUS
<1>1. /\ adrift \in Nat /\ lost \in Nat /\ Types
  BY DEF IInv, Types, TypeOK
<1>2. Many(got, "dropped") \in Nat /\ Many(got, "torn") \in Nat
  BY <1>1, GottenFinite
<1>3. lost <= Many(got, "dropped") + Many(got, "torn")
  BY <1>1, <1>2 DEF IInv, LossBounded
<1> QED
  BY <1>1, <1>3 DEF IInv, Types, BodyDelivered, EndIsAll, ErrorIsBreak, Ordered, AllCounted,
    TornLater, Gotten, Places, Many

LEMMA InitIInv ==
  ASSUME ConstantsOK, Init
  PROVE  IInv
<1> USE DEF ConstantsOK
<1>1. Types
  <2>1. total \in 0..MaxChunks /\ total \in Nat /\ 0 <= total
    BY DEF Init
  <2>2. server \in [left : 0..MaxChunks, breaks : BOOLEAN] /\ server.left <= total
    BY <2>1 DEF Init
  <2>3. TypeOK
    <3>1. resp \in Responses /\ resp # None
      <4>1. [raw |-> TRUE, client |-> TRUE] \in Responses
        BY DEF Responses
      <4>2. resp \in Responses
        BY <4>1 DEF Init
      <4> QED BY <4>2, Zenon
    <3> QED BY <3>1 DEF Init, TypeOK
  <2> QED BY <2>1, <2>2, <2>3 DEF Init, Types
<1>2. ClientKept /\ HandleKept /\ EndIsAll /\ ErrorIsBreak /\ Ordered
  BY DEF Init, ClientKept, HandleKept, EndIsAll, ErrorIsBreak, Ordered
<1>3. AllCounted /\ LossBounded /\ TornLater
  <2>1. /\ server.left = total /\ total \in Int /\ adrift = 0 /\ lost = 0
        /\ \A what : Places(got, what) = {}
    BY DEF Init, Places
  <2>2. \A what : Many(got, what) = 0
    BY <2>1, FS_EmptySet DEF Many
  <2> QED BY <2>1, <2>2 DEF AllCounted, LossBounded, TornLater
<1> QED BY <1>1, <1>2, <1>3 DEF IInv

-----------------------------------------------------------------------------
(* The answers of chunk().                                                   *)

LEMMA WhatIsTold ==
  ASSUME Types, NEW answer \in Answers, Answer(answer)
  PROVE  /\ got' = Append(got, Told(answer)) /\ Told(answer) \in Answered
         /\ Told(answer) = answer \/ (Told(answer) = "whole" /\ answer = "end")
BY DEF Answer, Told, Answers, Answered, Ends, Chunks

\* The Response after an answer: a holder that keeps it keeps its Client, and
\* has a handle only if it had and the body is not over. Without a handle no
\* read is adrift.
LEMMA WhatIsHeld ==
  ASSUME Types, resp # None, NEW answer \in Answers, Answer(answer)
  PROVE  \/ /\ resp' = None /\ holder' = "nobody" /\ adrift' = 0
            /\ answer \notin Chunks /\ holder # "response"
         \/ /\ resp' \in Responses /\ resp' # None /\ holder' = holder
            /\ resp'.client = resp.client
            /\ resp'.raw = (resp.raw /\ answer \notin {"end", "timeout"})
            /\ adrift' = IF answer \in {"end", "timeout"} THEN 0 ELSE adrift
            /\ holder = "response" \/ answer \in Chunks
<1>1. resp \in Responses
  BY DEF Types, TypeOK
<1>2. CASE Holds(answer)
  <2>1. /\ resp' = [resp EXCEPT !.raw = @ /\ answer \notin {"end", "timeout"}]
        /\ holder' = holder
        /\ adrift' = IF answer \in {"end", "timeout"} THEN 0 ELSE adrift
    BY <1>2 DEF Answer
  <2>2. resp' \in Responses /\ resp'.client = resp.client
    BY <1>1, <2>1 DEF Responses
  <2>3. resp'.raw = (resp.raw /\ answer \notin {"end", "timeout"})
    BY <1>1, <2>1 DEF Responses
  <2> QED BY <1>2, <2>1, <2>2, <2>3 DEF Holds, Types, ConstantsOK
<1>3. CASE ~Holds(answer)
  BY <1>3 DEF Answer, Holds
<1> QED BY <1>2, <1>3

\* What an answer may rest on.
Grounded(answer) ==
  /\ answer = "consumed" <=> ~resp.raw
  /\ answer \in Chunks => server.left > 0
  /\ answer = "torn" => adrift > 0
  /\ answer = "error" => server = [left |-> 0, breaks |-> TRUE]
  /\ answer = "end" => server = [left |-> 0, breaks |-> FALSE]
  /\ server' = IF answer \in Chunks THEN [server EXCEPT !.left = @ - 1] ELSE server
  /\ lost' = IF answer = "torn" THEN lost + 1 ELSE lost

LEMMA AnswerKeepsTypes ==
  ASSUME IInv, resp # None, NEW answer \in Answers,
         Answer(answer), Grounded(answer), reading' = FALSE, UNCHANGED <<client, late, total>>
  PROVE  Types'
<1> USE DEF IInv
<1>1. got' \in Seq(Answered)
  BY WhatIsTold, GottenMore
<1>2. adrift' \in Nat /\ lost' \in Nat
  BY WhatIsHeld DEF Types, TypeOK, Grounded
<1>3. TypeOK'
  BY <1>1, <1>2, WhatIsHeld DEF Types, TypeOK, Answered
<1>4. server' \in [left : 0..MaxChunks, breaks : BOOLEAN] /\ server'.left <= total
  <2>1. /\ total \in 0..MaxChunks /\ server.left <= total
        /\ server \in [left : 0..MaxChunks, breaks : BOOLEAN]
    BY DEF Types
  <2>2. server' = server \/ (server.left > 0 /\ server' = [server EXCEPT !.left = @ - 1])
    BY DEF Grounded
  <2> QED BY <2>1, <2>2 DEF Types, ConstantsOK
<1> QED BY <1>3, <1>4 DEF Types

\* The counts after an answer.
LEMMA AnswerCounts ==
  ASSUME IInv, resp # None, NEW answer \in Answers,
         Answer(answer), Grounded(answer), UNCHANGED total
  PROVE  AllCounted' /\ LossBounded' /\ TornLater'
<1> USE DEF IInv
<1>1. got' = Append(got, Told(answer)) /\ Told(answer) \in Answered
      /\ (Told(answer) = answer \/ (Told(answer) = "whole" /\ answer = "end"))
  BY WhatIsTold
<1>2. /\ server \in [left : 0..MaxChunks, breaks : BOOLEAN] /\ total \in Nat
      /\ server.left \in Nat /\ adrift \in Nat /\ lost \in Nat
  BY DEF Types, TypeOK, ConstantsOK
<1>3. adrift' = adrift \/ adrift' = 0
  BY WhatIsHeld
<1>4. \A what : Many(got, what) \in Nat
  BY GottenFinite
<1> DEFINE told == Told(answer)
<1> HIDE DEF told
<1>5. told = answer \/ (told = "whole" /\ answer = "end")
  BY <1>1 DEF told
<1>6. \A what : Many(got', what) = IF told = what THEN Many(got, what) + 1 ELSE Many(got, what)
  BY <1>1, GottenMore DEF told
<1>7. /\ Many(got', "data") = IF answer = "data" THEN Many(got, "data") + 1 ELSE Many(got, "data")
      /\ Many(got', "torn") = IF answer = "torn" THEN Many(got, "torn") + 1 ELSE Many(got, "torn")
      /\ Many(got', "dropped") = Many(got, "dropped")
  BY <1>5, <1>6 DEF Answers, Chunks
<1>8. server'.left = IF answer \in Chunks THEN server.left - 1 ELSE server.left
  BY <1>2 DEF Grounded
<1>9. AllCounted'
  BY <1>2, <1>4, <1>7, <1>8 DEF AllCounted, Grounded, Chunks
<1>10. LossBounded'
  BY <1>2, <1>3, <1>4, <1>7 DEF LossBounded, Grounded
<1>11. TornLater'
  <2>1. told = "torn" => Places(got, "dropped") # {}
    BY <1>5 DEF Grounded, TornLater
  <2>2. adrift' > 0 => adrift > 0
    BY <1>3
  <2> QED BY <1>1, <2>1, <2>2, TornStays DEF told
<1> QED BY <1>9, <1>10, <1>11

LEMMA AnswerKeeps ==
  ASSUME IInv, resp # None, NEW answer \in Answers,
         Answer(answer), Grounded(answer), reading' = FALSE, UNCHANGED <<client, late, total>>
  PROVE  IInv'
<1> USE DEF IInv
<1> DEFINE n == Len(got) + 1
           told == Told(answer)
<1>1. Types'
  BY AnswerKeepsTypes
<1>2. ClientKept'
  BY WhatIsHeld DEF ClientKept
<1>3. AllCounted' /\ LossBounded' /\ TornLater'
  BY AnswerCounts
<1>4. /\ told = answer \/ (told = "whole" /\ answer = "end")
      /\ n \in Nat /\ got'[n] = told /\ DOMAIN got' = DOMAIN got \union {n}
      /\ \A i \in DOMAIN got : got'[i] = got[i] /\ i < n /\ i \in Nat
  BY WhatIsTold, OneMore
<1> HIDE DEF n, told
<1>5. answer \in Chunks => server.left > 0 /\ server # [left |-> 0, breaks |-> FALSE]
                           /\ server # [left |-> 0, breaks |-> TRUE]
  BY DEF Grounded
<1>6. answer \notin Chunks => server' = server
  BY DEF Grounded
<1>7. answer \in Answers
  OBVIOUS
<1>8. HandleKept'
  <2>1. resp' # None /\ resp'.raw => resp.raw /\ answer \in Chunks \union {"error"}
    BY <1>7, WhatIsHeld DEF Grounded, Answers
  <2>2. adrift' > 0 => resp' # None /\ resp'.raw
    <3>1. CASE adrift' = 0
      BY <3>1
    <3>2. CASE adrift' # 0
      <4>1. /\ resp' # None /\ adrift' = adrift /\ answer \notin {"end", "timeout"}
            /\ resp'.raw = (resp.raw /\ answer \notin {"end", "timeout"})
        BY <3>2, WhatIsHeld
      <4>2. adrift > 0 => resp.raw
        BY DEF HandleKept
      <4> QED BY <4>1, <4>2
    <3> QED BY <3>1, <3>2
  <2>3. answer \in Chunks \union {"error"} =>
          told \notin {"end", "whole", "timeout", "consumed"}
    BY <1>4 DEF Chunks
  <2> QED BY <1>4, <2>1, <2>2, <2>3 DEF HandleKept
<1>9. EndIsAll'
  BY <1>4, <1>5, <1>6, <1>7 DEF EndIsAll, Grounded, Answers, Chunks
<1>10. ErrorIsBreak'
  BY <1>4, <1>5, <1>6, <1>7 DEF ErrorIsBreak, Grounded, Answers, Chunks
<1>11. Ordered'
  <2>1. \A i \in DOMAIN got :
          /\ got[i] \in {"end", "whole", "timeout", "consumed"} => answer = "consumed"
          /\ got[i] = "error" => answer \notin Chunks
    BY <1>5 DEF HandleKept, ErrorIsBreak, Grounded
  <2>2. \A i, j \in DOMAIN got' :
          i < j => i \in DOMAIN got /\ got'[i] = got[i] /\ (j \in DOMAIN got => got'[j] = got[j])
    BY <1>4
  <2>3. answer = "consumed" => told = "consumed"
    BY <1>4
  <2>4. answer \notin Chunks => told \notin Chunks
    BY <1>4 DEF Chunks
  <2>5. \A i, j \in DOMAIN got' : i < j =>
          /\ got'[i] \in {"end", "whole", "timeout", "consumed"} => got'[j] = "consumed"
          /\ got'[i] = "error" => got'[j] \notin Chunks
    BY <1>4, <2>1, <2>2, <2>3, <2>4 DEF Ordered
  <2> QED BY <2>5 DEF Ordered
<1> QED BY <1>1, <1>2, <1>3, <1>8, <1>9, <1>10, <1>11

-----------------------------------------------------------------------------
(* The steps.                                                                *)

\* What the history and the server allow is unchanged by a step that leaves
\* both, if no more reads are adrift than were.
LEMMA HistoryStays ==
  ASSUME IInv, UNCHANGED <<server, got, lost, total>>, adrift' = adrift \/ adrift' = 0
  PROVE  /\ EndIsAll' /\ ErrorIsBreak' /\ Ordered'
         /\ AllCounted' /\ LossBounded' /\ TornLater'
<1>1. EndIsAll' /\ ErrorIsBreak' /\ Ordered'
  BY DEF IInv, EndIsAll, ErrorIsBreak, Ordered
<1>2. \A what : Places(got', what) = Places(got, what) /\ Many(got', what) = Many(got, what) /\ Many(got, what) \in Nat
  BY GottenFinite DEF IInv, Places, Many
<1>3. AllCounted' /\ TornLater'
  BY <1>2 DEF IInv, AllCounted, TornLater
<1>4. LossBounded'
  <2>1. adrift \in Nat /\ lost \in Nat
    BY DEF IInv, Types, TypeOK
  <2> QED BY <1>2, <2>1 DEF IInv, LossBounded
<1> QED BY <1>1, <1>3, <1>4

LEMMA SumBound ==
  ASSUME NEW a \in Nat, NEW b \in Nat, NEW c \in Nat, NEW d \in Nat, NEW m \in Nat, NEW n \in Nat,
         a + b <= c + d, c + d <= m + n
  PROVE  a + b <= m + n
OBVIOUS

LEMMA ServerAnswers ==
  ASSUME IInv, resp # None, resp.raw, NEW givenUp \in BOOLEAN, Takes(givenUp)
  PROVE  /\ ReadAnswer \in {"data", "end", "error"}
         /\ ReadAnswer = "data" => server.left > 0 /\ server'.left = server.left - 1
                                   /\ server' = [server EXCEPT !.left = @ - 1]
         /\ ReadAnswer # "data" => server' = server
         /\ ReadAnswer = "error" => server = [left |-> 0, breaks |-> TRUE]
         /\ ReadAnswer = "end" => server = [left |-> 0, breaks |-> FALSE]
         /\ lost' = IF givenUp /\ ReadAnswer = "data" THEN lost + 1 ELSE lost
<1>1. server \in [left : 0..MaxChunks, breaks : BOOLEAN] /\ resp.client /\ MaxChunks \in Nat
  BY DEF IInv, Types, ConstantsOK, ClientKept
<1> QED BY <1>1 DEF ReadAnswer, Takes

LEMMA NextIInv == IInv /\ [Next]_vars => IInv'
<1> SUFFICES ASSUME IInv, [Next]_vars PROVE IInv'
  OBVIOUS
<1> USE DEF IInv
<1>1. CASE DropClient \/ DeadlinePasses
  <2>1. /\ UNCHANGED <<resp, holder, reading, server, adrift, got, lost, total>>
        /\ client' \in BOOLEAN /\ late' \in BOOLEAN
    BY <1>1 DEF DropClient, DeadlinePasses, Types
  <2>2. Types' /\ ClientKept' /\ HandleKept'
    BY <2>1 DEF Types, TypeOK, ClientKept, HandleKept
  <2> QED BY <2>1, <2>2, HistoryStays
<1>2. CASE IntoStream \/ IntoHttpResponse \/ IntoBody \/ Collect
  <2>1. /\ UNCHANGED <<resp, reading, client, server, late, adrift, got, lost, total>>
        /\ holder = "response" /\ holder' \in {"stream", "body", "collecting"}
    BY <1>2 DEF IntoStream, IntoHttpResponse, IntoBody, Collect, HandTo, Streamer
  <2>2. Types' /\ ClientKept' /\ HandleKept'
    BY <2>1 DEF Types, TypeOK, ClientKept, HandleKept
  <2> QED BY <2>1, <2>2, HistoryStays
<1>3. CASE BeginChunk
  <2>1. /\ UNCHANGED <<resp, holder, client, server, late, adrift, got, lost, total>>
        /\ reading' = TRUE /\ resp # None /\ resp.raw
    BY <1>3 DEF BeginChunk
  <2>2. Types' /\ ClientKept' /\ HandleKept'
    BY <2>1 DEF Types, TypeOK, ClientKept, HandleKept
  <2> QED BY <2>1, <2>2, HistoryStays
<1>4. CASE ChunkRefused
  <2> DEFINE answer == IF resp.raw THEN "timeout" ELSE "consumed"
  <2>1. /\ Answer(answer) /\ Grounded(answer) /\ resp # None
        /\ reading' = FALSE /\ UNCHANGED <<client, late, total>>
    BY <1>4 DEF ChunkRefused, Grounded, Types, Chunks
  <2> HIDE DEF answer
  <2>2. answer \in Answers
    BY DEF answer, Answers
  <2> QED BY <2>1, <2>2, AnswerKeeps
<1>5. CASE ChunkTimesOut
  <2>1. /\ Answer("timeout") /\ Grounded("timeout") /\ resp # None
        /\ reading' = FALSE /\ UNCHANGED <<client, late, total>>
    BY <1>5 DEF ChunkTimesOut, Grounded, HandleKept, Chunks
  <2>2. "timeout" \in Answers
    BY DEF Answers
  <2> QED BY <2>1, <2>2, AnswerKeeps
<1>6. CASE ChunkReturns
  <2> DEFINE answer == IF adrift > 0 /\ ReadAnswer = "data" THEN "torn" ELSE ReadAnswer
  <2>1. /\ resp # None /\ resp.raw /\ reading' = FALSE /\ UNCHANGED <<client, late, total>>
        /\ Answer(answer) /\ Takes(adrift > 0)
    BY <1>6 DEF ChunkReturns, HandleKept
  <2>2. /\ ReadAnswer \in {"data", "end", "error"}
        /\ ReadAnswer = "data" => server.left > 0 /\ server' = [server EXCEPT !.left = @ - 1]
        /\ ReadAnswer # "data" => server' = server
        /\ ReadAnswer = "error" => server = [left |-> 0, breaks |-> TRUE]
        /\ ReadAnswer = "end" => server = [left |-> 0, breaks |-> FALSE]
        /\ lost' = IF adrift > 0 /\ ReadAnswer = "data" THEN lost + 1 ELSE lost
    <3>1. (adrift > 0) \in BOOLEAN
      OBVIOUS
    <3> QED BY <2>1, <3>1, ServerAnswers
  <2>3. answer \in Answers /\ Grounded(answer)
    BY <2>1, <2>2 DEF Grounded, Chunks, Answers
  <2> HIDE DEF answer
  <2> QED BY <2>1, <2>3, AnswerKeeps
<1>7. CASE GiveUp
  <2>1. /\ got' = Append(got, "dropped") /\ "dropped" \in Answered
        /\ adrift' = adrift + 1 /\ reading' = FALSE /\ resp # None /\ resp.raw
        /\ UNCHANGED <<resp, holder, client, server, late, lost, total>>
    BY <1>7 DEF GiveUp, Answered, HandleKept
  <2>2. adrift \in Nat /\ lost \in Nat /\ \A what : Many(got, what) \in Nat
    BY GottenFinite DEF Types, TypeOK
  <2>3. /\ Many(got', "data") = Many(got, "data") /\ Many(got', "torn") = Many(got, "torn")
        /\ Many(got', "dropped") = Many(got, "dropped") + 1 /\ got' \in Seq(Answered)
    BY <2>1, GottenMore
  <2>4. Types' /\ ClientKept'
    <3>1. adrift' \in Nat /\ lost' \in Nat
      BY <2>1, <2>2
    <3>2. got' \in Seq(Chunks \union Ends \union {"dropped"})
      BY <2>3 DEF Answered
    <3>3. TypeOK'
      BY <2>1, <3>1, <3>2 DEF Types, TypeOK
    <3> QED BY <2>1, <3>3 DEF Types, ClientKept
  <2>5. AllCounted' /\ LossBounded'
    BY <2>1, <2>2, <2>3 DEF AllCounted, LossBounded
  <2>6. TornLater'
    BY <2>1, TornStays
  <2> DEFINE n == Len(got) + 1
  <2>7. /\ got'[n] = "dropped" /\ DOMAIN got' = DOMAIN got \union {n} /\ n \in Nat
        /\ \A i \in DOMAIN got : got'[i] = got[i] /\ i < n /\ i \in Nat
    BY <2>1, OneMore
  <2> HIDE DEF n
  <2>8. HandleKept' /\ EndIsAll' /\ ErrorIsBreak'
    BY <2>1, <2>7 DEF HandleKept, EndIsAll, ErrorIsBreak
  <2>9. Ordered'
    <3>1. \A i \in DOMAIN got : got[i] \notin {"end", "whole", "timeout", "consumed"}
      BY <2>1 DEF HandleKept
    <3>2. "dropped" \notin Chunks
      BY DEF Chunks
    <3> QED BY <2>7, <3>1, <3>2 DEF Ordered
  <2> QED BY <2>4, <2>5, <2>6, <2>8, <2>9
<1>8. CASE NobodyIsTold
  <2>1. /\ adrift > 0 /\ adrift' = adrift - 1 /\ Takes(TRUE) /\ resp # None /\ resp.raw
        /\ UNCHANGED <<resp, holder, reading, client, late, got, total>>
    BY <1>8 DEF NobodyIsTold, HandleKept
  <2>2. /\ ReadAnswer = "data" => server.left > 0 /\ server'.left = server.left - 1
                                  /\ server' = [server EXCEPT !.left = @ - 1]
        /\ ReadAnswer # "data" => server' = server
        /\ lost' = IF ReadAnswer = "data" THEN lost + 1 ELSE lost
    BY <2>1, ServerAnswers
  <2>3. /\ server \in [left : 0..MaxChunks, breaks : BOOLEAN] /\ server.left <= total
        /\ total \in 0..MaxChunks /\ MaxChunks \in Nat /\ adrift \in Nat /\ lost \in Nat
    BY DEF Types, TypeOK, ConstantsOK
  <2>4. \A what : Places(got', what) = Places(got, what) /\ Many(got', what) = Many(got, what) /\ Many(got, what) \in Nat
    BY <2>1, GottenFinite DEF Places, Many
  <2>5. server' \in [left : 0..MaxChunks, breaks : BOOLEAN] /\ server'.left <= total
    BY <2>2, <2>3
  <2>6. adrift' \in Nat /\ lost' \in Nat /\ adrift' + lost' <= adrift + lost
    BY <2>1, <2>2, <2>3
  <2>7. Types' /\ ClientKept' /\ HandleKept'
    BY <2>1, <2>5, <2>6 DEF Types, TypeOK, ClientKept, HandleKept
  <2>8. LossBounded'
    <3>1. /\ Many(got', "dropped") = Many(got, "dropped") /\ Many(got, "dropped") \in Nat
          /\ Many(got', "torn") = Many(got, "torn") /\ Many(got, "torn") \in Nat
      BY <2>4
    <3>2. adrift + lost <= Many(got, "dropped") + Many(got, "torn")
      BY DEF LossBounded
    <3>3. adrift' + lost' <= Many(got', "dropped") + Many(got', "torn")
      BY <2>3, <2>6, <3>1, <3>2, SumBound
    <3> QED BY <3>3 DEF LossBounded
  <2>9. AllCounted'
    BY <2>1, <2>2, <2>3, <2>4 DEF AllCounted
  <2>10. TornLater'
    BY <2>1, <2>3, <2>4 DEF TornLater
  <2>11. EndIsAll' /\ ErrorIsBreak' /\ Ordered'
    <3>1. \A i \in DOMAIN got : got[i] \notin {"end", "whole"}
      BY <2>1 DEF HandleKept
    <3>2. server.left > 0 => server # [left |-> 0, breaks |-> TRUE]
      OBVIOUS
    <3> QED BY <2>1, <2>2, <3>1, <3>2 DEF EndIsAll, ErrorIsBreak, Ordered
  <2> QED BY <2>7, <2>8, <2>9, <2>10, <2>11
<1>9. CASE DropHolder
  <2>1. /\ UNCHANGED <<client, server, late, got, lost, total>>
        /\ resp' = None /\ holder' = "nobody" /\ reading' = FALSE /\ adrift' = 0
    BY <1>9 DEF DropHolder
  <2>2. TypeOK'
    BY <2>1 DEF Types, TypeOK
  <2>3. Types' /\ ClientKept'
    BY <2>1, <2>2 DEF Types, ClientKept
  <2>4. HandleKept'
    BY <2>1 DEF HandleKept
  <2> QED BY <2>1, <2>3, <2>4, HistoryStays
<1>10. CASE UNCHANGED vars
  <2>1. UNCHANGED <<resp, holder, reading, client, server, late, adrift, got, lost, total>>
    BY <1>10 DEF vars
  <2>2. Types' /\ ClientKept' /\ HandleKept'
    BY <2>1 DEF Types, TypeOK, ClientKept, HandleKept
  <2> QED BY <2>1, <2>2, HistoryStays
<1> QED
  BY <1>1, <1>2, <1>3, <1>4, <1>5, <1>6, <1>7, <1>8, <1>9, <1>10 DEF Next, Use, Done

\* The invariant holds throughout every behaviour.
THEOREM Invariance ==
  ASSUME ConstantsOK
  PROVE  Spec => []IInv
<1>1. Init => IInv
  BY InitIInv
<1> QED BY <1>1, NextIInv, PTL DEF Spec

-----------------------------------------------------------------------------
(* The theorems.                                                             *)

\* The Response, its holder and what it was told keep their types.
THEOREM TypeCorrect ==
  ASSUME ConstantsOK
  PROVE  Spec => []TypeOK
BY Invariance, IInvImplies, PTL

\* Whoever has the Response and whether or not the caller kept the Client: a
\* body ends when the server has no more, errors come from the server, nothing
\* follows the end, and no chunk is lost but by reads that were given up, one
\* for each of them and for each torn chunk they led to (chunk, bytes_stream,
\* into_parts, collect_body).
THEOREM BodyIsDelivered ==
  ASSUME ConstantsOK
  PROVE  Spec => []BodyDelivered
BY Invariance, IInvImplies, PTL

\* Whoever still holds the Response holds the Client that came with it, and so
\* keeps the session open (the comment on _client).
THEOREM SessionHeld ==
  ASSUME ConstantsOK
  PROVE  Spec => [](resp # None => resp.client)
BY Invariance, PTL DEF IInv, ClientKept
=============================================================================
