---------------------------- MODULE Client_proofs ----------------------------
(* Proofs about Client, for any value of its constants.                       *)
EXTENDS Client, ClientParts_proofs

-----------------------------------------------------------------------------
(* A step of a behaviour is one of its part.                                 *)

LEMMA OwnSteps ==
  ASSUME [Next]_vars
  PROVE  /\ part' = part
         /\ part = "setup" => SetupNext \/ UNCHANGED setupVars
         /\ part = "url" => UrlNext \/ UNCHANGED urlVars
         /\ part = "verdict" => Reached!VerdictNext \/ UNCHANGED verdictVars
         /\ part = "head" => Answered!HeadNext \/ UNCHANGED headVars
         /\ part = "body" => Read!Use \/ UNCHANGED bodyVars
         /\ part = "system" => Converted!Convert \/ UNCHANGED systemVars
         /\ part = "text" => TextNext \/ UNCHANGED textVars
<1>1. CASE UNCHANGED vars
  BY <1>1 DEF vars, setupVars, urlVars, verdictVars, headVars, bodyVars, systemVars,
              textVars
<1>2. CASE \E p \in {"request", "probe"} : Only(p)
  BY <1>2 DEF Only
<1>3. CASE Only("setup") /\ SetupNext
  BY <1>3 DEF Only
<1>4. CASE Only("url") /\ (UrlNext \/ UrlDone)
  BY <1>4 DEF Only, UrlDone, urlVars, urlVars
<1>5. CASE Only("verdict") /\ (Reached!VerdictNext \/ Reached!VerdictDone)
  BY <1>5 DEF Only, Reached!VerdictDone, Reached!verdictVars, verdictVars
<1>6. CASE Only("head") /\ (Answered!HeadNext \/ Answered!HeadDone)
  BY <1>6 DEF Only, Answered!HeadDone, Answered!headVars, headVars
<1>7. CASE Only("body") /\ (Read!Use \/ Read!Done)
  BY <1>7 DEF Only, Read!Done, Read!vars, bodyVars
<1>8. CASE Only("system") /\ (Converted!Convert \/ Converted!Done)
  BY <1>8 DEF Only, Converted!Done, Converted!vars, systemVars
<1>9. CASE Only("text") /\ (TextNext \/ TextDone)
  BY <1>9 DEF Only, TextDone
<1> QED
  BY <1>1, <1>2, <1>3, <1>4, <1>5, <1>6, <1>7, <1>8, <1>9 DEF Next

-----------------------------------------------------------------------------
(* The parts Client extends.                                                 *)

\* Whatever the calls of the builder, the environment and the options that
\* fail: requests take the proxy those say and credentials only for it, and a
\* Client has the whole session asked for, its timeouts finite and never early
\* (ClientBuilder, proxy.rs, WinHttpSession::open, execute_request).
THEOREM SetupIsAsAsked == Spec => []SetupAsAsked
<1> DEFINE I == part = "setup" => SetupInv
<1>1. Init => I
  BY SetupInvInit DEF Init
<1>2. I /\ [Next]_vars => I'
  BY OwnSteps, SetupKeeps
<1>3. I => SetupAsAsked
  BY RoutesFollow, TimeoutsFinite, SessionWhole, OptionsAsSaid DEF SetupAsAsked
<1> QED BY <1>1, <1>2, <1>3, PTL DEF Spec

\* For any texts, references and queries: a Url's texts are those of its fields
\* after any operations, and join gives what RFC 3986 makes of its whole text.
THEOREM UrlsAreAsWritten == Spec => []UrlAsWritten
<1> DEFINE I == part = "url" => UrlInv
<1>1. Init => I
  BY PartsOK, UrlInvInit DEF Init
<1>2. I /\ [Next]_vars => I'
  BY PartsOK, OwnSteps, UrlInvKeeps
<1>3. I => UrlAsWritten
  BY PartsOK, CanonicalTexts DEF UrlAsWritten, UrlInv
<1> QED BY <1>1, <1>2, <1>3, PTL DEF Spec

\* For any texts, references and queries: credentials stay with the origin they
\* were written for.
THEOREM CredentialsStayHome == Spec => []UserinfoStays
<1> DEFINE I == part = "url" => UrlInv
<1>1. Init => I
  BY PartsOK, UrlInvInit DEF Init
<1>2. I /\ [Next]_vars => I'
  BY PartsOK, OwnSteps, UrlInvKeeps
<1>3. I => UserinfoStays
  BY DEF UserinfoStays, UrlInv
<1> QED BY <1>1, <1>2, <1>3, PTL DEF Spec

\* For any bytes and charset: UTF-16 is decoded as the WHATWG decoder has it,
\* without its byte order mark, wherever the body is cut; and of the encodings
\* only the three that need icu.dll can be without a decoder (decode_body).
THEOREM TextIsAsDocumented == Spec => []TextAsDocumented
<1> DEFINE I == part = "text" => TextInv
<1>1. Init => I
  BY PartsOK, TextInvInit DEF Init
<1>2. I /\ [Next]_vars => I'
  BY PartsOK, OwnSteps, TextKeeps
<1>3. I => TextAsDocumented
  BY PartsOK, TextFollows DEF TextAsDocumented
<1> QED BY <1>1, <1>2, <1>3, PTL DEF Spec

-----------------------------------------------------------------------------
(* Failures and retries.                                                     *)

Saying == [field : {"start", "budget", "max", "classify"},
           value : Origins \union {"never", "default", None, "0.5", "503", "errors"} \union Nat]
Classifiers == {None, "nack", "503", "errors"}
Reasons == {"unparsable", "notStripped"}
Aborts == {None} \union Reasons
Notices == [of : {"tls"}, says : SUBSET Flags] \union [of : {"abort"}, says : Reasons]

VerdictTypes ==
  /\ conf = [scope |-> conf.scope, budget |-> conf.budget, classify |-> conf.classify,
             max |-> conf.max]
  /\ conf.max \in Nat /\ conf.classify \in Classifiers
  /\ state \in [tls : SUBSET Flags, abort : Aborts]
  /\ said \in Seq(Saying) /\ Len(said) > 0 /\ heard \in Seq(Notices)
  /\ remaining # None => remaining \in Nat /\ remaining <= conf.max
  /\ action \in {None, "Success", "Retryable"}
  /\ remaining = None => result = None /\ action = None
  /\ action # None => result # None

\* The policy is what the calls of its builder said.
ConfSaid ==
  /\ said[1].value \in Origins \union {"never", "default"} /\ conf.scope = said[1].value
  /\ conf.budget = Reached!SaidLast("budget", IF conf.scope \in Origins THEN "0.2" ELSE None)
  /\ conf.classify = Reached!SaidLast("classify", IF conf.scope = "default" THEN "nack" ELSE None)
  /\ conf.max = Reached!SaidLast("max", 2)

\* The state is what the callbacks of this attempt told, and no earlier one's.
HeardInState ==
  /\ IF state.abort = None THEN ~ Reached!Aborted ELSE Reached!FirstReason(state.abort)
  /\ Reached!LastFlags(state.tls)

\* The result is that of what ended the attempt.
OfCode(code) ==
  cause = [how |-> "code", code |-> code] /\ result = Reached!CallbackError(code)
OfPart(code) ==
  cause = [how |-> "part", code |-> code] /\ result = Reached!FromWin32(code)
OfStream ==
  \E kind :
    /\ cause = [how |-> "stream", kind |-> kind]
    /\ result = Reached!ErrorOf("request",
         <<Reached!Message("stream"), [io |-> kind, code |-> None, says |-> {}]>>, None, "url")
OfItself ==
  \/ cause.how = "unexpected" /\ result = Reached!Simple("request", "unexpected")
  \/ cause.how = "timeout" /\ result = Reached!Simple("timeout", "elapsed")
  \/ cause.how = "response" /\ Reached!Downgrade /\ result = Reached!Simple("redirect", "blocked")
Response(status) == [ok |-> TRUE, status |-> status, url |-> "url"]
OfResponse ==
  /\ cause.how = "response" /\ ~ Reached!Downgrade
  /\ cause.status \in {200, 302, 503} /\ result = Response(cause.status)
OfStatus ==
  /\ cause.how = "status"
  /\ result = Reached!ErrorOf("status", <<>>, cause.status, "url")

Explained ==
  result # None =>
    \/ \E code \in Codes : OfCode(code) \/ OfPart(code)
    \/ OfStream \/ OfItself \/ OfResponse
    \/ OfStatus /\ action = "Success"

\* What the policy was asked, and what it answered.
Decided ==
  action # None =>
    (action = "Retryable" <=>
       /\ remaining > 0 /\ cause.how # "stream"
       /\ Reached!InScope /\ asked.uri
       /\ conf.classify # None /\ Reached!Wanted(conf.classify))

VInv == VerdictTypes /\ ConfSaid /\ HeardInState /\ Explained /\ Decided

LEMMA VerdictConstants ==
  /\ {"never", "default"} \intersect Origins = {}
  /\ None \notin Nat /\ None \notin Reasons
  /\ None \notin {"nack", "503", "errors", "Success", "Retryable", "ConnectionReset",
                  "CLIENT_AUTH_CERT_NEEDED", "url", Reached!ErrorOf("status", <<>>, 503, "url")}
BY PartsOK DEF Reached!ConstantsOK, Reasons

LEMMA VerdictInit == Reached!VerdictInit => VInv
<1> SUFFICES ASSUME Reached!VerdictInit PROVE VInv
  OBVIOUS
<1>1. PICK from \in Origins \union {"never", "default"} :
        conf = Reached!Started(from) /\ said = <<[field |-> "start", value |-> from]>>
  BY DEF Reached!VerdictInit
<1>2. said \in Seq(Saying) /\ Len(said) = 1 /\ said[1].value = from
  BY <1>1 DEF Saying
<1>3. \A f \in {"budget", "classify", "max"} : \A v : Reached!SaidLast(f, v) = v
  BY <1>1 DEF Reached!SaidLast
<1>4. /\ conf = [scope |-> from, budget |-> conf.budget, classify |-> conf.classify, max |-> 2]
      /\ conf.budget = IF from \in Origins THEN "0.2" ELSE None
      /\ conf.classify = IF from = "default" THEN "nack" ELSE None
  BY <1>1, VerdictConstants DEF Reached!Started, Reached!Default, Reached!Scoped
<1>5. ConfSaid
  BY <1>2, <1>3, <1>4 DEF ConfSaid
<1>6. /\ state \in [tls : SUBSET Flags, abort : Aborts]
      /\ result = None /\ action = None /\ remaining = None
  BY DEF Reached!VerdictInit, Reached!Fresh, Aborts
<1>8. heard = <<>> /\ state.abort = None /\ state.tls = {}
  BY DEF Reached!VerdictInit, Reached!Fresh
<1>9. HeardInState
  BY <1>8 DEF HeardInState, Reached!Aborted, Reached!LastFlags
<1>7. VerdictTypes
  <2>1. conf.max = 2 /\ conf.classify \in Classifiers
    BY <1>4 DEF Classifiers
  <2>2. conf = [scope |-> conf.scope, budget |-> conf.budget, classify |-> conf.classify,
                max |-> conf.max]
    BY <1>4
  <2> QED BY <1>2, <1>6, <1>8, <2>1, <2>2, VerdictConstants DEF VerdictTypes
<1> QED
  BY <1>5, <1>6, <1>7, <1>9, VerdictConstants DEF VInv, Explained, Decided

LEMMA ReachedMax == ASSUME NEW S PROVE Reached!Max(S) = Max(S)
BY DEF Max, Reached!Max

\* One more call is the last about its field, and about no other.
LEMMA SaidMore ==
  ASSUME said \in Seq(Saying), NEW call, said' = Append(said, call), NEW f, NEW v
  PROVE  Reached!SaidLast(f, v)' = IF call.field = f THEN call.value ELSE Reached!SaidLast(f, v)
<1> DEFINE at == {i \in DOMAIN said : said[i].field = f}
           at2 == {i \in DOMAIN said' : said'[i].field = f}
           n == Len(said)
<1>1. n \in Nat /\ at \in SUBSET (1..n)
  OBVIOUS
<1>2. /\ DOMAIN said' = DOMAIN said \union {n + 1} /\ n + 1 \notin DOMAIN said
      /\ \A i \in DOMAIN said : said'[i] = said[i]
      /\ said'[n + 1] = call
  OBVIOUS
<1>3. CASE call.field = f
  <2>1. at2 = at \union {n + 1}
    BY <1>2, <1>3
  <2> HIDE DEF at, n
  <2>2. Reached!Max(at2) = n + 1
    BY <1>1, <2>1, LastStays, ReachedMax
  <2>3. at2 # {}
    BY <2>1
  <2> QED BY <1>2, <1>3, <2>2, <2>3 DEF Reached!SaidLast
<1>4. CASE call.field # f
  <2>1. at2 = at
    BY <1>2, <1>4
  <2>2. CASE at = {}
    BY <1>4, <2>1, <2>2 DEF Reached!SaidLast
  <2>3. CASE at # {}
    <3>1. Reached!Max(at) \in at
      BY <1>1, <2>3, LastPlace, ReachedMax
    <3>2. said'[Reached!Max(at2)] = said[Reached!Max(at)]
      BY <1>2, <2>1, <3>1
    <3> QED BY <1>4, <2>1, <2>3, <3>2 DEF Reached!SaidLast
  <2> QED BY <2>2, <2>3
<1> QED BY <1>3, <1>4

\* What was heard does not change without a notice.
LEMMA HeardStays ==
  ASSUME HeardInState, UNCHANGED <<state, heard>>
  PROVE  HeardInState'
BY DEF HeardInState, Reached!Aborted, Reached!FirstReason, Reached!LastFlags

LEMMA ConfigureKeeps ==
  ASSUME VInv,
         NEW f \in {"budget", "max", "classify"}, NEW v, Reached!Configure(f, v),
         f = "budget" => v \in {None, "0.5"},
         f = "max" => v \in Nat,
         f = "classify" => v \in {"503", "errors"}
  PROVE  VInv'
<1>1. /\ remaining = None /\ result = None /\ action = None
      /\ conf' = [conf EXCEPT ![f] = v]
      /\ said' = Append(said, [field |-> f, value |-> v])
      /\ UNCHANGED <<asked, state, result, action, remaining, heard, cause>>
  BY DEF Reached!Configure, VInv, VerdictTypes
<1>2. said \in Seq(Saying) /\ Len(said) > 0
  BY DEF VInv, VerdictTypes
<1>3. [field |-> f, value |-> v] \in Saying
  BY DEF Saying
<1>4. said' \in Seq(Saying) /\ Len(said') > 0 /\ said'[1] = said[1]
  BY <1>1, <1>2, <1>3
<1>5. /\ conf' = [scope |-> conf'.scope, budget |-> conf'.budget,
                   classify |-> conf'.classify, max |-> conf'.max]
      /\ conf'.scope = conf.scope
      /\ conf'.budget = IF f = "budget" THEN v ELSE conf.budget
      /\ conf'.classify = IF f = "classify" THEN v ELSE conf.classify
      /\ conf'.max = IF f = "max" THEN v ELSE conf.max
  BY <1>1 DEF VInv, VerdictTypes
<1>6. \A field \in {"budget", "max", "classify"} : \A otherwise :
        Reached!SaidLast(field, otherwise)'
          = IF f = field THEN v ELSE Reached!SaidLast(field, otherwise)
  <2>1. [field |-> f, value |-> v].field = f /\ [field |-> f, value |-> v].value = v
    OBVIOUS
  <2> QED BY <1>1, <1>2, <2>1, SaidMore
<1>7. ConfSaid'
  BY <1>4, <1>5, <1>6 DEF VInv, ConfSaid
<1>8. VerdictTypes'
  <2>1. conf'.max \in Nat /\ conf'.classify \in Classifiers
    BY <1>5 DEF VInv, VerdictTypes, Classifiers
  <2>2. state' \in [tls : SUBSET Flags, abort : Aborts] /\ remaining' = None
    BY <1>1 DEF VInv, VerdictTypes
  <2>3. heard' \in Seq(Notices)
    BY <1>1 DEF VInv, VerdictTypes
  <2> QED BY <1>1, <1>4, <1>5, <2>1, <2>2, <2>3, VerdictConstants DEF VerdictTypes
<1>9. HeardInState'
  BY <1>1, HeardStays DEF VInv
<1> QED
  BY <1>1, <1>7, <1>8, <1>9, VerdictConstants DEF VInv, Explained, Decided

\* The policy does not change once it is built.
LEMMA PolicyStays ==
  ASSUME ConfSaid, UNCHANGED <<conf, said>>
  PROVE  ConfSaid'
BY DEF ConfSaid, Reached!SaidLast

\* Neither does what an attempt came to while the next has not begun.
LEMMA ExplanationStays ==
  ASSUME Explained, UNCHANGED <<asked, state, result, cause>>, action = "Success" => action' = action
  PROVE  Explained'
<1>1. \A code \in Codes : (OfCode(code) => OfCode(code)') /\ (OfPart(code) => OfPart(code)')
  BY DEF OfCode, OfPart, Reached!CallbackError
<1>2. OfStream => OfStream'
  BY DEF OfStream
<1>3. (OfItself => OfItself') /\ (OfResponse => OfResponse') /\ (OfStatus => OfStatus')
  BY DEF OfItself, OfResponse, OfStatus, Reached!Downgrade
<1> QED BY <1>1, <1>2, <1>3 DEF Explained

\* How an attempt ended tells which of these explains it.
LEMMA Hows ==
  /\ \A code : (OfCode(code) => cause.how = "code") /\ (OfPart(code) => cause.how = "part")
  /\ OfStream => cause.how = "stream"
  /\ OfItself => cause.how \in {"unexpected", "timeout", "response"}
  /\ OfResponse => cause.how = "response"
  /\ OfStatus => cause.how = "status"
<1>1. \A code : (OfCode(code) => cause.how = "code") /\ (OfPart(code) => cause.how = "part")
  BY DEF OfCode, OfPart
<1>2. OfStream => cause.how = "stream"
  BY DEF OfStream
<1> QED BY <1>1, <1>2 DEF OfItself, OfResponse, OfStatus

LEMMA RunningKeeps ==
  ASSUME VInv, result = None, action = None, UNCHANGED <<conf, said, result, action>>,
         state' \in [tls : SUBSET Flags, abort : Aborts], heard' \in Seq(Notices),
         HeardInState',
         remaining' = remaining \/ remaining' = conf.max
  PROVE  VInv'
<1>1. ConfSaid'
  BY PolicyStays DEF VInv
<1>2. VerdictTypes'
  <2>1. /\ conf = [scope |-> conf.scope, budget |-> conf.budget, classify |-> conf.classify,
                   max |-> conf.max]
        /\ conf.max \in Nat /\ conf.classify \in Classifiers
        /\ said \in Seq(Saying) /\ Len(said) > 0
        /\ remaining # None => remaining \in Nat /\ remaining <= conf.max
    BY DEF VInv, VerdictTypes
  <2>2. conf' = conf /\ said' = said /\ result' = None /\ action' = None
    OBVIOUS
  <2>3. remaining' # None => remaining' \in Nat /\ remaining' <= conf'.max
    BY <2>1, <2>2
  <2> QED BY <2>1, <2>2, <2>3 DEF VerdictTypes
<1> QED
  BY <1>1, <1>2, VerdictConstants DEF VInv, Explained, Decided

\* One more notice is the last about TLS, and the first of an abort only if
\* there was none.
LEMMA OneMoreHeard ==
  ASSUME heard \in Seq(Notices), NEW n \in Notices, heard' = Append(heard, n)
  PROVE  /\ heard' \in Seq(Notices)
         /\ DOMAIN heard' = DOMAIN heard \union {Len(heard) + 1}
         /\ heard'[Len(heard) + 1] = n
         /\ \A i \in DOMAIN heard : heard'[i] = heard[i] /\ i < Len(heard) + 1 /\ i \in Nat
         /\ Len(heard) + 1 \in Nat
OBVIOUS

LEMMA NoticeKeeps ==
  ASSUME VInv, \/ \E flags \in SUBSET Flags : Reached!TlsNotice(flags)
               \/ \E why \in Reasons : Reached!AbortNotice(why)
               \/ Reached!IntoPolicy
  PROVE  VInv'
<1>1. result = None /\ UNCHANGED <<conf, said, result, action>>
  BY DEF Reached!TlsNotice, Reached!AbortNotice, Reached!IntoPolicy, Reached!Running, VInv,
    VerdictTypes
<1>2. action = None
  BY <1>1 DEF VInv, VerdictTypes
<1>3. remaining' = remaining \/ remaining' = conf.max
  BY DEF Reached!TlsNotice, Reached!AbortNotice, Reached!IntoPolicy
<1>4. state' \in [tls : SUBSET Flags, abort : Aborts]
  BY DEF Reached!TlsNotice, Reached!AbortNotice, Reached!IntoPolicy, VInv, VerdictTypes, Aborts
<1> DEFINE m == Len(heard) + 1
<1>5. heard' \in Seq(Notices) /\ HeardInState'
  <2>0. heard \in Seq(Notices) /\ HeardInState /\ state \in [tls : SUBSET Flags, abort : Aborts]
    BY DEF VInv, VerdictTypes
  <2>1. ASSUME NEW flags \in SUBSET Flags, Reached!TlsNotice(flags)
        PROVE  heard' \in Seq(Notices) /\ HeardInState'
    <3> DEFINE n == [of |-> "tls", says |-> flags]
    <3>1. n \in Notices /\ heard' = Append(heard, n) /\ n.of = "tls"
          /\ state'.abort = state.abort /\ state'.tls = flags
      BY <2>0, <2>1 DEF Reached!TlsNotice, Notices
    <3>2. /\ heard' \in Seq(Notices)
          /\ DOMAIN heard' = DOMAIN heard \union {m} /\ heard'[m] = n /\ m \in Nat
          /\ \A i \in DOMAIN heard : heard'[i] = heard[i] /\ i < m /\ i \in Nat
      BY <2>0, <3>1, OneMoreHeard
    <3> HIDE DEF m
    <3>3. Reached!LastFlags(flags)'
      BY <3>1, <3>2 DEF Reached!LastFlags
    <3>4. Reached!Aborted' = Reached!Aborted
      BY <3>1, <3>2 DEF Reached!Aborted
    <3>5. ASSUME NEW why, Reached!FirstReason(why) PROVE Reached!FirstReason(why)'
      BY <3>1, <3>2, <3>5 DEF Reached!FirstReason
    <3> QED BY <2>0, <3>1, <3>2, <3>3, <3>4, <3>5 DEF HeardInState
  <2>2. ASSUME NEW why \in Reasons, Reached!AbortNotice(why)
        PROVE  heard' \in Seq(Notices) /\ HeardInState'
    <3> DEFINE n == [of |-> "abort", says |-> why]
    <3>1. n \in Notices /\ heard' = Append(heard, n) /\ n.of = "abort"
          /\ state'.tls = state.tls
          /\ state'.abort = IF state.abort = None THEN why ELSE state.abort
      BY <2>0, <2>2 DEF Reached!AbortNotice, Notices
    <3>2. /\ heard' \in Seq(Notices)
          /\ DOMAIN heard' = DOMAIN heard \union {m} /\ heard'[m] = n /\ m \in Nat
          /\ \A i \in DOMAIN heard : heard'[i] = heard[i] /\ i < m /\ i \in Nat
      BY <2>0, <3>1, OneMoreHeard
    <3> HIDE DEF m
    <3>3. Reached!LastFlags(state.tls)'
      BY <2>0, <3>1, <3>2 DEF HeardInState, Reached!LastFlags
    <3>4. state'.abort # None
      BY <3>1, VerdictConstants
    <3>5. CASE state.abort = None
      <4>1. ~ Reached!Aborted
        BY <2>0, <3>5 DEF HeardInState
      <4>2. Reached!FirstReason(why)'
        BY <3>1, <3>2, <4>1 DEF Reached!Aborted, Reached!FirstReason
      <4> QED BY <3>1, <3>2, <3>3, <3>4, <3>5, <4>2 DEF HeardInState
    <3>6. CASE state.abort # None
      <4>1. Reached!FirstReason(state.abort)
        BY <2>0, <3>6 DEF HeardInState
      <4>2. Reached!FirstReason(state.abort)'
        BY <3>1, <3>2, <3>6, <4>1 DEF Reached!FirstReason
      <4> QED BY <3>1, <3>2, <3>3, <3>4, <3>6, <4>2 DEF HeardInState
    <3> QED BY <3>5, <3>6
  <2>3. CASE Reached!IntoPolicy
    BY <2>0, <2>3, HeardStays DEF Reached!IntoPolicy
  <2> QED BY <2>1, <2>2, <2>3
<1> QED
  BY <1>1, <1>2, <1>3, <1>4, <1>5, RunningKeeps

\* An attempt ends with what ended it.
LEMMA EndKeeps ==
  ASSUME VInv, NEW what, NEW r, Reached!EndAttempt(what, r), Explained'
  PROVE  VInv'
<1>1. /\ remaining # None /\ action = None
      /\ UNCHANGED <<conf, asked, state, action, remaining, said, heard>>
  BY DEF Reached!EndAttempt, Reached!Running, VInv, VerdictTypes
<1>2. ConfSaid'
  BY <1>1, PolicyStays DEF VInv
<1>3. VerdictTypes'
  BY <1>1 DEF VInv, VerdictTypes
<1>4. HeardInState'
  BY <1>1, HeardStays DEF VInv
<1> QED
  BY <1>1, <1>2, <1>3, <1>4, VerdictConstants DEF VInv, Decided

LEMMA CodeKeeps ==
  ASSUME VInv, NEW code \in Codes, Reached!RequestError(code) \/ Reached!PartError(code)
  PROVE  VInv'
<1>1. CASE Reached!RequestError(code)
  <2>1. OfCode(code)'
    BY <1>1 DEF Reached!RequestError, Reached!EndAttempt, OfCode, Reached!CallbackError
  <2> QED BY <1>1, <2>1, EndKeeps DEF Reached!RequestError, Explained
<1>2. CASE Reached!PartError(code)
  <2>1. OfPart(code)'
    BY <1>2 DEF Reached!PartError, Reached!EndAttempt, OfPart
  <2> QED BY <1>2, <2>1, EndKeeps DEF Reached!PartError, Explained
<1> QED BY <1>1, <1>2

LEMMA OtherEndKeeps ==
  ASSUME VInv, \/ \E kind : Reached!StreamError(kind)
               \/ Reached!UnexpectedEvent
               \/ Reached!TimedOut
               \/ \E status \in {200, 302, 503} : \E location : \E https :
                    Reached!Responds(status, location, https)
  PROVE  VInv'
<1>1. ASSUME NEW kind, Reached!StreamError(kind) PROVE VInv'
  <2>1. OfStream'
    BY <1>1 DEF Reached!StreamError, Reached!EndAttempt, OfStream
  <2> QED BY <1>1, <2>1, EndKeeps DEF Reached!StreamError, Explained
<1>2. CASE Reached!UnexpectedEvent
  <2>1. OfItself'
    BY <1>2 DEF Reached!UnexpectedEvent, Reached!EndAttempt, OfItself
  <2> QED BY <1>2, <2>1, EndKeeps DEF Reached!UnexpectedEvent, Explained
<1>3. CASE Reached!TimedOut
  <2>1. OfItself'
    BY <1>3 DEF Reached!TimedOut, Reached!EndAttempt, OfItself
  <2> QED BY <1>3, <2>1, EndKeeps DEF Reached!TimedOut, Explained
<1>4. ASSUME NEW status \in {200, 302, 503}, NEW location, NEW https,
             Reached!Responds(status, location, https)
      PROVE  VInv'
  <2>0. /\ asked' = asked
        /\ cause' = [how |-> "response", status |-> status, location |-> location,
                     https |-> https]
    BY <1>4 DEF Reached!Responds, Reached!EndAttempt
  <2>1. Reached!Downgrade' <=> Reached!Blocked(status, location, https)
    <3>1. status = 302 <=> status \in 300..399
      OBVIOUS
    <3> QED BY <2>0, <3>1 DEF Reached!Downgrade, Reached!Blocked
  <2>2. CASE Reached!Blocked(status, location, https)
    <3>1. OfItself'
      BY <1>4, <2>0, <2>1, <2>2 DEF Reached!Responds, Reached!EndAttempt, OfItself
    <3> QED BY <1>4, <3>1, EndKeeps DEF Reached!Responds, Explained
  <2>3. CASE ~ Reached!Blocked(status, location, https)
    <3>1. result' = Response(status)
      BY <1>4, <2>3 DEF Reached!Responds, Reached!EndAttempt, Response
    <3>2. OfResponse'
      BY <2>0, <2>1, <2>3, <3>1 DEF OfResponse, Response
    <3> QED BY <1>4, <3>2, EndKeeps DEF Reached!Responds, Explained
  <2> QED BY <2>2, <2>3
<1> QED BY <1>1, <1>2, <1>3, <1>4

-----------------------------------------------------------------------------
(* What the verdict on a failure is, by what it was of and what was said.     *)

LEMMA ErrorShapes ==
  ASSUME Explained, result # None, ~ result.ok
  PROVE  /\ result.url = "url"
         /\ \/ \E code \in Codes : OfCode(code) \/ OfPart(code)
            \/ OfStream \/ OfItself \/ OfStatus
<1>1. ~ OfResponse
  BY DEF OfResponse, Response
<1>2. /\ \/ \E code \in Codes : OfCode(code) \/ OfPart(code)
         \/ OfStream \/ OfItself \/ OfStatus
  BY <1>1 DEF Explained
<1>3. \A code : OfCode(code) \/ OfPart(code) => result.url = "url"
  <2>1. \A code : Reached!FromWin32(code).url = "url" /\ Reached!CallbackError(code).url = "url"
    BY DEF Reached!CallbackError, Reached!FromWin32, Reached!Simple, Reached!ErrorOf
  <2> QED BY <2>1 DEF OfCode, OfPart
<1>4. OfStream => result.url = "url"
  BY DEF OfStream, Reached!ErrorOf
<1>5. OfItself \/ OfStatus => result.url = "url"
  BY DEF OfItself, OfStatus, Reached!Simple, Reached!ErrorOf
<1> QED BY <1>2, <1>3, <1>4, <1>5

\* A chain of two.
Two(s, a, b) == DOMAIN s = {1, 2} /\ s[1] = a /\ s[2] = b

LEMMA Chains ==
  ASSUME NEW code
  PROVE  /\ Reached!FromWin32(code).kind = Reached!KindFromWin32(code)
         /\ ~ Reached!FromWin32(code).ok
         /\ Reached!FromWin32(code).chain = <<Reached!IoError(code)>>
         /\ Reached!Last(Reached!FromWin32(code).chain) = Reached!IoError(code)
         /\ Reached!KindFromWin32(code) \in Reached!DocumentedKind(code)
         /\ state.abort # None =>
              Reached!CallbackError(code) = Reached!Simple("request", state.abort)
         /\ state.abort = None /\ code # "SECURE_FAILURE" =>
              Reached!CallbackError(code) = Reached!FromWin32(code)
         /\ state.abort = None /\ code = "SECURE_FAILURE" =>
              /\ Reached!CallbackError(code).kind = Reached!KindFromWin32(code)
              /\ Two(Reached!CallbackError(code).chain, Reached!Message(state.tls),
                     Reached!IoError(code))
              /\ Reached!Last(Reached!CallbackError(code).chain) = Reached!IoError(code)
<1>1. /\ Reached!FromWin32(code).kind = Reached!KindFromWin32(code)
      /\ Reached!FromWin32(code).chain = <<Reached!IoError(code)>>
      /\ ~ Reached!FromWin32(code).ok
  BY DEF Reached!FromWin32, Reached!ErrorOf
<1>2. Reached!Last(<<Reached!IoError(code)>>) = Reached!IoError(code)
  BY DEF Reached!Last
<1>3. Reached!KindFromWin32(code) \in Reached!DocumentedKind(code)
  BY DEF Reached!KindFromWin32, Reached!DocumentedKind
<1>4. ASSUME NEW a, NEW b, NEW s, s = <<a>> \o <<b>>
      PROVE  Two(s, a, b) /\ Reached!Last(s) = b
  <2>1. <<a>> \in Seq({a, b}) /\ <<b>> \in Seq({a, b})
    OBVIOUS
  <2>2. Len(s) = 2 /\ s \in Seq({a, b}) /\ s[1] = a /\ s[2] = b
    BY <1>4, <2>1
  <2>3. DOMAIN s = {1, 2}
    BY <2>2
  <2> QED BY <2>2, <2>3 DEF Two, Reached!Last
<1>5. ASSUME state.abort = None, code = "SECURE_FAILURE"
      PROVE  /\ Reached!CallbackError(code).kind = Reached!KindFromWin32(code)
             /\ Two(Reached!CallbackError(code).chain, Reached!Message(state.tls),
                    Reached!IoError(code))
             /\ Reached!Last(Reached!CallbackError(code).chain) = Reached!IoError(code)
  <2>1. Reached!CallbackError(code)
          = [Reached!FromWin32(code) EXCEPT !.chain = <<Reached!TlsFailure(state.tls)>> \o @]
    BY <1>5 DEF Reached!CallbackError
  <2>2. /\ Reached!CallbackError(code).kind = Reached!KindFromWin32(code)
        /\ Reached!CallbackError(code).chain
             = <<Reached!Message(state.tls)>> \o <<Reached!IoError(code)>>
    BY <2>1 DEF Reached!TlsFailure, Reached!FromWin32, Reached!ErrorOf
  <2> QED BY <1>4, <2>2
<1> QED
  BY <1>1, <1>2, <1>3, <1>4, <1>5 DEF Reached!CallbackError

LEMMA CodeImplies ==
  ASSUME VInv, result # None, NEW code \in Codes, OfCode(code)
  PROVE  ~ result.ok /\ cause.how = "code" /\ Reached!CodeExplained /\ Reached!ChallengeKnown
<1>1. cause.how = "code" /\ cause.code = code /\ result = Reached!CallbackError(code)
  BY DEF OfCode
<1>2. /\ IF state.abort = None THEN ~ Reached!Aborted ELSE Reached!FirstReason(state.abort)
      /\ Reached!LastFlags(state.tls)
      /\ state.abort \in Aborts
  BY DEF VInv, HeardInState, VerdictTypes
<1>3. CASE state.abort # None
  <2>1. /\ ~ result.ok /\ result.kind = "request"
        /\ result.chain = <<Reached!Message(state.abort)>>
    BY <1>1, <1>3, Chains DEF Reached!Simple, Reached!ErrorOf
  <2>2. Reached!Aborted /\ state.abort \in Reasons
    BY <1>2, <1>3 DEF Reached!FirstReason, Reached!Aborted, Aborts
  <2>3. Reached!CodeExplained
    BY <1>1, <1>2, <1>3, <2>1, <2>2 DEF Reached!CodeExplained, Reasons
  <2>4. Reached!ChallengeKnown
    BY <1>1, <2>1, <2>2 DEF Reached!ChallengeKnown, Reached!IsClientCertNeeded
  <2> QED BY <1>1, <2>1, <2>3, <2>4
<1>4. CASE state.abort = None /\ code # "SECURE_FAILURE"
  <2>1. /\ ~ result.ok /\ result.kind = Reached!KindFromWin32(code)
        /\ result.chain = <<Reached!IoError(code)>>
        /\ Reached!Last(result.chain) = Reached!IoError(code)
        /\ Reached!KindFromWin32(code) \in Reached!DocumentedKind(code)
    BY <1>1, <1>4, Chains
  <2>2. Reached!IsClientCertNeeded(result) <=> code = "CLIENT_AUTH_CERT_NEEDED"
    BY <2>1, VerdictConstants DEF Reached!IsClientCertNeeded, Reached!KindFromWin32,
      Reached!IoError, Reached!CertificateCodes
  <2>3. Reached!CodeExplained
    BY <1>1, <1>2, <1>4, <2>1 DEF Reached!CodeExplained
  <2> QED BY <1>1, <1>2, <1>4, <2>1, <2>2, <2>3 DEF Reached!ChallengeKnown
<1>5. CASE state.abort = None /\ code = "SECURE_FAILURE"
  <2>1. /\ result.kind = Reached!KindFromWin32(code)
        /\ Two(result.chain, Reached!Message(state.tls), Reached!IoError(code))
        /\ Reached!Last(result.chain) = Reached!IoError(code)
        /\ Reached!KindFromWin32(code) \in Reached!DocumentedKind(code)
    BY <1>1, <1>5, Chains
  <2>2. ~ result.ok
    BY <1>1, <1>5 DEF Reached!CallbackError, Reached!FromWin32, Reached!ErrorOf
  <2>3. result.chain[1].says = state.tls /\ result.chain[1].code = None
    BY <2>1 DEF Two, Reached!Message
  <2>4. ~ Reached!IsClientCertNeeded(result)
    BY <2>3, VerdictConstants DEF Reached!IsClientCertNeeded
  <2>5. Reached!CodeExplained
    BY <1>1, <1>2, <1>5, <2>1, <2>3 DEF Reached!CodeExplained
  <2> QED BY <1>1, <1>5, <2>2, <2>4, <2>5 DEF Reached!ChallengeKnown
<1> QED BY <1>3, <1>4, <1>5

LEMMA ExplainedImplies == VInv => Reached!FailureExplained /\ Reached!ChallengeKnown
<1> SUFFICES ASSUME VInv, result # None
             PROVE  Reached!FailureExplained /\ Reached!ChallengeKnown
  BY DEF Reached!FailureExplained, Reached!ChallengeKnown
<1>0. ~ result.ok => result.url = "url"
  BY ErrorShapes DEF VInv
<1>1. result.url = "url" => result.url # None
  BY VerdictConstants
<1>2. ASSUME NEW code \in Codes, OfCode(code)
      PROVE  Reached!FailureExplained /\ Reached!ChallengeKnown
  BY <1>0, <1>1, <1>2, CodeImplies DEF Reached!FailureExplained
<1>3. ASSUME NEW code \in Codes, OfPart(code)
      PROVE  Reached!FailureExplained /\ Reached!ChallengeKnown
  <2>1. cause.how = "part" /\ cause.code = code /\ result = Reached!FromWin32(code)
    BY <1>3 DEF OfPart
  <2>2. /\ result.kind = Reached!KindFromWin32(code)
        /\ result.chain = <<Reached!IoError(code)>>
        /\ Reached!Last(result.chain) = Reached!IoError(code)
        /\ Reached!KindFromWin32(code) \in Reached!DocumentedKind(code)
    BY <2>1, Chains
  <2>3. Reached!IsClientCertNeeded(result) <=> code = "CLIENT_AUTH_CERT_NEEDED"
    BY <2>2, VerdictConstants DEF Reached!IsClientCertNeeded, Reached!KindFromWin32,
      Reached!IoError, Reached!CertificateCodes
  <2>4. Reached!CodeExplained
    BY <2>1, <2>2 DEF Reached!CodeExplained
  <2> QED BY <1>0, <1>1, <2>1, <2>3, <2>4
            DEF Reached!FailureExplained, Reached!ChallengeKnown
<1>4. CASE OfResponse
  <2>1. result.ok /\ cause.how = "response" /\ ~ Reached!Downgrade
    BY <1>4 DEF OfResponse, Response
  <2> QED BY <2>1 DEF Reached!FailureExplained, Reached!ChallengeKnown
<1>5. CASE OfItself
  <2>1. /\ ~ result.ok
        /\ cause.how = "unexpected" => result.kind = "request"
        /\ cause.how = "timeout" => result.kind = "timeout"
        /\ cause.how = "response" => result.kind = "redirect" /\ Reached!Downgrade
        /\ cause.how \in {"unexpected", "timeout", "response"}
        /\ result.kind # "connect"
    BY <1>5 DEF OfItself, Reached!Simple, Reached!ErrorOf
  <2> QED BY <1>0, <1>1, <2>1 DEF Reached!FailureExplained, Reached!OtherExplained,
       Reached!ChallengeKnown, Reached!IsClientCertNeeded
<1>6. CASE OfStream
  <2>1. PICK kind :
          /\ cause = [how |-> "stream", kind |-> kind]
          /\ result = Reached!ErrorOf("request",
               <<Reached!Message("stream"), [io |-> kind, code |-> None, says |-> {}]>>,
               None, "url")
    BY <1>6 DEF OfStream
  <2>2. /\ ~ result.ok /\ result.kind = "request" /\ cause.how = "stream" /\ cause.kind = kind
        /\ result.chain
             = <<Reached!Message("stream"), [io |-> kind, code |-> None, says |-> {}]>>
    BY <2>1 DEF Reached!ErrorOf
  <2>3. Reached!Last(result.chain).io = kind
    BY <2>2 DEF Reached!Last
  <2> QED BY <1>0, <1>1, <2>2, <2>3 DEF Reached!FailureExplained, Reached!OtherExplained,
       Reached!ChallengeKnown, Reached!IsClientCertNeeded
<1>7. CASE OfStatus
  <2>1. /\ ~ result.ok /\ result.kind = "status" /\ cause.how = "status"
        /\ result.status = cause.status
    BY <1>7 DEF OfStatus, Reached!ErrorOf
  <2> QED BY <1>0, <1>1, <2>1 DEF Reached!FailureExplained, Reached!OtherExplained,
       Reached!ChallengeKnown
<1> QED BY <1>2, <1>3, <1>4, <1>5, <1>6, <1>7 DEF VInv, Explained

\* The connection was reset, by the shape of the error, if it was.
LEMMA ResetIsReset ==
  ASSUME VInv, result # None, cause.how \notin {"stream", "status"}
  PROVE  ~ result.ok /\ Reached!IsConnectionReset(result) <=> Reached!WasReset
<1>1. ASSUME NEW code \in Codes, OfCode(code)
      PROVE  ~ result.ok /\ (Reached!IsConnectionReset(result) <=> Reached!WasReset)
  <2>1. cause.how = "code" /\ cause.code = code
        /\ result = Reached!CallbackError(code)
        /\ (state.abort = None <=> ~ Reached!Aborted)
    BY <1>1 DEF OfCode, VInv, HeardInState, Reached!FirstReason, Reached!Aborted
  <2>2. CASE state.abort # None
    <3>1. /\ ~ result.ok /\ result.chain = <<Reached!Message(state.abort)>>
      BY <2>1, <2>2, Chains DEF Reached!Simple, Reached!ErrorOf
    <3> QED BY <2>1, <2>2, <3>1, VerdictConstants DEF Reached!WasReset,
              Reached!IsConnectionReset, Reached!Message
  <2>3. CASE state.abort = None /\ code # "SECURE_FAILURE"
    <3>1. ~ result.ok /\ result.chain = <<Reached!IoError(code)>>
      BY <2>1, <2>3, Chains
    <3> QED BY <2>1, <2>3, <3>1, VerdictConstants DEF Reached!WasReset,
              Reached!IsConnectionReset, Reached!IoError
  <2>4. CASE state.abort = None /\ code = "SECURE_FAILURE"
    <3>1. /\ ~ result.ok
          /\ Two(result.chain, Reached!Message(state.tls), Reached!IoError(code))
      BY <2>1, <2>4, Chains DEF Reached!CallbackError, Reached!FromWin32, Reached!ErrorOf
    <3>2. DOMAIN result.chain = {1, 2}
      BY <3>1 DEF Two
    <3>3. result.chain[1].io = None /\ result.chain[2].io = "Uncategorized"
      BY <2>4, <3>1 DEF Two, Reached!Message, Reached!IoError
    <3> QED BY <2>1, <2>4, <3>1, <3>2, <3>3, VerdictConstants DEF Reached!WasReset,
              Reached!IsConnectionReset
  <2> QED BY <2>2, <2>3, <2>4
<1>2. ASSUME NEW code \in Codes, OfPart(code)
      PROVE  ~ result.ok /\ (Reached!IsConnectionReset(result) <=> Reached!WasReset)
  <2>1. cause.how = "part" /\ cause.code = code /\ result = Reached!FromWin32(code)
    BY <1>2 DEF OfPart
  <2>2. ~ result.ok /\ result.chain = <<Reached!IoError(code)>>
    BY <2>1, Chains DEF Reached!FromWin32, Reached!ErrorOf
  <2> QED BY <2>1, <2>2, VerdictConstants DEF Reached!WasReset,
            Reached!IsConnectionReset, Reached!IoError
<1>3. CASE OfItself
  <2>0. \E text : result.chain = <<Reached!Message(text)>>
    BY <1>3 DEF OfItself, Reached!Simple, Reached!ErrorOf
  <2>1. PICK text : result.chain = <<Reached!Message(text)>>
    BY <2>0
  <2>2. ~ Reached!IsConnectionReset(result)
    BY <2>1, VerdictConstants DEF Reached!IsConnectionReset, Reached!Message
  <2> QED BY <1>3, <2>2 DEF OfItself, Reached!WasReset
<1>4. CASE OfResponse
  BY <1>4 DEF OfResponse, Reached!WasReset, Response
<1>5. ~ OfStream /\ ~ OfStatus
  BY Hows
<1> QED BY <1>1, <1>2, <1>3, <1>4, <1>5 DEF VInv, Explained

-----------------------------------------------------------------------------
(* The policy's verdict, and the next attempt.                               *)

\* What a closure makes of a result is what it wants of what happened.
LEMMA ClassifiedIsWanted ==
  ASSUME VInv, result # None, cause.how \notin {"stream", "status"},
         conf.classify # None
  PROVE  Reached!Classified(conf.classify, result) <=> Reached!Wanted(conf.classify)
<1>1. conf.classify \in {"nack", "503", "errors"}
  BY DEF VInv, VerdictTypes, Classifiers
<1>2. CASE conf.classify = "nack"
  BY <1>2, ResetIsReset DEF Reached!Classified, Reached!Wanted
<1>3. CASE OfResponse
  <2>1. /\ result.ok /\ result.status = cause.status /\ cause.how = "response"
        /\ ~ Reached!Downgrade
    BY <1>3 DEF OfResponse, Response
  <2> QED BY <1>1, <1>2, <2>1 DEF Reached!Classified, Reached!Wanted
<1>4. CASE ~ OfResponse
  <2>1. ~ OfStatus /\ ~ OfStream
    BY Hows
  <2>2. ~ result.ok /\ result.status = None
    <3>1. \A code : /\ ~ Reached!FromWin32(code).ok /\ Reached!FromWin32(code).status = None
                    /\ ~ Reached!CallbackError(code).ok
                    /\ Reached!CallbackError(code).status = None
      BY DEF Reached!FromWin32, Reached!CallbackError, Reached!Simple, Reached!ErrorOf
    <3>2. OfItself => ~ result.ok /\ result.status = None
      BY DEF OfItself, Reached!Simple, Reached!ErrorOf
    <3>3. \A code : OfCode(code) \/ OfPart(code) => ~ result.ok /\ result.status = None
      BY <3>1 DEF OfCode, OfPart
    <3> QED BY <1>4, <2>1, <3>2, <3>3 DEF VInv, Explained
  <2>3. cause.how = "response" => Reached!Downgrade /\ cause.status # 503
    <3>1. cause.how = "response" => OfItself
      BY <1>4, <2>1, Hows DEF VInv, Explained
    <3>2. OfItself /\ cause.how = "response" => Reached!Downgrade
      BY DEF OfItself
    <3>3. Reached!Downgrade => cause.status # 503
      BY DEF Reached!Downgrade
    <3> QED BY <3>1, <3>2, <3>3
  <2> QED BY <1>1, <1>2, <2>2, <2>3, VerdictConstants DEF Reached!Classified, Reached!Wanted
<1> QED BY <1>3, <1>4

LEMMA ClassifyKeeps == VInv /\ Reached!Classify => VInv'
<1> SUFFICES ASSUME VInv, Reached!Classify PROVE VInv'
  OBVIOUS
<1>1. /\ result # None /\ action = None
      /\ UNCHANGED <<conf, asked, state, result, remaining, said, heard, cause>>
      /\ action' = IF remaining = 0 \/ cause.how = "stream" THEN "Success"
                   ELSE Reached!ClassifyResult
  BY DEF Reached!Classify
<1>2. ConfSaid'
  BY <1>1, PolicyStays DEF VInv
<1>3. action' \in {"Success", "Retryable"}
  BY <1>1 DEF Reached!ClassifyResult
<1>4. remaining \in Nat
  BY <1>1 DEF VInv, VerdictTypes
<1>5. VerdictTypes'
  BY <1>1, <1>3, <1>4, VerdictConstants DEF VInv, VerdictTypes
<1>6. Explained' /\ HeardInState'
  BY <1>1, VerdictConstants, ExplanationStays, HeardStays DEF VInv
<1>7. Decided'
  <2>1. /\ Reached!InScope' = Reached!InScope
        /\ Reached!Wanted(conf.classify)' = Reached!Wanted(conf.classify)
    BY <1>1 DEF Reached!InScope, Reached!Wanted, Reached!WasReset, Reached!Aborted,
       Reached!Downgrade
  <2>2. CASE remaining = 0 \/ cause.how = "stream"
    <3>1. action' = "Success"
      BY <1>1, <2>2
    <3> QED BY <1>1, <2>2, <3>1 DEF Decided
  <2>3. CASE ~ (remaining = 0 \/ cause.how = "stream")
    <3>1. remaining > 0
      BY <1>4, <2>3
    <3>2. action' = Reached!ClassifyResult
      BY <1>1, <2>3
    <3>3. cause.how # "status"
      BY <1>1, Hows, VerdictConstants DEF VInv, Explained
    <3>4. conf.classify # None =>
            (Reached!Classified(conf.classify, result) <=> Reached!Wanted(conf.classify))
      BY <1>1, <2>3, <3>3, ClassifiedIsWanted
    <3> QED BY <1>1, <2>1, <2>3, <3>1, <3>2, <3>4 DEF Decided, Reached!ClassifyResult
  <2> QED BY <2>2, <2>3
<1> QED BY <1>2, <1>5, <1>6, <1>7 DEF VInv

LEMMA AgainKeeps == VInv /\ Reached!TryAgain => VInv'
<1> SUFFICES ASSUME VInv, Reached!TryAgain PROVE VInv'
  OBVIOUS
<1>1. /\ action = "Retryable" /\ remaining' = remaining - 1 /\ state' = Reached!Fresh
      /\ result' = None /\ action' = None /\ UNCHANGED <<conf, asked, said>>
  BY DEF Reached!TryAgain, Reached!NextState
<1>2. remaining > 0 /\ remaining \in Nat /\ remaining <= conf.max /\ conf.max \in Nat
  BY <1>1, VerdictConstants DEF VInv, Decided, VerdictTypes
<1>3. remaining' \in Nat /\ remaining' <= conf.max
  BY <1>1, <1>2
<1>4. ConfSaid'
  BY <1>1, PolicyStays DEF VInv
<1>5. state' \in [tls : SUBSET Flags, abort : Aborts]
  BY <1>1 DEF Reached!Fresh, Aborts
<1>6. VerdictTypes'
  <2>1. heard' \in Seq(Notices)
    BY DEF Reached!TryAgain
  <2> QED BY <1>1, <1>3, <1>5, <2>1, VerdictConstants DEF VInv, VerdictTypes
<1>7. HeardInState'
  <2>1. heard' = <<>> /\ state'.abort = None /\ state'.tls = {}
    BY <1>1 DEF Reached!TryAgain, Reached!Fresh
  <2> QED BY <2>1 DEF HeardInState, Reached!Aborted, Reached!LastFlags
<1> QED BY <1>1, <1>4, <1>6, <1>7, VerdictConstants DEF VInv, Explained, Decided

LEMMA StatusKeeps == VInv /\ Reached!ErrorForStatus => VInv'
<1> SUFFICES ASSUME VInv, Reached!ErrorForStatus PROVE VInv'
  OBVIOUS
<1>1. /\ action = "Success" /\ UNCHANGED <<conf, asked, state, action, remaining, said, heard>>
      /\ result.ok /\ result.status >= 400
      /\ result' = Reached!ErrorOf("status", <<>>, result.status, result.url)
      /\ cause' = [how |-> "status", status |-> result.status]
  BY DEF Reached!ErrorForStatus
<1>2. ConfSaid' /\ HeardInState'
  BY <1>1, PolicyStays, HeardStays DEF VInv
<1>3. result # None
  BY <1>1, VerdictConstants DEF VInv, VerdictTypes
<1>4. OfResponse
  <2>1. ~ OfStatus
    BY <1>1 DEF OfStatus, Reached!ErrorOf
  <2>2. ASSUME NEW code \in Codes, OfCode(code) \/ OfPart(code) PROVE FALSE
    BY <1>1, <2>2 DEF OfCode, OfPart, Reached!CallbackError, Reached!FromWin32,
      Reached!Simple, Reached!ErrorOf
  <2>3. ~ OfStream /\ ~ OfItself
    BY <1>1 DEF OfStream, OfItself, Reached!Simple, Reached!ErrorOf
  <2> QED BY <1>3, <2>1, <2>2, <2>3 DEF VInv, Explained
<1>5. /\ result.url = "url" /\ result.status = 503 /\ cause.status = 503
      /\ cause.how = "response" /\ ~ Reached!Downgrade
  BY <1>1, <1>4 DEF OfResponse, Response
<1>6. VerdictTypes'
  BY <1>1, <1>5, VerdictConstants DEF VInv, VerdictTypes
<1>7. OfStatus'
  BY <1>1, <1>5 DEF OfStatus
<1>8. Explained'
  BY <1>1, <1>7 DEF Explained
<1>9. Decided'
  <2>1. cause'.how = "status" /\ cause'.status = 503
    BY <1>1, <1>5
  <2>2. Reached!InScope' = Reached!InScope
    BY <1>1 DEF Reached!InScope
  <2>3. conf.classify \in Classifiers
    BY DEF VInv, VerdictTypes
  <2>4. conf.classify # None =>
          (Reached!Wanted(conf.classify)' <=> Reached!Wanted(conf.classify))
    <3>1. conf' = conf /\ conf.classify \in {None, "nack", "503", "errors"}
      BY <1>1, <2>3 DEF Classifiers
    <3>2. ~ Reached!WasReset /\ ~ Reached!WasReset'
      BY <1>5, <2>1 DEF Reached!WasReset
    <3>3. CASE conf.classify = "nack"
      BY <3>1, <3>2, <3>3 DEF Reached!Wanted
    <3>4. CASE conf.classify = "503"
      BY <1>5, <2>1, <3>1, <3>4 DEF Reached!Wanted
    <3>5. CASE conf.classify = "errors"
      <4>1. ~ Reached!Downgrade'
        BY <2>1 DEF Reached!Downgrade
      <4> QED BY <1>5, <2>1, <3>1, <3>5, <4>1 DEF Reached!Wanted
    <3> QED BY <3>1, <3>3, <3>4, <3>5
  <2> QED BY <1>1, <1>5, <2>1, <2>2, <2>4 DEF VInv, Decided
<1> QED BY <1>2, <1>6, <1>8, <1>9 DEF VInv

LEMMA VerdictKeeps == VInv /\ (Reached!VerdictNext \/ UNCHANGED verdictVars) => VInv'
<1> SUFFICES ASSUME VInv, Reached!VerdictNext \/ UNCHANGED verdictVars PROVE VInv'
  OBVIOUS
<1>1. CASE UNCHANGED verdictVars
  <2>1. UNCHANGED <<conf, asked, state, result, action, remaining, said, heard, cause>>
    BY <1>1 DEF verdictVars
  <2>2. ConfSaid' /\ Explained' /\ HeardInState'
    BY <2>1, PolicyStays, ExplanationStays, HeardStays DEF VInv
  <2>3. Decided'
    BY <2>1 DEF VInv, Decided, Reached!InScope, Reached!Wanted, Reached!WasReset,
       Reached!Aborted, Reached!Downgrade
  <2>4. VerdictTypes'
    BY <2>1 DEF VInv, VerdictTypes
  <2> QED BY <2>2, <2>3, <2>4 DEF VInv
<1>2. CASE \E budget \in {None, "0.5"} : Reached!Configure("budget", budget)
  BY <1>2, ConfigureKeeps
<1>3. CASE \E max \in 0..1 : Reached!Configure("max", max)
  BY <1>3, ConfigureKeeps
<1>4. CASE \E classify \in {"503", "errors"} : Reached!Configure("classify", classify)
  BY <1>4, ConfigureKeeps
<1>5. CASE \E why \in {"unparsable", "notStripped"} : Reached!AbortNotice(why)
  BY <1>5, NoticeKeeps DEF Reasons
<1>6. CASE \E status \in {200, 302, 503}, location \in {None, "http"}, https \in BOOLEAN :
             Reached!Responds(status, location, https)
  BY <1>6, OtherEndKeeps
<1>7. CASE \E kind \in {"ConnectionReset", "Other"} : Reached!StreamError(kind)
  BY <1>7, OtherEndKeeps
<1>8. CASE Reached!UnexpectedEvent \/ Reached!TimedOut
  BY <1>8, OtherEndKeeps
<1>9. CASE \E flags \in SUBSET Flags : Reached!TlsNotice(flags)
  BY <1>9, NoticeKeeps
<1>10. CASE Reached!IntoPolicy
  BY <1>10, NoticeKeeps
<1>11. CASE \E code \in Codes : Reached!RequestError(code) \/ Reached!PartError(code)
  BY <1>11, CodeKeeps
<1>12. CASE Reached!Classify \/ Reached!TryAgain \/ Reached!ErrorForStatus
  BY <1>12, ClassifyKeeps, AgainKeeps, StatusKeeps
<1> QED
  BY <1>1, <1>2, <1>3, <1>4, <1>5, <1>6, <1>7, <1>8, <1>9, <1>10, <1>11, <1>12
  DEF Reached!VerdictNext

LEMMA DecidedImplies == VInv => Reached!RetriedAsAsked
<1> SUFFICES ASSUME VInv PROVE Reached!RetriedAsAsked
  OBVIOUS
<1> DEFINE from == said[1].value
           classify == Reached!SaidLast("classify", IF from = "default" THEN "nack" ELSE None)
<1>1. /\ conf.scope = from /\ conf.classify = classify
      /\ conf.max = Reached!SaidLast("max", 2)
      /\ conf.budget = Reached!SaidLast("budget", IF from \in Origins THEN "0.2" ELSE None)
  BY DEF VInv, ConfSaid
<1>2. remaining # None => remaining <= conf.max
  BY DEF VInv, VerdictTypes
<1>3. Reached!InScope <=> from \in {"default", asked.host}
  BY <1>1 DEF Reached!InScope
<1>4. action # None =>
        (action = "Retryable" <=>
           /\ remaining > 0 /\ cause.how # "stream"
           /\ from \in {"default", asked.host} /\ asked.uri
           /\ classify # None /\ Reached!Wanted(classify))
  BY <1>1, <1>3 DEF VInv, Decided
<1> QED
  BY <1>1, <1>2, <1>4 DEF Reached!RetriedAsAsked, from, classify

\* Whatever ends an attempt, its error tells it (error.rs, winhttp.rs).
THEOREM FailuresAreExplained == Spec => []FailuresExplained
<1> DEFINE I == part = "verdict" => VInv
<1>1. Init => I
  BY VerdictInit DEF Init
<1>2. I /\ [Next]_vars => I'
  BY OwnSteps, VerdictKeeps
<1>3. I => FailuresExplained
  BY ExplainedImplies DEF FailuresExplained
<1> QED BY <1>1, <1>2, <1>3, PTL DEF Spec

\* However often the builder is called and in any order, a policy retries
\* exactly what the last calls ask for (retry::Builder, classify_result).
THEOREM RetriesAreAsked == Spec => []RetriedAsAsked
<1> DEFINE I == part = "verdict" => VInv
<1>1. Init => I
  BY VerdictInit DEF Init
<1>2. I /\ [Next]_vars => I'
  BY OwnSteps, VerdictKeeps
<1>3. I => RetriedAsAsked
  BY DecidedImplies DEF RetriedAsAsked
<1> QED BY <1>1, <1>2, <1>3, PTL DEF Spec

-----------------------------------------------------------------------------
(* The head of a response.                                                   *)

BlockValues == {wire.block[i].value : i \in DOMAIN wire.block}

\* The header map has the headers of the first lines of the block, in order.
HeadersUpto(count) ==
  /\ DOMAIN head.headers = {wire.block[i].name : i \in {j \in Answered!HeaderLines : j <= count}}
  /\ \A n \in DOMAIN head.headers :
       /\ head.headers[n] \in Seq(BlockValues)
       /\ Answered!AllInOrder(head.headers[n], Answered!LinesOf(n, count))

HeadTypes ==
  /\ wire \in [status : Statuses, flags : SUBSET {"HTTP2", "HTTP3"}, version : Versions,
               block : Blocks, url : Urls]
  /\ head = [status |-> head.status, flags |-> head.flags, text |-> head.text,
             version |-> head.version, headers |-> head.headers, url |-> head.url]
  /\ asking \in {"status", "flags", "version", "size headers", "fill headers",
                 "parse headers", "size url", "fill url", "done", "failed"}

\* What was asked so far is known as it was received.
StatusKnown ==
  asking \notin {"status", "failed"} => head.status = wire.status

FlagsKnown ==
  asking = "version" => head.flags = None \/ head.flags \subseteq wire.flags

VersionKnown ==
  asking \notin {"status", "flags", "version", "failed"} =>
    Answered!VersionAsReported

\* The buffer has room for the text and its NUL, then it has the block.
BufferFits ==
  /\ asking = "fill headers" => Len(buf) = Len(wire.block) + 1
  /\ asking = "parse headers" => buf = wire.block
  /\ asking = "fill url" => Len(buf) = Len(wire.url) + 1

HeadersKnown ==
  /\ parsed \in Nat
  /\ asking \in {"status", "flags", "version", "size headers", "fill headers"} => parsed = 0
  /\ asking = "parse headers" => parsed <= Len(wire.block) /\ HeadersUpto(parsed)
  /\ asking \in {"size url", "fill url", "done"} => HeadersUpto(Len(wire.block))

UrlKnown == asking = "done" => head.url \in {wire.url, Mine}

HeadInv ==
  /\ HeadTypes /\ StatusKnown /\ FlagsKnown /\ VersionKnown /\ BufferFits
  /\ HeadersKnown /\ UrlKnown

LEMMA HeadConstants ==
  /\ \A block \in Blocks : block \in Seq(Range(block) \ {Nul})
  /\ \A u \in Urls : u \in Seq(Range(u) \ {Nul})
  /\ None # "HTTP/1.0"
BY PartsOK DEF Answered!ConstantsOK, Answered!Range, Range

LEMMA HeadInvInit == Answered!HeadInit => HeadInv
BY DEF Answered!HeadInit, Answered!Unasked, HeadInv, HeadTypes, StatusKnown, FlagsKnown,
  VersionKnown, BufferFits, HeadersKnown, UrlKnown

LEMMA HeadInvImplies == HeadInv => (asking = "done" => Answered!HeadAsReceived)
<1> SUFFICES ASSUME HeadInv, asking = "done" PROVE Answered!HeadAsReceived
  OBVIOUS
<1>1. wire.block \in Seq(Range(wire.block) \ {Nul})
  BY HeadConstants DEF HeadInv, HeadTypes
<1>2. {j \in Answered!HeaderLines : j <= Len(wire.block)} = Answered!HeaderLines
  BY <1>1 DEF Answered!HeaderLines
<1> QED
  BY <1>2 DEF HeadInv, StatusKnown, VersionKnown, HeadersKnown, HeadersUpto, UrlKnown,
    Answered!HeadAsReceived

\* What holds of any text and its NUL.
LEMMA NulCut ==
  ASSUME NEW S, NEW text \in Seq(S), Nul \notin S, Len(buf) = Len(text) + 1
  PROVE  /\ Answered!Taken(text, Len(text)) = text
         /\ Answered!WithoutNul(text) = text
         /\ Answered!WithoutNul(Answered!Taken(text, Len(text) + 1)) = text
<1> DEFINE z == Answered!Zeros(1)
           all == text \o z
<1>1. z = <<Nul>>
  BY DEF Answered!Zeros
<1>2. /\ all \in Seq(S \union {Nul}) /\ Len(all) = Len(text) + 1
      /\ \A i \in 1..Len(text) : all[i] = text[i]
      /\ all[Len(text) + 1] = Nul
  <2>1. text \o <<Nul>> = Append(text, Nul)
    OBVIOUS
  <2>2. all = Append(text, Nul)
    BY <1>1, <2>1
  <2> HIDE DEF all
  <2> QED BY <2>2
<1>3. Answered!Filled(text) = all
  BY DEF Answered!Filled
<1> HIDE DEF all, z
<1>4. SubSeq(all, 1, Len(text)) = text
  BY <1>2
<1>5. SubSeq(all, 1, Len(text) + 1) = all
  BY <1>2
<1>6. Answered!WithoutNul(text) = text
  BY DEF Answered!WithoutNul, Answered!Last
<1>7. Answered!WithoutNul(all) = text
  BY <1>2, <1>4 DEF Answered!WithoutNul, Answered!Last, Answered!Front
<1> QED
  BY <1>3, <1>4, <1>5, <1>6, <1>7 DEF Answered!Taken

\* One more line in order.
LEMMA OneMoreInOrder ==
  ASSUME NEW V, NEW values \in Seq(V), NEW count \in Nat, NEW lines \in SUBSET (1..count),
         Answered!AllInOrder(values, lines), NEW v, v = wire.block[count + 1].value
  PROVE  Answered!AllInOrder(Append(values, v), lines \union {count + 1})
<1>1. PICK at \in [DOMAIN values -> lines] :
        /\ Range(at) = lines
        /\ \A i \in DOMAIN values, j \in DOMAIN values : i < j => at[i] < at[j]
        /\ \A i \in DOMAIN values : values[i] = wire.block[at[i]].value
  BY DEF Answered!AllInOrder, Answered!Range, Range
<1> DEFINE more == Append(values, v)
           on == [i \in DOMAIN more |-> IF i = Len(values) + 1 THEN count + 1 ELSE at[i]]
<1>2. /\ DOMAIN more = DOMAIN values \union {Len(values) + 1}
      /\ Len(values) + 1 \notin DOMAIN values
      /\ \A i \in DOMAIN values : more[i] = values[i] /\ i \in Nat /\ i < Len(values) + 1
      /\ more[Len(values) + 1] = v
  OBVIOUS
<1> HIDE DEF more
<1>3. /\ \A i \in DOMAIN values : on[i] = at[i] /\ at[i] \in lines
      /\ on[Len(values) + 1] = count + 1
  BY <1>2
<1>4. on \in [DOMAIN more -> lines \union {count + 1}]
  BY <1>2
<1> HIDE DEF on
<1>5. Range(on) = lines \union {count + 1}
  BY <1>1, <1>2, <1>3, <1>4 DEF Range
<1>6. ASSUME NEW i \in DOMAIN more, NEW j \in DOMAIN more, i < j PROVE on[i] < on[j]
  <2>1. i \in DOMAIN values
    BY <1>2, <1>6
  <2>2. CASE j \in DOMAIN values
    BY <1>1, <1>3, <1>6, <2>1, <2>2
  <2>3. CASE j = Len(values) + 1
    BY <1>3, <2>1, <2>3
  <2> QED BY <1>2, <2>2, <2>3
<1>7. ASSUME NEW i \in DOMAIN more PROVE more[i] = wire.block[on[i]].value
  BY <1>1, <1>2, <1>3
<1> QED
  BY <1>4, <1>5, <1>6, <1>7 DEF Answered!AllInOrder, Answered!Range, Range, more, on

\* Nothing else disturbs what the header map has.
LEMMA HeadersStay ==
  ASSUME NEW count, wire' = wire, head'.headers = head.headers, HeadersUpto(count)
  PROVE  HeadersUpto(count)'
BY DEF HeadersUpto, Answered!AllInOrder, Answered!LinesOf, Answered!HeaderLines, BlockValues,
  Answered!IsHeader

\* Nor what is known of the version.
LEMMA VersionStays ==
  ASSUME VersionKnown, wire' = wire, head'.flags = head.flags, head'.text = head.text,
         head'.version = head.version,
         asking \in {"status", "flags", "version", "failed"}
           => asking' \in {"status", "flags", "version", "failed"}
  PROVE  VersionKnown'
BY Zenon DEF VersionKnown, Answered!VersionAsReported

\* When the head's other fields are replaced, what is known of the version stays.
LEMMA VersionStaysExcept ==
  ASSUME HeadInv, wire' = wire, NEW v,
         \/ head' = head
         \/ head' = [head EXCEPT !.headers = v]
         \/ head' = [head EXCEPT !.url = v],
         asking \in {"status", "flags", "version", "failed"}
           => asking' \in {"status", "flags", "version", "failed"}
  PROVE  VersionKnown'
<1>1. /\ head'.flags = head.flags /\ head'.text = head.text
      /\ head'.version = head.version
  BY Zenon DEF HeadInv, HeadTypes
<1> QED BY Zenon, <1>1, VersionStays DEF HeadInv

LEMMA FailsKeepsHeadInv == HeadInv /\ Answered!Fails => HeadInv'
BY Zenon DEF Answered!Fails, HeadInv, HeadTypes, StatusKnown, FlagsKnown, VersionKnown, BufferFits,
  HeadersKnown, UrlKnown

LEMMA QuestionKeepsHeadInv ==
  ASSUME HeadInv, Answered!QueryStatus \/ Answered!QueryFails \/ Answered!QueryFlags
                  \/ Answered!QueryVersion \/ Answered!NoUrl \/ Answered!LinesOver
  PROVE  HeadInv'
<1>1. CASE Answered!QueryStatus
  <2>1. CASE Answered!Fails
    BY <2>1, FailsKeepsHeadInv
  <2>2. CASE ~ Answered!Fails
    <3>1. /\ asking = "status" /\ asking' = "flags" /\ UNCHANGED <<wire, buf, parsed>>
          /\ head' = [head EXCEPT !.status = Answered!ParseStatus(wire.status)]
          /\ Answered!ParseStatus(wire.status) # None
      BY <1>1, <2>2 DEF Answered!QueryStatus
    <3>2. Answered!ParseStatus(wire.status) = wire.status
      BY <3>1 DEF Answered!ParseStatus
    <3> QED BY <3>1, <3>2
      DEF HeadInv, HeadTypes, StatusKnown, FlagsKnown, VersionKnown, BufferFits, HeadersKnown,
        UrlKnown
  <2> QED BY Zenon, <2>1, <2>2
      DEF HeadInv, HeadTypes, StatusKnown, FlagsKnown, VersionKnown, BufferFits, HeadersKnown,
        UrlKnown
<1>2. CASE Answered!QueryFails
  BY Zenon, <1>2, FailsKeepsHeadInv DEF Answered!QueryFails
<1>3. CASE Answered!QueryFlags
  BY <1>3 DEF Answered!QueryFlags, HeadInv, HeadTypes, StatusKnown, FlagsKnown, VersionKnown,
      BufferFits, HeadersKnown, UrlKnown
<1>4. CASE Answered!QueryVersion
  <2>1. PICK text \in {None} \union ({wire.version} \ Long) :
          head' = [head EXCEPT !.text = text,
                               !.version = Answered!ResolveVersion(head.flags, text)]
    BY Zenon, <1>4 DEF Answered!QueryVersion
  <2>2. /\ asking = "version" /\ asking' = "size headers"
        /\ UNCHANGED <<wire, buf, parsed>>
    BY Zenon, <1>4 DEF Answered!QueryVersion
  <2> DEFINE v == Answered!ResolveVersion(head.flags, text)
  <2>3. head' = [status |-> head.status, flags |-> head.flags, text |-> text,
                 version |-> v, headers |-> head.headers, url |-> head.url]
    <3> HIDE DEF v
    <3>1. head = [status |-> head.status, flags |-> head.flags, text |-> head.text,
                  version |-> head.version, headers |-> head.headers, url |-> head.url]
      BY Zenon DEF HeadInv, HeadTypes
    <3>2. head' = [head EXCEPT !.text = text, !.version = v]
      BY Zenon, <2>1 DEF v
    <3> QED BY <3>1, <3>2
  <2>4. VersionKnown'
    <3>1. head'.flags = head.flags /\ head'.text = text /\ head'.version = v /\ wire' = wire
      BY <2>2, <2>3
    <3>2. head.flags = None \/ head.flags \subseteq wire.flags
      BY <2>2 DEF HeadInv, FlagsKnown
    <3>3. text \in {None, wire.version}
      OBVIOUS
    <3>4. /\ v = "HTTP/3" <=> head.flags # None /\ "HTTP3" \in head.flags
          /\ v = "HTTP/2" <=> head.flags # None /\ "HTTP2" \in head.flags /\ "HTTP3" \notin head.flags
          /\ v = "HTTP/1.0" <=>
               ~ (head.flags # None /\ ("HTTP2" \in head.flags \/ "HTTP3" \in head.flags))
               /\ text = "HTTP/1.0"
      BY DEF Answered!ResolveVersion
    <3> HIDE DEF v
    <3>5. Answered!VersionAsReported'
      <4> QED BY <3>1, <3>2, <3>3, <3>4 DEF Answered!VersionAsReported
    <3> QED BY <3>5 DEF VersionKnown
  <2> QED BY Zenon, <2>1, <2>2, <2>4
      DEF HeadInv, HeadTypes, StatusKnown, FlagsKnown, VersionKnown, BufferFits, HeadersKnown,
        UrlKnown
<1>5. CASE Answered!NoUrl
  <2>1. /\ asking \in {"size url", "fill url"} /\ asking' = "done"
        /\ UNCHANGED <<wire, buf, parsed>> /\ head' = [head EXCEPT !.url = Mine]
    BY Zenon, <1>5 DEF Answered!NoUrl
  <2>2. HeadersUpto(Len(wire.block))'
    BY Zenon, <2>1, HeadersStay DEF HeadInv, HeadTypes, HeadersKnown
  <2>ver. VersionKnown'
    BY Zenon, <2>1, VersionStaysExcept
  <2> QED BY Zenon, <2>1, <2>2, <2>ver
      DEF HeadInv, HeadTypes, StatusKnown, FlagsKnown, BufferFits, HeadersKnown,
        UrlKnown
<1>6. CASE Answered!LinesOver
  <2>1. /\ asking = "parse headers" /\ asking' = "size url" /\ parsed = Len(wire.block)
        /\ UNCHANGED <<wire, buf, parsed, head>>
    BY Zenon, <1>6 DEF Answered!LinesOver, HeadInv, BufferFits
  <2>2. HeadersUpto(parsed)'
    BY Zenon, <2>1, HeadersStay DEF HeadInv, HeadTypes, HeadersKnown
  <2>ver. VersionKnown'
    BY Zenon, <2>1, VersionStaysExcept
  <2> QED BY Zenon, <2>1, <2>2, <2>ver
      DEF HeadInv, HeadTypes, StatusKnown, FlagsKnown, BufferFits, HeadersKnown,
        UrlKnown
<1> QED
  BY <1>1, <1>2, <1>3, <1>4, <1>5, <1>6

LEMMA BlocksAreTexts ==
  ASSUME HeadInv
  PROVE  /\ wire.block \in Seq(Range(wire.block) \ {Nul})
         /\ wire.url \in Seq(Range(wire.url) \ {Nul})
         /\ Len(wire.block) \in Nat /\ DOMAIN wire.block = 1..Len(wire.block)
         /\ Len(wire.url) \in Nat
<1>1. wire.block \in Blocks /\ wire.url \in Urls
  BY Zenon DEF HeadInv, HeadTypes
<1>2. /\ wire.block \in Seq(Range(wire.block) \ {Nul})
      /\ wire.url \in Seq(Range(wire.url) \ {Nul})
  BY <1>1, HeadConstants
<1> HIDE DEF Range
<1> QED BY <1>2

LEMMA ZerosLen ==
  ASSUME NEW n \in Nat
  PROVE  Len(Answered!Zeros(n)) = n
BY DEF Answered!Zeros

\* Before the first line the header map is empty.
LEMMA NoHeadersYet ==
  ASSUME HeadInv, wire' = wire, head'.headers = [n \in {} |-> <<>>],
         NEW count, count \in Nat, count = 0
  PROVE  HeadersUpto(count)'
<1>1. {j \in Answered!HeaderLines' : j <= count} = {}
  BY BlocksAreTexts DEF Answered!HeaderLines
<1>2. DOMAIN head'.headers = {}
  OBVIOUS
<1> QED BY <1>1, <1>2 DEF HeadersUpto

LEMMA BufferKeepsHeadInv ==
  ASSUME HeadInv, Answered!SizeHeaders \/ Answered!NoHeaders \/ Answered!FillHeaders
                  \/ Answered!SizeUrl \/ Answered!FillUrl
  PROVE  HeadInv'
<1>texts. /\ wire.block \in Seq(Range(wire.block) \ {Nul})
      /\ wire.url \in Seq(Range(wire.url) \ {Nul})
      /\ Len(wire.block) \in Nat /\ Len(wire.url) \in Nat
  BY BlocksAreTexts
<1>sizes. /\ Len(wire.block) + 1 \in Nat /\ Len(wire.url) + 1 \in Nat /\ 0 <= Len(wire.block)
  BY <1>texts
<1>1. CASE Answered!SizeHeaders
  <2>1. /\ asking = "size headers" /\ asking' = "fill headers"
        /\ UNCHANGED <<wire, parsed, head>> /\ buf' = Answered!Zeros(Len(wire.block) + 1)
    BY Zenon, <1>1 DEF Answered!SizeHeaders
  <2>3. Len(buf') = Len(wire.block) + 1
    BY Zenon, <2>1, <1>sizes, ZerosLen
  <2>ver. VersionKnown'
    BY Zenon, <2>1, VersionStaysExcept
  <2> QED BY Zenon, <2>1, <2>3, <2>ver
      DEF HeadInv, HeadTypes, StatusKnown, FlagsKnown, BufferFits, HeadersKnown,
        UrlKnown
<1>2. CASE Answered!NoHeaders
  <2>1. /\ asking = "size headers" /\ wire.block = <<>> /\ asking' = "size url"
        /\ head' = [head EXCEPT !.headers = [n \in {} |-> <<>>]]
        /\ UNCHANGED <<wire, buf, parsed>>
    BY Zenon, <1>2 DEF Answered!NoHeaders
  <2>2. Len(wire.block) = 0 /\ Len(wire.block) \in Nat
    BY Zenon, <2>1
  <2>map. head'.headers = [n \in {} |-> <<>>]
    BY Zenon, <2>1 DEF HeadInv, HeadTypes
  <2>3. HeadersUpto(Len(wire.block))'
    BY Zenon, <2>1, <2>2, <2>map, NoHeadersYet
  <2>ver. VersionKnown'
    BY Zenon, <2>1, VersionStaysExcept
  <2> QED BY Zenon, <2>1, <2>3, <2>ver
      DEF HeadInv, HeadTypes, StatusKnown, FlagsKnown, BufferFits, HeadersKnown,
        UrlKnown
<1>3. CASE Answered!FillHeaders
  <2>1. /\ asking = "fill headers" /\ asking' = "parse headers"
        /\ buf' = Answered!Taken(wire.block, Len(wire.block))
        /\ head' = [head EXCEPT !.headers = [n \in {} |-> <<>>]]
        /\ UNCHANGED <<wire, parsed>>
    BY Zenon, <1>3 DEF Answered!FillHeaders
  <2>room. Len(buf) = Len(wire.block) + 1
    BY Zenon, <2>1 DEF HeadInv, BufferFits
  <2>2. buf' = wire.block
    BY Zenon, <2>1, <2>room, <1>texts, NulCut
  <2>3. parsed = 0 /\ parsed' = 0 /\ 0 <= Len(wire.block)
    BY Zenon, <2>1, <1>sizes DEF HeadInv, HeadersKnown
  <2>map. head'.headers = [n \in {} |-> <<>>]
    BY Zenon, <2>1 DEF HeadInv, HeadTypes
  <2>4. HeadersUpto(parsed)'
    BY Zenon, <2>1, <2>3, <2>map, NoHeadersYet
  <2>ver. VersionKnown'
    BY Zenon, <2>1, VersionStaysExcept
  <2> QED BY Zenon, <2>1, <2>2, <2>3, <2>4, <2>ver
      DEF HeadInv, HeadTypes, StatusKnown, FlagsKnown, BufferFits, HeadersKnown,
        UrlKnown
<1>4. CASE Answered!SizeUrl
  <2>1. /\ asking = "size url" /\ asking' = "fill url" /\ UNCHANGED <<wire, parsed, head>>
        /\ buf' = Answered!Zeros(Len(wire.url) + 1)
    BY Zenon, <1>4 DEF Answered!SizeUrl
  <2>2. Len(buf') = Len(wire.url) + 1
    BY Zenon, <2>1, <1>sizes, ZerosLen
  <2>3. HeadersUpto(Len(wire.block))'
    BY Zenon, <2>1, HeadersStay DEF HeadInv, HeadTypes, HeadersKnown
  <2>ver. VersionKnown'
    BY Zenon, <2>1, VersionStaysExcept
  <2> QED BY Zenon, <2>1, <2>2, <2>3, <2>ver
      DEF HeadInv, HeadTypes, StatusKnown, FlagsKnown, BufferFits, HeadersKnown,
        UrlKnown
<1>5. CASE Answered!FillUrl
  <2>1. /\ asking = "fill url" /\ asking' = "done" /\ UNCHANGED <<wire, parsed>>
    BY Zenon, <1>5 DEF Answered!FillUrl
  <2>2. PICK length \in {Len(wire.url), Len(wire.url) + 1} :
          LET text == Answered!WithoutNul(Answered!Taken(wire.url, length))
          IN  head' = [head EXCEPT !.url = IF text \in Parsable THEN text ELSE Mine]
    BY Zenon, <1>5 DEF Answered!FillUrl
  <2>room. Len(buf) = Len(wire.url) + 1
    BY Zenon, <1>5 DEF Answered!FillUrl, HeadInv, BufferFits
  <2>3. Answered!WithoutNul(Answered!Taken(wire.url, length)) = wire.url
    BY <2>room, <1>texts, NulCut
  <2>4. head' = [head EXCEPT !.url = IF wire.url \in Parsable THEN wire.url ELSE Mine]
    BY <2>2, <2>3
  <2>5. HeadersUpto(Len(wire.block))'
    BY Zenon, <2>1, <2>4, HeadersStay DEF HeadInv, HeadTypes, HeadersKnown
  <2>ver. VersionKnown'
    BY Zenon, <2>1, <2>4, VersionStaysExcept
  <2> QED BY Zenon, <2>1, <2>4, <2>5, <2>ver
      DEF HeadInv, HeadTypes, StatusKnown, FlagsKnown, BufferFits, HeadersKnown,
        UrlKnown
<1> QED
  BY <1>1, <1>2, <1>3, <1>4, <1>5

\* A line that is a header goes to the end of its name's values.
LEMMA LineKeepsHeaders ==
  ASSUME HeadInv, Answered!ParseLine
  PROVE  HeadersUpto(parsed)'
<1> DEFINE k == parsed + 1
           line == wire.block[k]
           map == head.headers
           name == line.name
           old == IF name \in DOMAIN map THEN map[name] ELSE <<>>
           Upto(m, count) ==
             /\ DOMAIN m = {wire.block[i].name : i \in {j \in Answered!HeaderLines : j <= count}}
             /\ \A n \in DOMAIN m :
                  /\ m[n] \in Seq(BlockValues)
                  /\ Answered!AllInOrder(m[n], Answered!LinesOf(n, count))
<1>1. Len(wire.block) \in Nat /\ DOMAIN wire.block = 1..Len(wire.block)
  BY BlocksAreTexts
<1>2. parsed \in Nat /\ buf = wire.block /\ Upto(map, parsed)
  BY Zenon DEF HeadInv, HeadersKnown, BufferFits, HeadersUpto, Answered!ParseLine
<1>3. k <= Len(wire.block) /\ parsed' = k /\ wire' = wire
  <2>1. parsed < Len(wire.block) /\ parsed' = parsed + 1 /\ wire' = wire
    BY Zenon, <1>2 DEF Answered!ParseLine
  <2> QED BY <2>1, <1>1, <1>2
<1>4. /\ k \in DOMAIN wire.block /\ k \in Nat
      /\ \A j \in Int : j <= k <=> j <= parsed \/ j = k
      /\ \A j \in Int : j >= 1 /\ j <= parsed => j \in 1..parsed
  BY <1>1, <1>2, <1>3
<1>5. Upto(head'.headers, k) => HeadersUpto(parsed)'
  <2>1. Answered!HeaderLines' = Answered!HeaderLines
    BY <1>3 DEF Answered!HeaderLines, Answered!IsHeader
  <2>2. BlockValues' = BlockValues
    BY <1>3 DEF BlockValues
  <2>3. \A n : Answered!LinesOf(n, parsed)' = Answered!LinesOf(n, k)
    BY <1>3, <2>1 DEF Answered!LinesOf
  <2>4. \A values, lines :
          Answered!AllInOrder(values, lines)' <=> Answered!AllInOrder(values, lines)
    BY <1>3 DEF Answered!AllInOrder
  <2> HIDE DEF k
  <2> QED BY <1>3, <2>1, <2>2, <2>3, <2>4 DEF HeadersUpto
<1>6. /\ Answered!IsHeader(line) => head'.headers = Answered!Appended(map, name, line.value)
      /\ ~ Answered!IsHeader(line) => head'.headers = map
  BY Zenon, <1>2 DEF Answered!ParseLine, HeadInv, HeadTypes
<1>7. \A j \in Answered!HeaderLines : j \in Int /\ j >= 1
  BY <1>1 DEF Answered!HeaderLines
<1>8. k \in Answered!HeaderLines <=> Answered!IsHeader(line)
  BY <1>4 DEF Answered!HeaderLines
<1>9. \A j \in Answered!HeaderLines : j <= k <=> j <= parsed \/ j = k
  BY <1>4, <1>7
<1>10. wire.block[parsed + 1].value = line.value /\ parsed + 1 = k
  OBVIOUS
<1>11. line.value \in BlockValues
  BY <1>4 DEF BlockValues
<1> HIDE DEF k, line, map
<1>12. CASE ~ Answered!IsHeader(line)
  <2>1. \A j \in Answered!HeaderLines : j <= k <=> j <= parsed
    BY <1>8, <1>9, <1>12
  <2>2. {j \in Answered!HeaderLines : j <= k} = {j \in Answered!HeaderLines : j <= parsed}
    BY <2>1
  <2>3. ASSUME NEW n PROVE Answered!LinesOf(n, k) = Answered!LinesOf(n, parsed)
    BY <2>1 DEF Answered!LinesOf
  <2>4. Upto(map, k)
    BY <2>2, <2>3, <1>2
  <2> QED
    BY <2>4, <1>5, <1>6, <1>12
<1>13. CASE Answered!IsHeader(line)
  <2>1. k \in Answered!HeaderLines
    BY <1>8, <1>13
  <2>2. DOMAIN map = {wire.block[i].name : i \in {j \in Answered!HeaderLines : j <= parsed}}
    BY <1>2
  <2>3. name = wire.block[k].name
    BY DEF line
  <2>4. DOMAIN map \union {name}
          = {wire.block[i].name : i \in {j \in Answered!HeaderLines : j <= k}}
    BY <2>1, <2>2, <2>3, <1>9
  <2>5. ASSUME NEW n \in DOMAIN map, n # name
        PROVE  Answered!LinesOf(n, k) = Answered!LinesOf(n, parsed)
    BY <2>3, <2>5, <1>9 DEF Answered!LinesOf
  <2>6. Answered!LinesOf(name, k) = Answered!LinesOf(name, parsed) \union {k}
    BY <2>1, <2>3, <1>9 DEF Answered!LinesOf
  <2>7. old \in Seq(BlockValues) /\ Answered!AllInOrder(old, Answered!LinesOf(name, parsed))
    <3>1. CASE name \in DOMAIN map
      BY <3>1, <1>2
    <3>2. CASE name \notin DOMAIN map
      <4>1. Answered!LinesOf(name, parsed) = {}
        BY <3>2, <2>2 DEF Answered!LinesOf
      <4>2. Answered!AllInOrder(<<>>, {})
        <5>1. <<>> \in [DOMAIN <<>> -> {}] /\ Answered!Range(<<>>) = {}
          BY DEF Answered!Range
        <5> QED BY <5>1 DEF Answered!AllInOrder
      <4>3. old = <<>> /\ <<>> \in Seq(BlockValues)
        BY <3>2
      <4> QED BY <4>1, <4>2, <4>3
    <3> QED BY <3>1, <3>2
  <2>8. Answered!LinesOf(name, parsed) \in SUBSET (1..parsed)
    BY <1>4, <1>7 DEF Answered!LinesOf
  <2> HIDE DEF old, name
  <2>map. Answered!AllInOrder(Append(old, line.value), Answered!LinesOf(name, parsed) \union {k})
    BY <1>2, <1>10, <2>7, <2>8, OneMoreInOrder
  <2>10. Append(old, line.value) \in Seq(BlockValues)
    BY <2>7, <1>11
  <2>11. head'.headers = [n \in DOMAIN map \union {name} |->
                            IF n # name THEN map[n] ELSE Append(old, line.value)]
    BY <1>6, <1>13 DEF Answered!Appended, old, name
  <2>12. ASSUME NEW n \in DOMAIN map \union {name}
         PROVE  /\ head'.headers[n] \in Seq(BlockValues)
                /\ Answered!AllInOrder(head'.headers[n], Answered!LinesOf(n, k))
    <3>1. CASE n = name
      <4>1. head'.headers[n] = Append(old, line.value)
        BY <2>11, <3>1
      <4> QED BY <4>1, <3>1, <2>6, <2>map, <2>10
    <3>2. CASE n # name
      <4>1. head'.headers[n] = map[n] /\ n \in DOMAIN map
        BY <2>11, <3>2
      <4> QED BY <4>1, <3>2, <2>5, <1>2
    <3> QED BY <3>1, <3>2
  <2>13. DOMAIN head'.headers = DOMAIN map \union {name}
    BY <2>11
  <2>14. Upto(head'.headers, k)
    BY <2>4, <2>12, <2>13
  <2> QED
    BY <2>14, <1>5
<1> QED BY <1>12, <1>13

LEMMA HeadNextKeeps == HeadInv /\ (Answered!HeadNext \/ UNCHANGED headVars) => HeadInv'
<1> SUFFICES ASSUME HeadInv, Answered!HeadNext \/ UNCHANGED headVars PROVE HeadInv'
  OBVIOUS
<1>1. CASE Answered!ParseLine
  <2>1. /\ asking = "parse headers" /\ asking' = asking /\ wire' = wire /\ buf' = buf
        /\ parsed' = parsed + 1 /\ parsed < Len(buf)
    BY Zenon, <1>1 DEF Answered!ParseLine
  <2>2. HeadersUpto(parsed)'
    BY <1>1, LineKeepsHeaders
  <2>3. parsed \in Nat /\ buf = wire.block /\ Len(wire.block) \in Nat
    BY Zenon, <2>1, BlocksAreTexts DEF HeadInv, HeadersKnown, BufferFits
  <2>4. /\ head' = [status |-> head'.status, flags |-> head'.flags, text |-> head'.text,
                     version |-> head'.version, headers |-> head'.headers, url |-> head'.url]
        /\ head'.status = head.status /\ head'.flags = head.flags
        /\ head'.text = head.text /\ head'.version = head.version
    BY Zenon, <1>1 DEF Answered!ParseLine, HeadInv, HeadTypes
  <2>6. parsed' \in Nat /\ parsed' <= Len(wire'.block)
    <3>1. parsed < Len(wire.block) /\ wire' = wire /\ parsed' = parsed + 1
      BY Zenon, <2>1, <2>3
    <3>2. parsed + 1 \in Nat /\ parsed + 1 <= Len(wire.block)
      BY <3>1, <2>3
    <3> QED BY <3>1, <3>2
  <2>5. HeadersKnown'
    BY Zenon, <2>1, <2>2, <2>6 DEF HeadersKnown
  <2>ver. VersionKnown'
    BY Zenon, <2>1, <2>4, VersionStays DEF HeadInv
  <2> QED
    BY Zenon, <2>1, <2>4, <2>5, <2>ver DEF HeadInv, HeadTypes, StatusKnown, FlagsKnown, BufferFits,
      UrlKnown
<1>2. CASE UNCHANGED headVars
  <2>1. UNCHANGED <<asking, wire, buf, parsed, head>>
    BY <1>2 DEF headVars
  <2>2. \A count : HeadersUpto(count) => HeadersUpto(count)'
    BY <2>1, HeadersStay
  <2>ver. VersionKnown'
    BY Zenon, <2>1, VersionStaysExcept
  <2> QED
    BY Zenon, <2>1, <2>2, <2>ver DEF HeadInv, HeadTypes, StatusKnown, FlagsKnown, BufferFits,
      HeadersKnown, UrlKnown
<1> QED
  BY <1>1, <1>2, QuestionKeepsHeadInv, BufferKeepsHeadInv DEF Answered!HeadNext

\* For any head WinHTTP may report: what a response says is what was received.
THEOREM HeadIsAsReceived == Spec => []HeadAsReceived
<1> DEFINE I == part = "head" => HeadInv
<1>1. Init => I
  BY HeadInvInit DEF Init
<1>2. I /\ [Next]_vars => I'
  BY OwnSteps, HeadNextKeeps
<1>3. I => HeadAsReceived
  BY HeadInvImplies DEF HeadAsReceived, Answered!HeadAsReceived
<1> QED BY <1>1, <1>2, <1>3, PTL DEF Spec

-----------------------------------------------------------------------------
(* Bodies and conversions: the invariants of their own proofs.               *)

ReadProofs == INSTANCE BodyUse_proofs
SystemProofs == INSTANCE SystemText_proofs

\* BodyUse by way of its proofs is BodyUse.
LEMMA SameUse == Read!Use => ReadProofs!Next
BY Zenon DEF ReadProofs!Next,
     Read!HandTo, Read!Streamer, Read!IntoStream, Read!IntoHttpResponse,
     Read!IntoBody, Read!Collect, Read!DropClient, Read!DeadlinePasses,
     Read!Chunks, Read!Holds, Read!Told, Read!Answer, Read!ChunkRefused,
     Read!BeginChunk, Read!ChunkTimesOut, Read!ReadAnswer, Read!Takes,
     Read!GiveUp, Read!NobodyIsTold, Read!ChunkReturns, Read!DropHolder,
     Read!Use, ReadProofs!HandTo, ReadProofs!Streamer, ReadProofs!IntoStream,
     ReadProofs!IntoHttpResponse, ReadProofs!IntoBody, ReadProofs!Collect,
     ReadProofs!DropClient, ReadProofs!DeadlinePasses, ReadProofs!Chunks,
     ReadProofs!Holds, ReadProofs!Told, ReadProofs!Answer,
     ReadProofs!ChunkRefused, ReadProofs!BeginChunk,
     ReadProofs!ChunkTimesOut, ReadProofs!ReadAnswer, ReadProofs!Takes,
     ReadProofs!GiveUp, ReadProofs!NobodyIsTold, ReadProofs!ChunkReturns,
     ReadProofs!DropHolder, ReadProofs!Use

LEMMA SameConvert == Converted!Convert => SystemProofs!Next
BY Zenon DEF SystemProofs!Next,
     Converted!Calls, Converted!TableOf, Converted!Goes, Converted!Returns,
     Converted!Begin, Converted!GetOrInit, Converted!Resolved,
     Converted!LoadLibrary, Converted!ResolveExports, Converted!Without,
     Converted!FallsBack, Converted!Open, Converted!Decode, Converted!Measure,
     Converted!Fill, Converted!Convert, SystemProofs!Calls, SystemProofs!TableOf,
     SystemProofs!Goes, SystemProofs!Returns, SystemProofs!Begin,
     SystemProofs!GetOrInit, SystemProofs!Resolved, SystemProofs!LoadLibrary,
     SystemProofs!ResolveExports, SystemProofs!Without, SystemProofs!FallsBack,
     SystemProofs!Open, SystemProofs!Decode, SystemProofs!Measure,
     SystemProofs!Fill, SystemProofs!Convert

\* Whoever reads a body is told the same, in a client as on its own, and loses
\* nothing but by the reads it gave up (response.rs, body.rs).
THEOREM BodyIsDelivered == Spec => []BodyDelivered
<1> DEFINE I == part = "body" => ReadProofs!IInv
<1>1. Init => I
  <2> SUFFICES ASSUME Init, part = "body" PROVE ReadProofs!IInv
    OBVIOUS
  <2>1. Read!Init
    BY DEF Init
  <2>2. ReadProofs!ConstantsOK
    BY PartsOK DEF Read!ConstantsOK, ReadProofs!ConstantsOK, Read!Responses,
      ReadProofs!Responses
  <2>3. ReadProofs!Init
    BY <2>1 DEF Read!Init, ReadProofs!Init
  <2> QED BY <2>2, <2>3, ReadProofs!InitIInv
<1>2. I /\ [Next]_vars => I'
  <2> SUFFICES ASSUME I, [Next]_vars, part' = "body" PROVE ReadProofs!IInv'
    OBVIOUS
  <2>1. ReadProofs!IInv /\ [ReadProofs!Next]_ReadProofs!vars
    BY OwnSteps, SameUse DEF ReadProofs!vars, bodyVars
  <2> QED BY <2>1, ReadProofs!NextIInv
<1>3. I => BodyDelivered
  <2> SUFFICES ASSUME I, part = "body" PROVE Read!BodyDelivered
    BY DEF BodyDelivered
  <2>1. ReadProofs!BodyDelivered
    BY ReadProofs!IInvImplies
  <2> QED
    BY <2>1 DEF Read!BodyDelivered, Read!Gotten, Read!Chunks,
      ReadProofs!BodyDelivered, ReadProofs!Gotten, ReadProofs!Chunks,
      Read!Cardinality, ReadProofs!Cardinality
<1> QED BY <1>1, <1>2, <1>3, PTL DEF Spec

\* icu.dll stays loaded for whoever calls into it, and NLS stands in only where
\* ICU is not there (abi/mod.rs, abi/encoding.rs, abi/idna.rs).
THEOREM SystemTextIsSound == Spec => []SystemTextSound
<1> DEFINE I == part = "system" => SystemProofs!IInv
<1>1. Init => I
  <2> SUFFICES ASSUME Init, part = "system" PROVE SystemProofs!IInv
    OBVIOUS
  <2>1. Converted!Init
    BY DEF Init
  <2>2. SystemProofs!ConstantsOK
    BY Zenon, PartsOK DEF Converted!ConstantsOK, SystemProofs!ConstantsOK, Converted!Answers,
      SystemProofs!Answers
  <2>3. SystemProofs!Init
    BY <2>1 DEF Converted!Init, SystemProofs!Init, Converted!Tables, SystemProofs!Tables
  <2> QED BY <2>2, <2>3, SystemProofs!InitIInv
<1>2. I /\ [Next]_vars => I'
  <2> SUFFICES ASSUME I, [Next]_vars, part' = "system" PROVE SystemProofs!IInv'
    OBVIOUS
  <2>1. SystemProofs!IInv /\ [SystemProofs!Next]_SystemProofs!vars
    BY OwnSteps, SameConvert DEF SystemProofs!vars, systemVars
  <2> QED BY <2>1, SystemProofs!NextIInv
<1>3. I => SystemTextSound
  <2> SUFFICES ASSUME I, part = "system" PROVE Converted!SystemTextSound
    BY DEF SystemTextSound
  <2>1. SystemProofs!LibraryHeld /\ SystemProofs!ConvertedSoundly
    BY SystemProofs!IInvImplies
  <2> QED
    BY Zenon, <2>1 DEF Converted!SystemTextSound,
      Converted!LibraryHeld, SystemProofs!LibraryHeld, Converted!ConvertedSoundly,
      SystemProofs!ConvertedSoundly, Converted!Tables, SystemProofs!Tables,
      Converted!TableOf, SystemProofs!TableOf,
      Converted!Cardinality, SystemProofs!Cardinality
<1> QED BY <1>1, <1>2, <1>3, PTL DEF Spec
=============================================================================
