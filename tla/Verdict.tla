------------------------------ MODULE Verdict ------------------------------
(* How an attempt's end is told to its caller and to the retry policy:     *)
(* errors as error.rs builds them from what a callback left (winhttp.rs),  *)
(* their kind, URL and chain of sources, the redirect that was blocked     *)
(* (client.rs), and the policy that retry.rs builds and asks about each    *)
(* attempt. RetryLoop and RetryBudget have the loop and the budget.        *)
(* Definitions named Bug... are faulty variants of the ones that follow.   *)
EXTENDS Integers, SequencesExt

CONSTANTS
  Hosts,       \* hosts of requests and scopes
  Codes,       \* Win32 codes of failed operations
  Flags,       \* flags of a SECURE_FAILURE notice
  MaxSaid,     \* bound on the calls of retry::Builder and the notices of an
               \* attempt together
  None         \* Option::None

VARIABLES
  conf,        \* the retry::Builder, and the Policy once it is built
  request,     \* [host, https, follows, uri]: follows is redirect_follows, uri
               \* whether its URL is an http::Uri
  state,       \* of the attempt's RequestState: the TLS flags, the abort
  result,      \* what the attempt came to: Ok or an Error, None while it runs
  action,      \* classify_result's answer, None before
  remaining,   \* remaining_retries, None before execute
  said,        \* history: the calls of the Builder
  heard,       \* history: what callbacks told of this attempt, in order
  cause        \* history: what ended the attempt

verdictVars == <<conf, request, state, result, action, remaining, said, heard, cause>>

-----------------------------------------------------------------------------
(* Error: a chain of sources, the outermost first. A link is an io::Error  *)
(* [io, code], a ContextError's text, or a message.                        *)

Message(text) == [io |-> None, code |-> None, says |-> text]

ErrorOf(kind, chain, status, url) ==
  [ok |-> FALSE, kind |-> kind, chain |-> chain, status |-> status, url |-> url]

\* No host is called as the builders that name none, and None is no value.
ConstantsOK ==
  /\ {"never", "default"} \intersect Hosts = {}
  /\ None \notin Nat /\ MaxSaid \in Nat
  /\ None \notin {"unparsable", "notStripped"}
  /\ None \notin {"nack", "503", "errors", "Success", "Retryable", "ConnectionReset",
                  "CLIENT_AUTH_CERT_NEEDED", "url", ErrorOf("status", <<>>, 503, "url")}

\* with_kind, with_url: every place an attempt ends in attaches the URL.
Simple(kind, text) == ErrorOf(kind, <<Message(text)>>, None, "url")

CertificateCodes ==
  {"CLIENT_AUTH_CERT_NEEDED", "CLIENT_AUTH_CERT_NEEDED_PROXY",
   "CLIENT_CERT_NO_PRIVATE_KEY", "CLIENT_CERT_NO_ACCESS_PRIVATE_KEY"}

KindFromWin32(code) ==
  CASE code \in {"CANNOT_CONNECT", "NAME_NOT_RESOLVED", "CONNECTION_ERROR",
                 "SECURE_FAILURE"} \union CertificateCodes -> "connect"
    [] code = "TIMEOUT" -> "timeout"
    [] code = "REDIRECT_FAILED" -> "redirect"
    [] OTHER -> "request"

\* With a kind of its own the code is not seen by raw_os_error, and io::Error's
\* source() does not show it either.
IoError(code) ==
  LET kind == CASE code = "CANNOT_CONNECT" -> "ConnectionRefused"
                [] code = "CONNECTION_ERROR" -> "ConnectionReset"
                [] code = "TIMEOUT" -> "TimedOut"
                [] OTHER -> "Uncategorized"
  IN  [io |-> kind, code |-> IF kind = "Uncategorized" THEN code ELSE None, says |-> {}]

FromWin32(code) == ErrorOf(KindFromWin32(code), <<IoError(code)>>, None, "url")

IsConnectionReset(e) == \E i \in DOMAIN e.chain : e.chain[i].io = "ConnectionReset"

\* is_client_cert_needed looks at the outermost source.
IsClientCertNeeded(e) ==
  e.kind = "connect" /\ e.chain[1].code = "CLIENT_AUTH_CERT_NEEDED"

-----------------------------------------------------------------------------
(* What the callbacks leave, and into_result, into_write_complete *)

Fresh == [tls |-> {}, abort |-> None]

\* describe_tls_failure: the flags that are set, in words.
TlsFailure(flags) == Message(flags)

\* The abort's reason first, then the code, with the TLS flags before it.
CallbackError(code) ==
  IF state.abort # None THEN Simple("request", state.abort)
  ELSE IF code = "SECURE_FAILURE"
    THEN [FromWin32(code) EXCEPT !.chain = <<TlsFailure(state.tls)>> \o @]
  ELSE FromWin32(code)

Running == remaining # None /\ result = None

\* SECURE_FAILURE: the flags are stored, over those of an earlier notice.
TlsNotice(flags) ==
  /\ Running
  /\ Len(said) + Len(heard) <= MaxSaid
  /\ state' = [state EXCEPT !.tls = flags]
  /\ heard' = Append(heard, [of |-> "tls", says |-> flags])
  /\ UNCHANGED <<conf, request, result, action, remaining, said, cause>>

\* abort_from_callback: the first reason stays.
AbortNotice(why) ==
  /\ Running
  /\ Len(said) + Len(heard) <= MaxSaid
  /\ state' = [state EXCEPT !.abort = IF @ = None THEN why ELSE @]
  /\ heard' = Append(heard, [of |-> "abort", says |-> why])
  /\ UNCHANGED <<conf, request, result, action, remaining, said, cause>>

EndAttempt(what, r) ==
  /\ Running
  /\ result' = r
  /\ cause' = what
  /\ UNCHANGED <<conf, request, state, action, remaining, said, heard>>

\* REQUEST_ERROR during send or receive; and during a write or a read, or an
\* operation that is refused at once: neither looks at the state.
RequestError(code) ==
  EndAttempt([how |-> "code", code |-> code], CallbackError(code))
PartError(code) ==
  EndAttempt([how |-> "part", code |-> code], FromWin32(code))

\* The caller's stream failed, in an io::Error of some kind.
StreamError(kind) ==
  EndAttempt([how |-> "stream", kind |-> kind],
    ErrorOf("request", <<Message("stream"), [io |-> kind, code |-> None, says |-> {}]>>,
            None, "url"))

UnexpectedEvent ==
  EndAttempt([how |-> "unexpected"], Simple("request", "unexpected"))
TimedOut == EndAttempt([how |-> "timeout"], Simple("timeout", "elapsed"))

\* WinHTTP follows no redirect from https to http; the 3xx it answers instead
\* is an error, for a client that follows redirects. Other redirects may have
\* led there: https is what the response's own URL is.
Blocked(status, location, https) ==
  request.follows /\ https /\ status = 302 /\ location = "http"

Responds(status, location, https) ==
  /\ https = request.https \/ (request.follows /\ https)
  /\ EndAttempt([how |-> "response", status |-> status, location |-> location,
                 https |-> https],
       IF Blocked(status, location, https) THEN Simple("redirect", "blocked")
       ELSE [ok |-> TRUE, status |-> status, url |-> "url"])

-----------------------------------------------------------------------------
(* retry::Builder and Policy *)

\* for_host and never; what a client that asks for nothing has.
Scoped(scope) ==
  [scope |-> scope, budget |-> IF scope = "never" THEN None ELSE "0.2",
   classify |-> None, max |-> 2]
Default == [scope |-> "default", budget |-> None, classify |-> "nack", max |-> 2]
Started(start) == IF start = "default" THEN Default ELSE Scoped(start)

VerdictInit ==
  /\ \E start \in Hosts \union {"never", "default"} :
       conf = Started(start) /\ said = <<[field |-> "start", value |-> start]>>
  /\ request \in [host : Hosts, https : BOOLEAN, follows : BOOLEAN, uri : BOOLEAN]
  /\ state = Fresh /\ heard = <<>>
  /\ result = None /\ action = None /\ remaining = None /\ cause = None

\* no_budget, max_extra_load, max_retries_per_request, classify_fn.
Configure(field, value) ==
  /\ remaining = None
  /\ Len(said) <= MaxSaid
  /\ conf' = [conf EXCEPT ![field] = value]
  /\ said' = Append(said, [field |-> field, value |-> value])
  /\ UNCHANGED <<request, state, result, action, remaining, heard, cause>>

\* into_policy, and the start of execute.
IntoPolicy ==
  /\ remaining = None
  /\ remaining' = conf.max
  /\ UNCHANGED <<conf, request, state, result, action, said, heard, cause>>

InScope == conf.scope = "default" \/ conf.scope = request.host

Classified(classify, r) ==
  CASE classify = "nack" -> ~ r.ok /\ IsConnectionReset(r)
    [] classify = "503" -> r.status = 503
    [] classify = "errors" -> ~ r.ok

\* What the closure says goes beyond the scope as well.
BugClassifyResult ==
  IF request.uri /\ conf.classify # None /\ Classified(conf.classify, result)
  THEN "Retryable" ELSE "Success"

\* Scope first; without a classifier nothing is retried, nor is a request
\* whose URL ReqRep::new can make no http::Uri of.
ClassifyResult ==
  IF InScope /\ conf.classify # None /\ request.uri /\ Classified(conf.classify, result)
  THEN "Retryable" ELSE "Success"

\* The last attempt, or one that took the caller's stream, is not classified.
Classify ==
  /\ result # None /\ action = None
  /\ action' = IF remaining = 0 \/ cause.how = "stream" THEN "Success" ELSE ClassifyResult
  /\ UNCHANGED <<conf, request, state, result, remaining, said, heard, cause>>

\* The state is made once, for all attempts of an execute.
BugNextState == state

\* The next attempt has a RequestState of its own.
NextState == Fresh

TryAgain ==
  /\ action = "Retryable"
  /\ remaining' = remaining - 1
  /\ state' = NextState
  /\ heard' = <<>>
  /\ result' = None /\ action' = None /\ cause' = None
  /\ UNCHANGED <<conf, request, said>>

\* error_for_status, of a response the caller was given.
ErrorForStatus ==
  /\ action = "Success"
  /\ result.ok /\ result.status >= 400
  /\ result' = ErrorOf("status", <<>>, result.status, result.url)
  /\ cause' = [how |-> "status", status |-> result.status]
  /\ UNCHANGED <<conf, request, state, action, remaining, said, heard>>

VerdictNext ==
  \/ \E budget \in {None, "0.5"} : Configure("budget", budget)
  \/ \E max \in 0..1 : Configure("max", max)
  \/ \E classify \in {"503", "errors"} : Configure("classify", classify)
  \/ IntoPolicy
  \/ \E flags \in SUBSET Flags : TlsNotice(flags)
  \/ \E why \in {"unparsable", "notStripped"} : AbortNotice(why)
  \/ \E code \in Codes : RequestError(code) \/ PartError(code)
  \/ \E kind \in {"ConnectionReset", "Other"} : StreamError(kind)
  \/ UnexpectedEvent
  \/ TimedOut
  \/ \E status \in {200, 302, 503}, location \in {None, "http"}, https \in BOOLEAN :
       Responds(status, location, https)
  \/ Classify
  \/ TryAgain
  \/ ErrorForStatus

VerdictOver == action = "Success"
VerdictDone == VerdictOver /\ UNCHANGED verdictVars

-----------------------------------------------------------------------------
(* Properties *)

Kinds == {"timeout", "request", "connect", "redirect", "status"}

\* The type invariant of the policy, the attempt's state and its result.
VerdictTypeOK ==
  /\ conf.max \in 0..2 /\ remaining \in {None} \union 0..conf.max
  /\ state.tls \subseteq Flags
  /\ result # None /\ ~ result.ok => result.kind \in Kinds
  /\ action \in {None, "Success", "Retryable"}

\* What the documentation of ErrorKind and of is_connect says of a code:
\* connection errors are of name resolution, refused connections and TLS
\* handshakes. A reset connection may count as one.
DocumentedKind(code) ==
  CASE code \in {"CANNOT_CONNECT", "NAME_NOT_RESOLVED", "SECURE_FAILURE"}
                \union CertificateCodes -> {"connect"}
    [] code = "TIMEOUT" -> {"timeout"}
    [] code = "REDIRECT_FAILED" -> {"redirect"}
    [] code = "CONNECTION_ERROR" -> {"connect", "request"}
    [] OTHER -> {"request"}

\* Of this attempt: whether a callback closed the handle, the first reason one
\* gave, and the TLS flags last reported.
Aborted == \E i \in DOMAIN heard : heard[i].of = "abort"
FirstReason(why) ==
  \E i \in DOMAIN heard :
    /\ heard[i] = [of |-> "abort", says |-> why]
    /\ \A j \in DOMAIN heard : heard[j].of = "abort" => i <= j
LastFlags(flags) ==
  \/ flags = {} /\ \A i \in DOMAIN heard : heard[i].of # "tls"
  \/ \E i \in DOMAIN heard :
       /\ heard[i] = [of |-> "tls", says |-> flags]
       /\ \A j \in DOMAIN heard : heard[j].of = "tls" => j <= i

\* What an attempt failed of by what ended it: a code, the caller's stream, the
\* deadline, an event that was none of its own, a response.
CodeExplained ==
  IF cause.how = "code" /\ Aborted
    THEN /\ result.kind = "request"
         /\ \E why \in {"unparsable", "notStripped"} :
              FirstReason(why) /\ result.chain = <<Message(why)>>
  ELSE /\ result.kind \in DocumentedKind(cause.code)
       /\ Last(result.chain) = IoError(cause.code)
       /\ cause.how = "code" /\ cause.code = "SECURE_FAILURE" =>
            LastFlags(result.chain[1].says)

OtherExplained ==
  /\ cause.how = "stream" =>
       result.kind = "request" /\ Last(result.chain).io = cause.kind
  /\ cause.how = "timeout" => result.kind = "timeout"
  /\ cause.how = "unexpected" => result.kind = "request"
  /\ cause.how = "status" => result.kind = "status" /\ result.status = cause.status
  /\ cause.how = "response" => result.kind = "redirect"

\* A redirect from https to http that a client would have followed is no response.
Downgrade ==
  /\ cause.how = "response" /\ request.follows
  /\ cause.https /\ cause.location = "http" /\ cause.status \in 300..399

\* Of this attempt, and of no earlier one, an error says: the first reason a
\* callback closed the handle for, if one did; else the kind its code is
\* documented to have, with all the TLS flags last reported; or what else ended
\* it, a redirect that was blocked included; and always for which URL
\* (callback_error_to_error, error.rs, translate_blocked_https_downgrade).
FailureExplained ==
  result # None =>
    /\ cause.how = "response" => (result.ok <=> ~ Downgrade)
    /\ ~ result.ok =>
         /\ result.url # None
         /\ IF cause.how \in {"code", "part"} THEN CodeExplained ELSE OtherExplained

\* The certificate challenge that CertlessRedirectRetry answers is known by the
\* shape of its error: no other failure has it, and it has it always.
ChallengeKnown ==
  result # None /\ ~ result.ok /\ result.kind # "status" =>
    (IsClientCertNeeded(result) <=>
       /\ cause.how \in {"code", "part"} /\ cause.code = "CLIENT_AUTH_CERT_NEEDED"
       /\ cause.how = "code" => ~ Aborted)

\* The last value the calls gave a field, or else what the start gives it.
SaidLast(field, otherwise) ==
  LET at == {i \in DOMAIN said : said[i].field = field}
  IN  IF at = {} THEN otherwise ELSE said[Max(at)].value

WasReset ==
  /\ cause.how \in {"code", "part"} /\ cause.code = "CONNECTION_ERROR"
  /\ cause.how = "code" => ~ Aborted

\* What a closure wants to be retried, by what happened.
Wanted(classify) ==
  CASE classify = "nack" -> WasReset
    [] classify = "503" -> cause.how \in {"response", "status"} /\ cause.status = 503
    [] classify = "errors" -> cause.how \notin {"response", "status"} \/ Downgrade

\* An attempt is retried exactly if there are retries left, it consumed no
\* stream, its request is in the scope of the policy and has a URL the closure
\* can be asked about, and the closure last given wants it: never() retries
\* nothing, for_host() only that host and only what its closure wants, the
\* default exactly the connection resets. The budget and the number of retries
\* are the ones last asked for (retry::Builder, classify_result).
RetriedAsAsked ==
  LET start == said[1].value
      classify == SaidLast("classify", IF start = "default" THEN "nack" ELSE None)
  IN  /\ conf.budget = SaidLast("budget", IF start \in Hosts THEN "0.2" ELSE None)
      /\ remaining # None => remaining <= SaidLast("max", 2)
      /\ action # None =>
           (action = "Retryable" <=>
              /\ remaining > 0 /\ cause.how # "stream"
              /\ start \in {"default", request.host} /\ request.uri
              /\ classify # None /\ Wanted(classify))
=============================================================================
