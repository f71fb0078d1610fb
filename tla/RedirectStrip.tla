---------------------------- MODULE RedirectStrip ----------------------------
(* The redirects WinHTTP follows by itself and the callback that strips the   *)
(* sensitive headers when one of them leaves the origin (src/winhttp.rs,      *)
(* STATUS_REDIRECT).  The callback works under the lock of current_origin,    *)
(* one WinHTTP call per header; the owner may close the handle in between.    *)
(* Origins are compared as Origin does: scheme, host and port together.       *)
(* Definitions named Bug... are faulty variants of the ones that follow them. *)
CONSTANTS
  Origins,    \* the origins redirects lead to
  Home,       \* the origin of the request's URL
  Sensitive   \* SENSITIVE_HEADERS_ON_CROSS_ORIGIN

ASSUME HomeOK == Home \in Origins

VARIABLES
  at,        \* "waiting" for the response, in the "callback", or "over"
  open,      \* whether the handle is open
  aborted,   \* CallbackAbort::is_aborted()
  headers,   \* the sensitive headers still on the handle
  given,     \* those the request was given
  current,   \* the origin of WinHTTP's current URL
  target,    \* of the redirect the callback is told of
  tracked,   \* RequestState.current_origin
  left,      \* headers the callback has yet to remove
  wire       \* the requests sent: [to, headers]

hopVars == <<at, open, aborted, headers, given, current, target, tracked, left, wire>>

StripInit ==
  /\ at = "waiting" /\ open = TRUE /\ aborted = FALSE
  /\ given \in SUBSET Sensitive /\ headers = given
  /\ current = Home /\ target = Home /\ tracked = Home
  /\ left = {}
  /\ wire = {[to |-> Home, headers |-> given]}

\* Every redirect counts as leaving.
BugCrosses(to) == TRUE
Crosses(to) == tracked # to

\* A response redirects, to a URL the callback can parse: to another origin
\* the headers have to be removed first.
Redirect(to) ==
  /\ at = "waiting" /\ open
  /\ at' = "callback" /\ target' = to
  /\ left' = IF Crosses(to) THEN Sensitive ELSE {}
  /\ UNCHANGED <<open, aborted, headers, given, current, tracked, wire>>

\* The abort is noted, the handle stays open.
BugAbort == aborted' = TRUE /\ UNCHANGED open /\ at' = "callback"

\* abort_from_callback: the first abort closes the handle.
Abort == aborted' = TRUE /\ open' = FALSE /\ at' = "over"

\* A redirect to a URL the callback cannot parse, wherever it leads.
RedirectUnparsable(to) ==
  /\ at = "waiting" /\ open
  /\ target' = to
  /\ Abort
  /\ UNCHANGED <<headers, given, current, tracked, left, wire>>

\* A header the handle does not have counts as removed.
RemoveHeader(h) ==
  /\ at = "callback" /\ h \in left /\ open
  /\ headers' = headers \ {h} /\ left' = left \ {h}
  /\ UNCHANGED <<at, open, aborted, given, current, target, tracked, wire>>

\* A header that cannot be removed is passed over.
BugRemovalFails(h) ==
  /\ at = "callback" /\ h \in left
  /\ left' = left \ {h}
  /\ UNCHANGED <<at, open, aborted, headers, given, current, target, tracked, wire>>

RemovalFails(h) ==
  /\ at = "callback" /\ h \in left
  /\ Abort
  /\ left' = {}
  /\ UNCHANGED <<headers, given, current, target, tracked, wire>>

\* The tracked origin stays behind.
BugReturn ==
  /\ at = "callback" /\ left = {}
  /\ at' = IF open THEN "waiting" ELSE "over"
  /\ current' = IF open THEN target ELSE current
  /\ wire' = IF open THEN wire \cup {[to |-> target, headers |-> headers]} ELSE wire
  /\ UNCHANGED <<open, aborted, headers, given, target, tracked, left>>

\* The callback returns; WinHTTP sends the request to the target.
Return ==
  /\ at = "callback" /\ left = {}
  /\ tracked' = target
  /\ at' = IF open THEN "waiting" ELSE "over"
  /\ current' = IF open THEN target ELSE current
  /\ wire' = IF open THEN wire \cup {[to |-> target, headers |-> headers]} ELSE wire
  /\ UNCHANGED <<open, aborted, headers, given, target, left>>

\* The owner closes the handle, be it in the middle of the callback.
OwnerCloses ==
  /\ open /\ at # "over"
  /\ open' = FALSE
  /\ at' = IF at = "callback" THEN at ELSE "over"
  /\ UNCHANGED <<aborted, headers, given, current, target, tracked, left, wire>>

\* The final response is there.
Answered ==
  /\ at = "waiting"
  /\ at' = "over"
  /\ UNCHANGED <<open, aborted, headers, given, current, target, tracked, left, wire>>

StripDone == at = "over" /\ UNCHANGED hopVars

StripNext ==
  \/ \E to \in Origins : Redirect(to) \/ RedirectUnparsable(to)
  \/ \E h \in Sensitive : RemoveHeader(h) \/ RemovalFails(h)
  \/ Return \/ OwnerCloses \/ Answered \/ StripDone

StripSpec == StripInit /\ [][StripNext]_hopVars

-----------------------------------------------------------------------------
(* Properties.                                                               *)

\* Every variable stays in its type; an aborted handle is closed, and no header
\* is left to remove but in the callback.
StripTypeOK ==
  /\ at \in {"waiting", "callback", "over"} /\ open \in BOOLEAN /\ aborted \in BOOLEAN
  /\ given \subseteq Sensitive /\ headers \subseteq given /\ left \subseteq Sensitive
  /\ current \in Origins /\ target \in Origins /\ tracked \in Origins
  /\ wire \subseteq [to : Origins, headers : SUBSET Sensitive]
  /\ aborted => ~open
  /\ at # "callback" => left = {}

\* No sensitive header reaches another origin than the request's own, over any
\* number of hops, failed removals and unparsable targets (the comment on
\* strip_sensitive_headers_on_cross_origin_redirect).
SecretsStayHome == \A m \in wire : m.headers # {} => m.to = Home

\* Redirects that never leave the origin lose no header: credentials survive
\* a redirect to the same site.
HeadersKeptAtHome ==
  (\A m \in wire : m.to = Home) => \A m \in wire : m.headers = given

\* Between callbacks the tracked origin is that of the hop WinHTTP is on
\* ("Origin of the current hop", RequestState.current_origin).
OriginTracked == at = "waiting" => tracked = current

\* An aborted request is sent nowhere any more.
AbortStopsHops == [][aborted => aborted' /\ wire' = wire]_hopVars
=============================================================================
