-------------------------- MODULE RequestCompose --------------------------
(* A request from the RequestBuilder calls that describe it to the header  *)
(* lines WinHTTP is given (request.rs, url.rs, client.rs): errors deferred *)
(* to build(), the client's default headers, what build() injects, the     *)
(* round trip through from_parts, and execute_request's                    *)
(* WinHttpAddRequestHeaders, once per header.                              *)
(* A header value is the number of the call that wrote it. A builder or a  *)
(* request may also be cloned, or pass through an http::Request.           *)
(* Definitions named Bug... are faulty variants of the ones that follow.   *)
EXTENDS Integers, SequencesExt

CONSTANTS
  Defaults,   \* default_headers of the client: values by name
  Queries,    \* queries a URL may start with: None or a sequence of pairs
  MaxWrites,  \* bound on the builder calls between two builds
  MaxBuilds,  \* bound on the builds
  ArrayNulls, \* whether the arrays that are serialized hold nulls
  None,       \* Option::None
  Err         \* Result::Err

VARIABLES
  draft,      \* the RequestBuilder: url (Err or Ok), headers, body, timeout
  request,    \* the Request that build() made, Err, or None before
  sent,       \* the header lines of the WinHTTP request, None before
  writes,     \* history: the calls since the builder was made, on both
  start,      \* history: what the builder was made from, None without one
  builds      \* history: the number of requests built, or made without

composeVars == <<draft, request, sent, writes, start, builds>>

Names == {"accept", "authorization", "content-type", "x"}

\* json() and form() push "Content-Type", header() the lower-case name.
Spellings == Names \union {"Content-Type"}
Lower(name) == IF name = "Content-Type" THEN "content-type" ELSE name

NoHeaders == [n \in Names |-> <<>>]

\* A body is in memory or a stream, by the number of the call that set it.
Bytes(call) == [call |-> call, stream |-> FALSE]
Stream(call) == [call |-> call, stream |-> TRUE]
EmptyBody == Bytes(0)

\* Body::try_clone: a stream cannot be replayed.
Cloneable(body) == body # None => ~ body.stream

\* What build() itself writes: `*/*`, and the URL's userinfo as Basic auth.
AnyType == -1
Basic == -2

-----------------------------------------------------------------------------
(* RequestBuilder *)

\* Url::parse: a URL of http or https with a host, with or without userinfo.
Parsed(userinfo, query) == [userinfo |-> userinfo, query |-> query]

BuilderInit ==
  /\ \E userinfo \in BOOLEAN, query \in Queries :
       /\ draft = [url |-> Parsed(userinfo, query), headers |-> <<>>, body |-> None,
                   timeout |-> None]
       /\ start = [url |-> Parsed(userinfo, query), headers |-> NoHeaders, body |-> None,
                   timeout |-> None]
  /\ request = None
  /\ builds = 0

\* Request::new, or an http::Request as a Request: no builder adds anything.
RequestInit ==
  /\ \E userinfo \in BOOLEAN, query \in Queries :
       request = [url |-> Parsed(userinfo, query), headers |-> NoHeaders,
                  body |-> None, timeout |-> None]
  /\ draft = None
  /\ start = None
  /\ builds = 1

ComposeInit ==
  /\ BuilderInit \/ RequestInit
  /\ sent = None
  /\ writes = <<>>

Write(w) ==
  /\ draft # None
  /\ Len(writes) < MaxWrites
  /\ writes' = Append(writes, w)
  /\ UNCHANGED <<request, sent, start, builds>>

This == Len(writes) + 1

\* header(), bearer_auth(), basic_auth().
Header(name) ==
  /\ Write([op |-> "header", names |-> <<name>>])
  /\ draft' = [draft EXCEPT !.headers = Append(@, <<name, This>>)]

\* headers(): one push per value of the map.
Headers(names) ==
  /\ Write([op |-> "header", names |-> names])
  /\ draft' = [draft EXCEPT !.headers =
       @ \o [i \in DOMAIN names |-> <<names[i], This>>]]

\* A name or value that is no header, or data that does not serialize: the
\* error takes the place of the URL.
Invalid ==
  /\ Write([op |-> "invalid"])
  /\ draft' = [draft EXCEPT !.url = Err]

\* Data of a query or a form, as JSON: an object, or an array of items that
\* should be pairs. What is None is null; a value is the number of the call.
Item(pair, key, value) == [pair |-> pair, key |-> key, value |-> value]
Data(call) ==
  LET one(value) == <<Item(TRUE, 1, value), Item(TRUE, 2, call)>>
      arrays == {<<>>, one(call), <<Item(FALSE, 1, call)>>, <<Item(TRUE, None, call)>>}
  IN  {[shape |-> "object", items |-> one(None)], [shape |-> "scalar", items |-> <<>>]}
      \union {[shape |-> "array", items |-> items] :
                items \in IF ArrayNulls THEN arrays \union {one(None)} ELSE arrays}

EmptyText == 0

\* serialize_form_urlencoded: no pair for a null in an object, an empty value
\* for one in an array.
Serialized(data) ==
  LET value(item) == IF item.value = None THEN EmptyText ELSE item.value
      kept == IF data.shape = "array" THEN data.items
              ELSE SelectSeq(data.items, LAMBDA item : item.value # None)
  IN  IF \/ data.shape = "scalar"
         \/ data.shape = "array" /\ \E i \in DOMAIN kept : ~ kept[i].pair \/ kept[i].key = None
      THEN Err
      ELSE [i \in DOMAIN kept |-> value(kept[i])]

\* json() and form(): data that does not serialize takes the URL's place too.
Payload(data) ==
  /\ Write([op |-> "payload", data |-> data,
            names |-> IF Serialized(data) = Err THEN <<>> ELSE <<"content-type">>])
  /\ draft' = IF Serialized(data) = Err THEN [draft EXCEPT !.url = Err]
              ELSE [draft EXCEPT !.headers = Append(@, <<"Content-Type", This>>),
                                 !.body = Bytes(This)]

RawBody(body) ==
  /\ Write([op |-> "body", body |-> body])
  /\ draft' = [draft EXCEPT !.body = body]

Timeout ==
  /\ Write([op |-> "timeout"])
  /\ draft' = [draft EXCEPT !.timeout = This]

\* set_query on a URL that parsed; `?` alone counts as no query.
Extended(query, pairs) ==
  IF pairs = <<>> THEN (IF query = <<>> THEN None ELSE query)
  ELSE IF query = None THEN pairs
  ELSE query \o pairs

Query(data) ==
  /\ Write([op |-> "query", data |-> data])
  /\ draft' = IF draft.url = Err THEN draft
              ELSE IF Serialized(data) = Err THEN [draft EXCEPT !.url = Err]
              ELSE [draft EXCEPT !.url.query = Extended(@, Serialized(data))]

\* try_clone: the behaviour goes on with the clone, if there is one. A builder
\* whose URL or a header failed has none, nor has one with a stream.
TryClone ==
  /\ Write([op |-> "clone", cloned |-> draft.url # Err /\ Cloneable(draft.body)])
  /\ draft' = IF draft.url = Err \/ ~ Cloneable(draft.body) THEN draft
              ELSE [url |-> draft.url, headers |-> draft.headers, body |-> draft.body,
                    timeout |-> draft.timeout]

-----------------------------------------------------------------------------
(* build(), from_parts() *)

\* Overrides are looked up by the spelling the caller pushed.
BugOverridden(headers, n) == \E i \in DOMAIN headers : headers[i][1] = n
Overridden(headers, n) == \E i \in DOMAIN headers : Lower(headers[i][1]) = n

\* HeaderMap::append for each of the builder's pairs.
Pushed(headers, n) ==
  LET own == SelectSeq(headers, LAMBDA h : Lower(h[1]) = n)
  IN  [i \in DOMAIN own |-> own[i][2]]

Merged(headers) ==
  [n \in Names |-> IF Overridden(headers, n) THEN Pushed(headers, n)
                   ELSE Defaults[n]]

Filled(map, name, value) ==
  IF map[name] = <<>> THEN [map EXCEPT ![name] = <<value>>] ELSE map

\* Accept first, then the userinfo, which leaves the URL in any case.
Finished(d) ==
  LET map == Filled(Merged(d.headers), "accept", AnyType)
  IN  [headers |-> IF d.url.userinfo THEN Filled(map, "authorization", Basic)
                   ELSE map,
       url |-> [d.url EXCEPT !.userinfo = FALSE],
       body |-> d.body,
       timeout |-> d.timeout]

Build ==
  /\ draft # None
  /\ builds < MaxBuilds
  /\ request' = IF draft.url = Err THEN Err ELSE Finished(draft)
  /\ draft' = None
  /\ builds' = builds + 1
  /\ UNCHANGED <<sent, writes, start>>

\* All values of all names, each name's in order.
Pairs(map) ==
  LET names == SetToSeq(Names)
      own(n) == [i \in DOMAIN map[n] |-> <<n, map[n][i]>>]
  IN  FlattenSeq([i \in DOMAIN names |-> own(names[i])])

\* What was injected and defaulted is now the builder's own.
FromParts ==
  /\ request \notin {None, Err}
  /\ draft = None
  /\ sent = None
  /\ builds < MaxBuilds
  /\ draft' = [url |-> request.url, headers |-> Pairs(request.headers),
               body |-> request.body, timeout |-> request.timeout]
  /\ start' = request
  /\ request' = None
  /\ writes' = <<>>
  /\ UNCHANGED <<sent, builds>>

\* A Request becomes an http::Request and a Request again: that has always a
\* body, and nowhere to put the timeout or the userinfo. The URL may be no
\* http::Uri, or the Uri no URL: then the request is gone and there is an error.
ThroughHttp ==
  /\ request \notin {None, Err}
  /\ sent = None
  /\ Len(writes) < MaxWrites
  /\ \E converts \in BOOLEAN :
       /\ writes' = Append(writes, [op |-> "http", converts |-> converts])
       /\ request' = IF ~ converts THEN Err
                     ELSE [request EXCEPT !.timeout = None,
                                          !.url.userinfo = FALSE,
                                          !.body = IF @ = None THEN EmptyBody ELSE @]
  /\ UNCHANGED <<draft, sent, start, builds>>

-----------------------------------------------------------------------------
(* execute(), execute_request() *)

\* WINHTTP_ADDREQ_FLAG_ADD with REPLACE: added, or put in place of the old.
AddRequestHeader(lines, pair) == [lines EXCEPT ![pair[1]] = <<pair[2]>>]

Execute ==
  /\ request \notin {None, Err}
  /\ sent = None
  /\ sent' = FoldLeft(AddRequestHeader, NoHeaders, Pairs(request.headers))
  /\ UNCHANGED <<draft, request, writes, start, builds>>

\* WinHTTP refuses a line: nothing is sent.
ExecuteFails ==
  /\ request \notin {None, Err}
  /\ sent = None
  /\ sent' = Err
  /\ UNCHANGED <<draft, request, writes, start, builds>>

ComposeNext ==
  \/ \E name \in Names : Header(name)
  \/ Headers(<<"x", "x", "content-type">>)
  \/ Invalid
  \/ \E data \in Data(This) : Query(data)
  \/ \E data \in {d \in Data(This) : d.shape # "array"} : Payload(data)
  \/ \E body \in {Bytes(This), Stream(This)} : RawBody(body)
  \/ Timeout
  \/ TryClone
  \/ ThroughHttp
  \/ Build
  \/ FromParts
  \/ Execute
  \/ ExecuteFails

\* Sent, refused, or never built.
ComposeOver == sent # None \/ request = Err
ComposeDone == ComposeOver /\ UNCHANGED composeVars

-----------------------------------------------------------------------------
(* Properties *)

HeaderMap == [Names -> Seq(Int)]

\* The type invariant of the builder, the request and what is sent.
ComposeTypeOK ==
  LET Url == [userinfo : BOOLEAN, query : Seq(Int) \union {None}]
      Body == [call : 0..MaxWrites, stream : BOOLEAN] \union {None}
  IN  /\ draft # None =>
           /\ draft.url = Err \/ draft.url \in Url
           /\ draft.headers \in Seq(Spellings \X Int)
           /\ draft.body \in Body /\ draft.timeout \in 1..MaxWrites \union {None}
      /\ request \in {None, Err} \/ /\ request.headers \in HeaderMap
                                    /\ request.url \in [userinfo : BOOLEAN,
                                                        query : Seq(Int) \union {None}]
                                    /\ request.body \in Body
      /\ sent \in {None, Err} \/ sent \in HeaderMap

WritesTo(n) ==
  FlattenSeq([i \in DOMAIN writes |->
    IF writes[i].op \notin {"header", "payload"} THEN <<>>
    ELSE LET at == SelectSeq(writes[i].names, LAMBDA m : m = n)
         IN  [j \in DOMAIN at |-> i]])

\* The values of a header: what the builder was made from and what was called
\* since, in order, the default only where that is nothing.
Wanted(n) ==
  LET own == start.headers[n] \o WritesTo(n)
      preset == IF own # <<>> THEN own ELSE Defaults[n]
  IN  IF preset # <<>> THEN preset
      ELSE IF n = "accept" THEN <<AnyType>>
      ELSE IF n = "authorization" /\ start.url.userinfo THEN <<Basic>>
      ELSE <<>>

\* A null says nothing.
Said(data) ==
  LET pairs(item) == IF item.value = None THEN <<>> ELSE <<item.value>>
  IN  FlattenSeq([i \in DOMAIN data.items |-> pairs(data.items[i])])

IsError(w) ==
  \/ w.op = "invalid"
  \/ w.op = "http" /\ ~ w.converts
  \/ /\ w.op \in {"payload", "query"}
     /\ \/ w.data.shape = "scalar"
        \/ \E i \in DOMAIN w.data.items : ~ w.data.items[i].pair \/ w.data.items[i].key = None

QueriesWritten == SelectSeq(writes, LAMBDA w : w.op = "query")
WantedQuery ==
  LET old == IF start.url.query = None THEN <<>> ELSE start.url.query
      all == old \o FlattenSeq([i \in DOMAIN QueriesWritten |-> Said(QueriesWritten[i].data)])
  IN  IF all # <<>> THEN all
      ELSE IF QueriesWritten = <<>> THEN start.url.query ELSE None

Written(ops) == {i \in DOMAIN writes : writes[i].op \in ops}
WantedBody ==
  LET bodies == Written({"payload", "body"})
      at == Max(bodies)
  IN  IF bodies # {} THEN (IF writes[at].op = "body" THEN writes[at].body ELSE Bytes(at))
      ELSE IF start.body = None /\ Written({"http"}) # {} THEN EmptyBody
      ELSE start.body
WantedTimeout ==
  IF Written({"http"}) # {} THEN None
  ELSE IF Written({"timeout"}) # {} THEN Max(Written({"timeout"}))
  ELSE start.timeout

\* A clone is refused exactly for an error or a stream before it: of the stream
\* the doc of RequestBuilder::try_clone says nothing, that of Body::try_clone does.
ClonesWhereItCan ==
  \A i \in Written({"clone"}) :
    LET bodies == {j \in Written({"payload", "body"}) : j < i}
        body == IF bodies = {} THEN start.body
                ELSE IF writes[Max(bodies)].op = "body" THEN writes[Max(bodies)].body
                ELSE Bytes(Max(bodies))
    IN  writes[i].cloned <=> /\ \A j \in 1..i : ~ IsError(writes[j])
                             /\ Cloneable(body)

\* A build fails exactly if one of the calls did, whichever came after it, and
\* otherwise the request is what the calls say: every value in order, defaults
\* only for names nobody wrote, the last body and timeout, all queries, and no
\* userinfo left in the URL, from_parts, try_clone and the conversions of an
\* http::Request included, which may fail (RequestBuilder::build,
\* serialize_form_urlencoded). A request made without a builder is sent as it
\* was made. For data with nulls in arrays see NullsSayNothing.
RequestAsCalled ==
  /\ ClonesWhereItCan
  /\ request # None =>
       (request = Err <=> \E i \in DOMAIN writes : IsError(writes[i]))
  /\ request \notin {None, Err} /\ start = None =>
       request.headers = NoHeaders /\ request.body \in {None, EmptyBody}
  /\ request \notin {None, Err} /\ start # None =>
       /\ \A n \in Names : request.headers[n] = Wanted(n)
       /\ request.url = Parsed(FALSE, WantedQuery)
       /\ request.body = WantedBody
       /\ request.timeout = WantedTimeout

\* What the doc of RequestBuilder::form says: the output is serde_urlencoded's,
\* which skips a pair whose value is null wherever it stands. In an array the
\* code gives it an empty value; query() serializes by the same function.
NullsSayNothing ==
  request \notin {None, Err} /\ start # None => request.url.query = WantedQuery

\* What the doc of RequestBuilder::headers says: values of the same name are
\* not overwritten, both are sent. Each line replaces the one before.
BothAreSent ==
  sent \notin {None, Err} => sent = request.headers

=============================================================================
