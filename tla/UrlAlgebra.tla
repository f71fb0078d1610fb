----------------------------- MODULE UrlAlgebra -----------------------------
(* The Url of url.rs: what parse_impl makes of a text, and what join,      *)
(* set_query, take_decoded_userinfo and the conversions from and to        *)
(* http::Uri make of a Url. A text is the record of the RFC 3986           *)
(* components that fluent-uri (external) splits it into: None where one is *)
(* absent, a path as [rooted, segments], userinfo as its parts between     *)
(* colons. A Url keeps fields and, computed from them, two texts.          *)
(* Definitions named Bug... are faulty variants of the ones that follow.   *)
EXTENDS Integers, SequencesExt, Option

CONSTANTS
  Texts,     \* absolute references that are parsed
  Refs,      \* references that are joined
  Queries,   \* queries that set_query is given
  HaveIcu,   \* whether the system has an ICU
  MaxPort,   \* u16::MAX
  MaxSteps   \* bound on the operations on a Url

VARIABLES
  url,       \* the Url, or the ParseError of its text
  last,      \* history: the last operation, its operand and its result
  written,   \* history: where userinfo was written: [userinfo, origin]
  steps      \* history: the number of operations

urlVars == <<url, last, written, steps>>

Failed(e) == [error |-> e]
IsFailed(r) == DOMAIN r = {"error"}

-----------------------------------------------------------------------------
(* Characters. A letter stands for itself; "ue" is a non-ASCII letter,     *)
(* "fraction" a non-ASCII sign that UTS #46 maps to a slash, "%FF" an      *)
(* escape of no UTF-8.                                                     *)

Lower(s) == CASE s = "A" -> "a" [] s = "HTTP" -> "http" [] s = "HTTPS" -> "https"
              [] OTHER -> s
Decoded(c) == CASE c = "%41" -> "A" [] c = "%2F" -> "/" [] c = "%C3%BC" -> "ue"
                [] OTHER -> c

\* to_uri: an IRI's characters become escapes.
Encoded(s) == IF s = "ue" THEN "%C3%BC" ELSE s
EncodedAll(t) == IF t = None THEN None ELSE [i \in DOMAIN t |-> Encoded(t[i])]
EncodedPath(p) == [p EXCEPT !.segments = EncodedAll(@)]

\* idna_to_ascii, if there is an ICU.
Punycode(c) == CASE c = "ue" -> "xn--" [] c = "fraction" -> "/" [] OTHER -> Lower(c)

-----------------------------------------------------------------------------
(* parse_impl *)

\* percent_decode, the ASCII that may stand in a name, then ICU if needed.
NormalizeRegisteredName(name) ==
  LET decoded == [i \in DOMAIN name |-> Decoded(name[i])]
      ascii == [i \in DOMAIN decoded |-> Punycode(decoded[i])]
  IN  IF "%FF" \in ToSet(name) THEN Failed("InvalidUrl")
      ELSE IF "/" \in ToSet(decoded) THEN Failed("InvalidDomainCharacter")
      ELSE IF {"ue", "fraction"} \cap ToSet(decoded) = {}
        THEN [kind |-> "name", name |-> [i \in DOMAIN decoded |-> Lower(decoded[i])]]
      ELSE IF ~ HaveIcu \/ "/" \in ToSet(ascii) THEN Failed("IdnaError")
      ELSE [kind |-> "name", name |-> ascii]

\* Addresses are printed in their canonical form, those of a later version as
\* they were written.
NormalizeHost(host) ==
  CASE host.kind = "name" -> NormalizeRegisteredName(host.name)
    [] host.kind = "v6" -> [host EXCEPT !.name = <<"::1">>]
    [] OTHER -> host

DefaultPort(scheme) == IF scheme = "https" THEN 443 ELSE 80

\* An empty port, -1, counts as none.
PortOf(text, scheme) ==
  IF text.port \in {None, -1} THEN DefaultPort(scheme) ELSE text.port

NoPath == [rooted |-> FALSE, segments |-> <<>>]
Root == [rooted |-> TRUE, segments |-> <<"">>]

NoUser == [username |-> "", password |-> None]

\* What the constants have to be: texts as RFC 3986 splits them, a path beside an
\* authority being empty or rooted; queries that are encoded already. What takes
\* a letter's place is a letter too, and None is no part of a text.
HostKinds == {"name", "v4", "v6", "vFuture", "notV6"}
TextOK(text) ==
  /\ text \in [scheme : STRING \union {None}, userinfo : Seq(STRING) \union {None},
              host : [kind : HostKinds, name : Seq(STRING)] \union {None},
              port : Nat \union {-1, None},
              path : [rooted : BOOLEAN, segments : Seq(STRING)],
              query : Seq(STRING) \union {None}, fragment : Seq(STRING) \union {None}]
  /\ text.userinfo # <<>>
  /\ text.host # None => text.path = NoPath \/ text.path.rooted
LettersOK == {"a", "http", "https", "A", "/", "ue", "xn--", "%C3%BC", "::1"} \subseteq STRING
NoneIsNoText == None \notin Nat \union Seq(STRING) \union [kind : HostKinds, name : Seq(STRING)]
UrlConstantsOK ==
  /\ \A text \in Texts : TextOK(text) /\ text.scheme # None
  /\ \A ref \in Refs : TextOK(ref)
  /\ \A query \in Queries : EncodedAll(query) = query
  /\ MaxPort \in Nat /\ LettersOK /\ NoneIsNoText

\* split_once(':'), and `user:` has no password.
Userinfo(parts) ==
  IF parts = None THEN NoUser
  ELSE [username |-> parts[1],
        password |-> IF Tail(parts) \in {<<>>, <<"">>} THEN None ELSE Tail(parts)]

\* The texts a Url keeps, each computed from its fields.
PathAndQuery(u) == [path |-> u.path, query |-> u.query]
Port(u) == IF u.explicitPort THEN u.port ELSE None
Serialized(u) ==
  [scheme |-> u.scheme, userinfo |-> None, host |-> u.host, port |-> Port(u),
   path |-> u.path, query |-> u.query, fragment |-> u.fragment]

RebuildSerialized(u) ==
  [u EXCEPT !.pathAndQuery = PathAndQuery(u), !.serialized = Serialized(u)]

-----------------------------------------------------------------------------

\* Iri::parse and map_fluent_error: `%zz` is no escape.
IriErrors(text) ==
  IF text.host # None /\ text.host.kind = "notV6" THEN {"InvalidIpv6Address"}
  ELSE IF "%zz" \in ToSet(text.path.segments) THEN {"InvalidUrl"}
  ELSE {}

\* The checks of parse_impl, the first that fails first.
ParseErrors(text) ==
  LET host == NormalizeHost(text.host)
  IN  IF IriErrors(text) # {} THEN IriErrors(text)
      ELSE IF Lower(text.scheme) \notin {"http", "https"} THEN {"UnsupportedScheme"}
      ELSE IF text.host = None \/ text.host.name = <<>> THEN {"EmptyHost"}
      ELSE IF IsFailed(host) THEN {host.error}
      ELSE IF text.port # None /\ text.port > MaxPort THEN {"InvalidPort"}
      ELSE {}

Fields(text) ==
  LET scheme == Lower(text.scheme)
      port == PortOf(text, scheme)
      path == IF text.path = NoPath THEN Root ELSE EncodedPath(text.path)
  IN  [scheme |-> scheme, isHttps |-> scheme = "https",
       host |-> NormalizeHost(text.host), port |-> port,
       explicitPort |-> port # DefaultPort(scheme),
       user |-> Userinfo(EncodedAll(text.userinfo)), path |-> path,
       query |-> EncodedAll(text.query), fragment |-> EncodedAll(text.fragment),
       pathAndQuery |-> None, serialized |-> None]

Parse(text) ==
  IF ParseErrors(text) # {} THEN Failed(CHOOSE e \in ParseErrors(text) : TRUE)
  ELSE RebuildSerialized(Fields(text))

-----------------------------------------------------------------------------
(* join *)

\* fluent-uri's resolve_against, by RFC 3986, 5.2.
RemoveDotSegments(path) ==
  LET step(out, s) ==
        IF s = ".." THEN (IF out = <<>> THEN out ELSE Front(out))
        ELSE IF s = "." THEN out ELSE Append(out, s)
      kept == FoldLeft(step, <<>>, path.segments)
      ends == path.segments # <<>> /\ Last(path.segments) \in {".", ".."}
  IN  IF path = NoPath THEN path
      ELSE [path EXCEPT !.segments = IF ends THEN Append(kept, "") ELSE kept]

Merge(base, path) ==
  [rooted |-> TRUE, segments |-> Front(base.segments) \o path.segments]

ResolveAgainst(ref, base) ==
  IF ref.scheme # None THEN [ref EXCEPT !.path = RemoveDotSegments(@)]
  ELSE IF ref.host # None
    THEN [ref EXCEPT !.scheme = base.scheme, !.path = RemoveDotSegments(@)]
  ELSE [base EXCEPT
    !.path = IF ref.path = NoPath THEN @
             ELSE RemoveDotSegments(IF ref.path.rooted THEN ref.path
                                    ELSE Merge(@, ref.path)),
    !.query = IF ref.path = NoPath /\ ref.query = None THEN @ ELSE ref.query,
    !.fragment = ref.fragment]

\* A reference to the same authority is known by its text being relative.
BugInheritsUserinfo(ref) == ref.scheme = None
InheritsUserinfo(ref) == ref.scheme = None /\ ref.host = None

\* Only the query and the fragment change, and userinfo stays.
JoinHere(u, ref) ==
  RebuildSerialized([u EXCEPT
    !.query = IF ref.query = None THEN @ ELSE EncodedAll(ref.query),
    !.fragment = EncodedAll(ref.fragment)])

Join(u, ref) ==
  LET joined == Parse(ResolveAgainst(ref, [u.serialized EXCEPT !.fragment = None]))
  IN  IF IriErrors(ref) # {} THEN Failed(CHOOSE e \in IriErrors(ref) : TRUE)
      ELSE IF InheritsUserinfo(ref) /\ ref.path = NoPath THEN JoinHere(u, ref)
      ELSE IF IsFailed(joined) \/ ~ InheritsUserinfo(ref) THEN joined
      ELSE [joined EXCEPT !.user = u.user]

-----------------------------------------------------------------------------
(* The operations *)

UrlOrigin(u) == [scheme |-> u.scheme, host |-> u.host, port |-> u.port]

\* Where a text that names an authority puts its userinfo.
WrittenIn(text) ==
  LET u == Parse(text)
  IN  IF IsFailed(u) THEN {} ELSE {[user |-> u.user, origin |-> UrlOrigin(u)]}

UrlInit ==
  \E text \in Texts :
    /\ url = Parse(text)
    /\ last = [op |-> "parse", of |-> text, with |-> None, is |-> Parse(text)]
    /\ written = WrittenIn(text)
    /\ steps = 0

\* An operation on the Url at hand, its result, and what the Url is then.
Operation(op, with, result, then) ==
  /\ ~ IsFailed(url)
  /\ steps < MaxSteps
  /\ steps' = steps + 1
  /\ last' = [op |-> op, of |-> url, with |-> with, is |-> result]
  /\ url' = then

\* join leaves the Url itself alone: a caller that fails keeps its own.
JoinRef(ref) ==
  LET joined == Join(url, ref)
  IN  /\ Operation("join", ref, joined, IF IsFailed(joined) THEN url ELSE joined)
      /\ written' = written \union
           IF ref.host = None THEN {}
           ELSE WrittenIn([ref EXCEPT !.scheme = IF @ = None THEN url.scheme ELSE @])

\* The query is stored, the texts are left as they were.
BugSetQuery(query) ==
  LET set == [url EXCEPT !.query = query]
  IN  Operation("set_query", query, set, set) /\ UNCHANGED written

SetQuery(query) ==
  LET set == RebuildSerialized([url EXCEPT !.query = query])
  IN  Operation("set_query", query, set, set) /\ UNCHANGED written

\* take_decoded_userinfo: RequestBuilder::build makes it Basic credentials.
TakeUserinfo ==
  /\ Operation("take", None, url.user, [url EXCEPT !.user = NoUser])
  /\ UNCHANGED written

\* to_http_uri and from_http_uri: a Uri has neither userinfo nor fragment.
HttpUri(u) ==
  [scheme |-> u.scheme, userinfo |-> None, host |-> u.host, port |-> Port(u),
   path |-> u.pathAndQuery.path, query |-> u.pathAndQuery.query,
   fragment |-> None]

ThroughHttpUri ==
  LET back == Parse(HttpUri(url))
  IN  Operation("http_uri", None, back, back) /\ UNCHANGED written

UrlNext ==
  \/ \E ref \in Refs : JoinRef(ref)
  \/ \E query \in Queries : SetQuery(query)
  \/ TakeUserinfo
  \/ ThroughHttpUri

UrlOver == IsFailed(url) \/ steps = MaxSteps
UrlDone == UrlOver /\ UNCHANGED urlVars

-----------------------------------------------------------------------------
(* Properties *)

ParseErrorKinds == {"EmptyHost", "IdnaError", "InvalidPort", "InvalidIpv6Address",
                    "InvalidDomainCharacter", "InvalidUrl", "UnsupportedScheme"}

\* The type invariant of a Url and of the error in its place.
UrlTypeOK ==
  /\ steps \in 0..MaxSteps
  /\ IF IsFailed(url) THEN url.error \in ParseErrorKinds
     ELSE /\ url.scheme \in {"http", "https"}
          /\ url.host.kind \in HostKinds \ {"notV6"} /\ url.host.name # <<>>
          /\ url.port \in 0..MaxPort
          /\ url.path.rooted /\ url.path.segments # <<>>
          /\ url.user.password = None \/ url.user.password # <<>>

\* The text a Url would have if it showed its userinfo.
FullText(u) ==
  [u.serialized EXCEPT !.userinfo =
     IF u.user = NoUser THEN None
     ELSE <<u.user.username>> \o IF u.user.password = None THEN <<>> ELSE u.user.password]

WithoutUserinfo(u) == [u EXCEPT !.user = NoUser]

\* After any sequence of operations the two texts of a Url are those of its
\* fields: what is shown and compared, parsed again, is the Url but for its
\* userinfo, and what is sent to the server is what is shown (rebuild_serialized).
TextsAgree ==
  ~ IsFailed(url) =>
    /\ Parse(url.serialized) = WithoutUserinfo(url)
    /\ url.pathAndQuery = [path |-> url.serialized.path, query |-> url.serialized.query]

\* join, which works on a text without userinfo and takes a short cut for an
\* empty path, gives what RFC 3986 makes of the whole text of the base; a way
\* through http::Uri and back loses the userinfo and the fragment only.
JoinResolves ==
  /\ last.op = "join" /\ IriErrors(last.with) = {} =>
       last.is = Parse(ResolveAgainst(last.with, [FullText(last.of) EXCEPT !.fragment = None]))
  /\ last.op = "http_uri" =>
       last.is = RebuildSerialized([WithoutUserinfo(last.of) EXCEPT !.fragment = None])

\* Credentials are of the very origin they were written for, however a Url was
\* joined, and once taken for the Authorization header they are gone (join,
\* take_decoded_userinfo).
CredentialsStay ==
  /\ ~ IsFailed(url) /\ url.user # NoUser =>
       [user |-> url.user, origin |-> UrlOrigin(url)] \in written
  /\ last.op = "take" => url.user = NoUser

=============================================================================
