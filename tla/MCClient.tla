------------------------------ MODULE MCClient ------------------------------
(* Instances of Client for TLC: what the constants of its parts are.       *)
EXTENDS Client

(* Environments: none, one proxy with exempt hosts, the other, both. *)
Entry(dot, labels) == [dot |-> dot, labels |-> labels]
MCEnvs ==
  {[http |-> None, https |-> None, noProxy |-> {}],
   [http |-> "e1", https |-> None,
    noProxy |-> {Entry(TRUE, <<"corp">>), Entry(FALSE, <<"corp", "net">>)}],
   [http |-> None, https |-> "e2", noProxy |-> {Entry(FALSE, <<"corp">>)}],
   [http |-> "e1", https |-> "e2", noProxy |-> {Entry(FALSE, <<"*">>)}]}

\* A name, one under it, one that only looks alike, and one with a dot in it.
MCHosts == {<<"corp">>, <<"a", "corp">>, <<"acorp">>, <<"a", "corp", "net">>}

MCProxies == {[url |-> "p", creds |-> None], [url |-> "q", creds |-> "c"]}

-----------------------------------------------------------------------------
(* Requests: defaults for two of the names, URLs without, with an empty    *)
(* and with a query.                                                       *)
MCDefaults == [n \in {"accept", "authorization", "content-type", "x"} |->
                 IF n \in {"content-type", "x"} THEN <<0>> ELSE <<>>]
MCStarts == {None, <<>>, <<0>>}

-----------------------------------------------------------------------------
(* Texts: whole and cut byte order marks; then NUL, `A`, half of a high    *)
(* and half of a low surrogate.                                            *)
MCOpenings == {<<>>, <<239, 187>>, <<239, 187, 191>>, <<255>>, <<254>>,
               <<255, 254>>, <<254, 255>>}
MCFollowing == {0, 65, 216, 220}

-----------------------------------------------------------------------------
(* URLs *)
\* Spellings of a host that are one, and hosts that are none.
Name(chars) == [kind |-> "name", name |-> chars]
UrlHosts ==
  {Name(<<"a">>), Name(<<"%41">>), Name(<<"A">>), Name(<<"ue">>), Name(<<"%C3%BC">>),
   Name(<<"fraction">>), Name(<<"%2F">>), Name(<<"%FF">>), Name(<<>>),
   [kind |-> "v4", name |-> <<"127.0.0.1">>], [kind |-> "v6", name |-> <<"0:0:1">>],
   [kind |-> "vFuture", name |-> <<"v1.A">>], [kind |-> "notV6", name |-> <<"1::2::3">>]}

Rooted(segments) == [rooted |-> TRUE, segments |-> segments]
Relative(segments) == [rooted |-> FALSE, segments |-> segments]

\* A text that varies in its authority, and one that varies in the rest.
UrlText(scheme, userinfo, host, port, path, query, fragment) ==
  [scheme |-> scheme, userinfo |-> userinfo, host |-> host, port |-> port,
   path |-> path, query |-> query, fragment |-> fragment]

Userinfos == {None, <<"u">>, <<"u", "">>, <<"ue", "p", "q">>, <<"", "p">>, <<"">>}

MCTexts ==
  {UrlText(scheme, None, host, port, Relative(<<>>), None, <<"f">>) :
     scheme \in {"http", "HTTPS", "ftp"}, host \in UrlHosts \union {None},
     port \in {None, -1, 80, 443, 8080, 65536}}
  \union {UrlText("http", userinfo, Name(<<"A">>), None, path, query, None) :
     userinfo \in Userinfos, query \in {None, <<>>, <<"ue">>},
     path \in {Relative(<<>>), Rooted(<<"">>), Rooted(<<"x", "..", "ue">>),
               Rooted(<<"x", "">>), Rooted(<<"%zz">>)}}

MCRefs ==
  {UrlText(None, None, None, None, path, query, fragment) :
     path \in {Relative(<<>>), Relative(<<"..", "y">>), Relative(<<".">>),
               Rooted(<<"..", "y", "..">>), Rooted(<<"%zz">>)},
     query \in {None, <<"ue">>}, fragment \in {None, <<"g">>}}
  \union {UrlText(scheme, userinfo, host, None, Rooted(<<"y">>), None, None) :
     scheme \in {None, "https", "http"}, userinfo \in {None, <<"v", "w">>},
     host \in {Name(<<"a">>), Name(<<"b">>)}}
  \union {UrlText("http", None, None, None, Relative(<<"y">>), None, None)}

MCQueries == {None, <<>>, <<"n">>}

-----------------------------------------------------------------------------
(* Failures and heads *)
MCCodes == {"CANNOT_CONNECT", "CONNECTION_ERROR", "SECURE_FAILURE", "TIMEOUT",
            "CLIENT_AUTH_CERT_NEEDED", "CLIENT_CERT_NO_PRIVATE_KEY", "OPERATION_CANCELLED",
            "REDIRECT_FAILED"}

MCStatuses == {200, 99, 1000, 65536 + 200}
MCUrls == {<<>>, <<"u">>, <<"u", "v">>, <<"bad">>}
MCParsable == {<<"u">>, <<"u", "v">>}
MCMine == <<"mine">>

\* Header blocks of up to three lines, where a value tells its line.
Line(kind, name, valid) == [kind |-> kind, name |-> name, valid |-> valid, value |-> 0]
Lines == {Line("status", "", TRUE), Line("no colon", "", TRUE), Line("header", "a", TRUE),
          Line("header", "a", FALSE), Line("header", "b", TRUE)}
MCBlocks ==
  {[i \in DOMAIN lines |-> [lines[i] EXCEPT !.value = i]] : lines \in SeqOf(Lines, 3)}

-----------------------------------------------------------------------------
(* The probe: the bytes of its grids, and what their oracle accepts, ASCII *)
(* and the pairs of two high bytes.                                        *)
MCValues == {0, 27, 40, 48, 57, 65, 127, 128, 129, 142, 161, 187, 191, 239, 254, 255}
MCAccepts(d) == IF Len(d) = 1 THEN d[1] < 128 ELSE \A i \in DOMAIN d : d[i] > 160
=============================================================================
