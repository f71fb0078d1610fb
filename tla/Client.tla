-------------------------------- MODULE Client --------------------------------
(* What a client does around its exchanges: setting up, composing a        *)
(* request, decoding a text, parsing and joining URLs, explaining a        *)
(* failure and retrying it, querying a response's head, reading its body,  *)
(* converting by the system's tables; and the tool that measures the       *)
(* converters. None of them writes what another reads, so a behaviour is   *)
(* one of Parts, and the variables of the others stay None.                *)
EXTENDS ClientSetup, UrlAlgebra, TextDecode

CONSTANTS
  Parts,      \* what is explored, see Init
  Defaults, Starts, MaxWrites, MaxBuilds, ArrayNulls, Err, \* RequestCompose
  Origins, Codes, Flags, MaxSaid,                        \* Verdict
  Statuses, Versions, Long, Blocks, Urls, Parsable, Mine, Nul, \* ResponseHead
  MaxChunks, MaxReads,                                   \* BodyUse
  Threads, MaxI32, MaxUnits,                             \* SystemText
  Values, Leads, Digits, DefaultSamples, Chosen, MaxRows, Accepts(_) \* ParityProbe

VARIABLES
  draft, request, sent, writes, start, builds,
  asking, wire, buf, parsed, head,
  resp, holder, reading, client, server, late, adrift, got, lost, total,
  dll, table, pc, job, open, opened, answer,
  cli, phase, label, plan, groups, rows, scored, made, stats,
  conf, asked, state, result, action, remaining, said, heard, cause,
  part        \* which part this behaviour is

requestVars == <<draft, request, sent, writes, start, builds>>
verdictVars == <<conf, asked, state, result, action, remaining, said, heard, cause>>
headVars == <<asking, wire, buf, parsed, head>>
bodyVars == <<resp, holder, reading, client, server, late, adrift, got, lost, total>>
systemVars == <<dll, table, pc, job, open, opened, answer>>
probeVars == <<cli, phase, label, plan, groups, rows, scored, made, stats>>
vars == <<setupVars, requestVars, textVars, urlVars, verdictVars, headVars,
          bodyVars, systemVars, probeVars, part>>

\* Where two parts give one name to different things, it is told apart here:
\* Queries is of URLs, Hosts of proxied requests, request of RequestCompose.
\* Following are the bytes of a text, DefaultSamples the default number of samples.
Compose == INSTANCE RequestCompose WITH Queries <- Starts
Reached == INSTANCE Verdict WITH Hosts <- Origins, request <- asked
Answered == INSTANCE ResponseHead WITH stage <- asking
Read == INSTANCE BodyUse
Converted == INSTANCE SystemText

ASSUME PartsOK ==
  /\ UrlConstantsOK
  /\ TextConstantsOK
  /\ Reached!ConstantsOK
  /\ Answered!ConstantsOK
  /\ Read!ConstantsOK
  /\ Converted!ConstantsOK

\* What decode_body's tables say of each charset they have a converter for.
Converter(cp) ==
  [nls |-> IF cp \in IcuRequired THEN None ELSE cp,
   icu |-> IF cp \in IcuRequired \union IcuPreferred
           THEN (CHOOSE c \in RequiredConverters \union PreferredConverters : c[1] = cp)[2]
           ELSE None]
Routed == {c \in Charsets \ {Unknown} :
             Codepage[c] \in Nls \union IcuRequired \union IcuPreferred}

Probe == INSTANCE ParityProbe WITH
  stage <- phase, Default <- DefaultSamples, BomOf <- BomOf,
  Native <- [c \in Routed |-> Converter(Codepage[c])]

SetupUnset ==
  env = None /\ builder = None /\ session = None /\ stage = None
  /\ route = None /\ calls = None
RequestUnset ==
  draft = None /\ request = None /\ sent = None /\ writes = None
  /\ start = None /\ builds = None
TextUnset ==
  charset = None /\ icu = None /\ body = None /\ failed = None /\ reader = None
UrlUnset == url = None /\ last = None /\ written = None /\ steps = None
VerdictUnset ==
  conf = None /\ asked = None /\ state = None /\ result = None /\ action = None
  /\ remaining = None /\ said = None /\ heard = None /\ cause = None
HeadUnset ==
  asking = None /\ wire = None /\ buf = None /\ parsed = None /\ head = None
BodyUnset ==
  resp = None /\ holder = None /\ reading = None /\ client = None /\ server = None
  /\ late = None /\ adrift = None /\ got = None /\ lost = None /\ total = None
SystemUnset ==
  dll = None /\ table = None /\ pc = None /\ job = None /\ open = None
  /\ opened = None /\ answer = None
ProbeUnset ==
  cli = None /\ phase = None /\ label = None /\ plan = None /\ groups = None
  /\ rows = None /\ scored = None /\ made = None /\ stats = None

Init ==
  /\ part \in Parts
  /\ IF part = "setup" THEN SetupInit ELSE SetupUnset
  /\ IF part = "request" THEN Compose!ComposeInit ELSE RequestUnset
  /\ IF part = "text" THEN TextInit ELSE TextUnset
  /\ IF part = "url" THEN UrlInit ELSE UrlUnset
  /\ IF part = "verdict" THEN Reached!VerdictInit ELSE VerdictUnset
  /\ IF part = "head" THEN Answered!HeadInit ELSE HeadUnset
  /\ IF part = "body" THEN Read!Init ELSE BodyUnset
  /\ IF part = "system" THEN Converted!Init ELSE SystemUnset
  /\ IF part = "probe" THEN Probe!ProbeInit ELSE ProbeUnset

\* A step of one part leaves the variables of the others alone.
Only(p) ==
  /\ part = p /\ UNCHANGED part
  /\ IF p = "setup" THEN TRUE ELSE UNCHANGED setupVars
  /\ IF p = "request" THEN TRUE ELSE UNCHANGED requestVars
  /\ IF p = "text" THEN TRUE ELSE UNCHANGED textVars
  /\ IF p = "url" THEN TRUE ELSE UNCHANGED urlVars
  /\ IF p = "verdict" THEN TRUE ELSE UNCHANGED verdictVars
  /\ IF p = "head" THEN TRUE ELSE UNCHANGED headVars
  /\ IF p = "body" THEN TRUE ELSE UNCHANGED bodyVars
  /\ IF p = "system" THEN TRUE ELSE UNCHANGED systemVars
  /\ IF p = "probe" THEN TRUE ELSE UNCHANGED probeVars

Next ==
  \/ Only("setup") /\ SetupNext
  \/ Only("request") /\ (Compose!ComposeNext \/ Compose!ComposeDone)
  \/ Only("text") /\ (TextNext \/ TextDone)
  \/ Only("url") /\ (UrlNext \/ UrlDone)
  \/ Only("verdict") /\ (Reached!VerdictNext \/ Reached!VerdictDone)
  \/ Only("head") /\ (Answered!HeadNext \/ Answered!HeadDone)
  \/ Only("body") /\ (Read!Use \/ Read!Done)
  \/ Only("system") /\ (Converted!Convert \/ Converted!Done)
  \/ Only("probe") /\ (Probe!ProbeNext \/ Probe!ProbeDone)

Spec == Init /\ [][Next]_vars

-----------------------------------------------------------------------------
(* The properties of the parts, each in the behaviours of its part. *)

\* Every variable holds what its type says (all the parts' modules).
TypeOK ==
  /\ part = "setup" => SetupTypeOK
  /\ part = "request" => Compose!ComposeTypeOK
  /\ part = "text" => TextTypeOK
  /\ part = "url" => UrlTypeOK
  /\ part = "verdict" => Reached!VerdictTypeOK
  /\ part = "head" => Answered!HeadTypeOK
  /\ part = "body" => Read!TypeOK
  /\ part = "system" => Converted!TypeOK
  /\ part = "probe" => Probe!ProbeTypeOK

\* A request takes the proxy the caller's words and the environment say for its
\* scheme, with credentials only for the proxy they were given for; a Client has a whole
\* session with the options asked for, a failed build none; and phase timeouts
\* are finite if set and never early (proxy.rs, build(), open, build_session).
SetupAsAsked ==
  part = "setup" => RoutesByHistory /\ FiniteTimeouts /\ BuiltWhole /\ OptionsAsAsked

\* The request is what the builder's calls say, or their error (build()).
RequestAsCalled == part = "request" => Compose!RequestAsCalled

\* The text is WHATWG's, by the decoder the documentation says (decode_body).
TextAsDocumented == part = "text" => DecodedAsDocumented

\* The texts of a Url are those of its fields, and join is RFC 3986's
\* resolution of its whole text (rebuild_serialized, Url::join).
UrlAsWritten == part = "url" => TextsAgree /\ JoinResolves

\* Credentials stay with the origin they were written for (Url::join).
UserinfoStays == part = "url" => CredentialsStay

\* An error says what this attempt failed of (callback_error_to_error, error.rs).
FailuresExplained ==
  part = "verdict" => Reached!FailureExplained /\ Reached!ChallengeKnown

\* A retry is what the policy's calls ask for (retry::Builder, classify_result).
RetriedAsAsked == part = "verdict" => Reached!RetriedAsAsked

\* What a response says is what WinHTTP received (execute_request).
HeadAsReceived == part = "head" => Answered!HeadAsReceived

\* Whoever reads a body is told the same, and nothing is lost but by a read
\* that was given up (response.rs, body.rs).
BodyDelivered == part = "body" => Read!BodyDelivered

\* icu.dll stays loaded for whoever calls into it, and NLS stands in only where
\* ICU is not there (abi/mod.rs, abi/encoding.rs, abi/idna.rs).
SystemTextSound == part = "system" => Converted!SystemTextSound

\* The probe measures decode_body's routes, on inputs that reach them, and
\* counts each once for what it is (encoding-parity).
ProbeSound == part = "probe" => Probe!ProbeSound

\* no_proxy() keeps detected system proxies out (ClientBuilder::no_proxy).
NoProxyDetected == part = "setup" => NothingDetected

\* A proxy for one scheme is left to it (ProxyKind).
OtherTrafficSpared == part = "setup" => OnlyItsTraffic

\* A null of serialized data says nothing (RequestBuilder::form, query).
NullsSkipped == part = "request" => Compose!NullsSayNothing

\* Repeated headers are all sent (RequestBuilder::headers).
RepeatedHeadersSent == part = "request" => Compose!BothAreSent
=============================================================================
