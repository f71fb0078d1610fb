---------------------------- MODULE ClientSetup ----------------------------
(***************************************************************************)
(* How a Client comes to be and which proxy its requests take: the calls   *)
(* of ClientBuilder (client.rs) merge explicit proxies into the            *)
(* environment's (proxy.rs) and store settings, build() opens a WinHTTP    *)
(* session one option at a time (WinHttpSession::open), and                *)
(* execute_request resolves a proxy for each request and overrides the     *)
(* session's where it differs.                                             *)
(* Definitions named Bug... are faulty variants of the ones that follow.   *)
(***************************************************************************)
EXTENDS Integers, FiniteSets, SequencesExt, Option

CONSTANTS
  Envs,        \* environments: [http, https, noProxy], read once by from_env
  Proxies,     \* what callers hand to proxy(): [url, creds]
  Hosts,       \* target hosts, as sequences of labels
  Delays,      \* durations callers set, of which PerMs make 1 ms
  PerMs, MaxMs, \* nanoseconds in a millisecond and i32::MAX, scaled down
  ConnectMs,   \* the connect timeout of a client that sets none, 60_000 ms
  Limits,      \* numbers of redirects callers allow, of which
  MaxU32,      \* u32::MAX, scaled down, is the largest kept
  MaxCalls,    \* bound on the calls about proxies in a behaviour
  MaxSettings  \* bound on the others

ASSUME ScaleOK == /\ PerMs \in Nat \ {0} /\ MaxMs \in Nat \ {0}
                  /\ ConnectMs \in 1..MaxMs
                  /\ Delays \subseteq Nat /\ Limits \subseteq Nat
                  /\ MaxU32 \in Nat /\ MaxU32 >= 10

VARIABLES
  env,         \* HTTP_PROXY, HTTPS_PROXY and NO_PROXY
  builder,     \* fields of ClientBuilder, and of SessionConfig once building
  session,     \* the WinHTTP session: its handle and what was set on it
  stage,       \* building, opening, built or failed
  route,       \* the last request: its target, and what it was sent with
  calls        \* history: the calls made of the builder, in order

setupVars == <<env, builder, session, stage, route, calls>>

Schemes == {"http", "https"}
Kinds == {"all", "http", "https"}

\* redirect::Policy::none and limited, which saturates; the default is 10.
Never == [follow |-> FALSE, max |-> 0]
Limited(n) == [follow |-> TRUE, max |-> IF n > MaxU32 THEN MaxU32 ELSE n]
DefaultPolicy == Limited(10)

\* What a setter stores, by field. send_timeout and read_timeout are handled
\* alike: both stand in "stall"; what is stored untouched, in "kept".
Settings ==
  [connect |-> Delays, stall |-> Delays, conns |-> {1, 2}, http1 |-> {TRUE},
   redirect |-> {Never} \union {Limited(n) : n \in Limits},
   httpsOnly |-> BOOLEAN, anyCert |-> BOOLEAN, kept |-> {1}]
Phases == {"connect", "stall"}
Unset ==
  [f \in DOMAIN Settings |-> IF f \in {"http1", "httpsOnly", "anyCert"} THEN FALSE ELSE None]

-----------------------------------------------------------------------------
(* ProxyConfig *)

\* Named, Direct and Automatic, and what WinHTTP itself may do: "system".
Named(p) == [how |-> "named", proxy |-> p]
Bare(how) == [how |-> how, proxy |-> None]

\* An entry of NO_PROXY: "*", or labels with or without a leading dot.
ParseNoProxy(entries) ==
  {IF e.labels = <<"*">> THEN [kind |-> "wildcard", labels |-> <<>>]
   ELSE [kind |-> IF e.dot \/ Len(e.labels) > 1 THEN "suffix" ELSE "exact",
         labels |-> e.labels] : e \in entries}

Matches(pattern, host) ==
  \/ pattern.kind = "wildcard"
  \/ pattern.labels = host
  \/ pattern.kind = "suffix" /\ IsSuffix(pattern.labels, host)

FromUrl(url) == IF url = None THEN None ELSE [url |-> url, creds |-> None]

FromEnv == [http |-> FromUrl(env.http), https |-> FromUrl(env.https),
            noProxy |-> ParseNoProxy(env.noProxy)]
NoConfig == [http |-> None, https |-> None, noProxy |-> {}]

\* What a configuration is made of; None is none, and Proxies are these.
ProxyChoices ==
  [url : {p.url : p \in Proxies} \union {None}
           \union {e.http : e \in Envs} \union {e.https : e \in Envs},
   creds : {p.creds : p \in Proxies} \union {None}]
Configs ==
  [http : ProxyChoices \union {None}, https : ProxyChoices \union {None},
   noProxy : {ParseNoProxy(e.noProxy) : e \in Envs} \union {{}}]

ASSUME ProxiesOK == Proxies \subseteq ProxyChoices /\ None \notin Configs

\* The schemes a Proxy::all, Proxy::http or Proxy::https covers.
Covers(kind) == IF kind = "all" THEN Schemes ELSE {kind}

\* A proxy without credentials keeps those of the one it replaces.
BugApplyTo(kind, p, config) ==
  [f \in DOMAIN config |->
     IF f \notin Covers(kind) THEN config[f]
     ELSE IF p.creds = None /\ config[f] # None
          THEN [config[f] EXCEPT !.url = p.url]
     ELSE p]

\* Url and credentials are replaced together.
ApplyTo(kind, p, config) ==
  [f \in DOMAIN config |-> IF f \in Covers(kind) THEN p ELSE config[f]]

Resolve(config, host, scheme) ==
  IF \E pattern \in config.noProxy : Matches(pattern, host) THEN Bare("direct")
  ELSE IF config[scheme] # None THEN Named(config[scheme])
  ELSE Bare("automatic")

-----------------------------------------------------------------------------
(* ClientBuilder *)

SetupInit ==
  /\ env \in Envs
  /\ builder = [config |-> None, error |-> FALSE, settings |-> Unset]
  /\ session = [handle |-> "none", tried |-> 0, set |-> <<>>, proxy |-> None]
  /\ stage = "building"
  /\ route = None
  /\ calls = <<>>

\* Bound: calls about proxies and settings mix only one with one.
Explored(history) ==
  LET proxies == Cardinality({i \in DOMAIN history : history[i].call # "setting"})
      settings == Len(history) - proxies
  IN  proxies <= MaxCalls /\ settings <= MaxSettings /\ proxies * settings <= 1

Call(c) ==
  /\ stage = "building"
  /\ Explored(Append(calls, c))
  /\ calls' = Append(calls, c)
  /\ UNCHANGED <<env, session, stage, route>>

\* config.get_or_insert_with(from_env), then apply_to.
AddProxy(kind, p) ==
  /\ Call([call |-> "proxy", kind |-> kind, proxy |-> p])
  /\ builder' = [builder EXCEPT !.config =
       ApplyTo(kind, p, IF @ = None THEN FromEnv ELSE @)]

NoProxy ==
  /\ Call([call |-> "no_proxy"])
  /\ builder' = [builder EXCEPT !.config = NoConfig]

UserAgentInvalid ==
  /\ Call([call |-> "setting", field |-> "user_agent"])
  /\ builder' = [builder EXCEPT !.error = TRUE]

\* connect_timeout(), redirect(), https_only() and so on.
Setter(field, value) ==
  /\ Call([call |-> "setting", field |-> field, value |-> value])
  /\ builder' = [builder EXCEPT !.settings[field] = value]

\* The setters that are there for compatibility with reqwest alone.
NoOp ==
  /\ Call([call |-> "setting", field |-> "none"])
  /\ UNCHANGED builder

-----------------------------------------------------------------------------
(* build() and WinHttpSession::open *)

\* Zero stays zero, which is WinHTTP's infinity, and nothing saturates.
BugUncapped(d) == (d + PerMs - 1) \div PerMs

\* winhttp_timeout_ms: rounded up, never WinHTTP's 0 for infinity, saturated.
TimeoutMs(d) ==
  LET up == (d + PerMs - 1) \div PerMs
      least == IF up = 0 THEN 1 ELSE up
  IN  IF least > MaxMs THEN MaxMs ELSE least

\* Unless asked otherwise, a stalled phase never times out.
PhaseMs(phase) ==
  IF builder.settings[phase] # None THEN TimeoutMs(builder.settings[phase])
  ELSE IF phase = "connect" THEN ConnectMs
  ELSE 0

\* HTTPS_PROXY or else HTTP_PROXY for the whole session, without credentials.
SessionProxy(config) ==
  LET p == IF config.https # None THEN config.https ELSE config.http
  IN  IF p = None THEN Bare("automatic") ELSE Named([p EXCEPT !.creds = None])

BuildRefused ==
  /\ stage = "building"
  /\ builder.error
  /\ stage' = "failed"
  /\ UNCHANGED <<env, builder, session, route, calls>>

\* The handle is opened with the access type and the proxy's name.
OpenSession ==
  /\ stage = "building"
  /\ ~builder.error
  /\ LET config == IF builder.config = None THEN FromEnv ELSE builder.config
     IN  /\ builder' = [builder EXCEPT !.config = config]
         /\ session' = [session EXCEPT !.handle = "open",
                                       !.proxy = SessionProxy(config)]
  /\ stage' = "opening"
  /\ UNCHANGED <<env, route, calls>>

\* No handle, nothing to close.
OpenSessionFails ==
  /\ stage = "building"
  /\ ~builder.error
  /\ stage' = "failed"
  /\ UNCHANGED <<env, builder, session, route, calls>>

\* The options in the order open sets them, the first two on every session.
Option(name, value) == <<[name |-> name, value |-> value]>>
Options ==
  Option("callback", TRUE)
  \o Option("timeouts", [phase \in Phases |-> PhaseMs(phase)])
  \o (IF builder.settings.http1 THEN <<>> ELSE Option("http2", TRUE))
  \o Option("decompression", TRUE)
  \o Option("nonblocking", TRUE)
  \o (IF builder.settings.conns = None THEN <<>>
      ELSE Option("max_conns", builder.settings.conns))
  \o Option("redirects", IF builder.settings.redirect = None THEN DefaultPolicy
                         ELSE builder.settings.redirect)
BestEffort == {"http2", "decompression"}

Opening == stage = "opening" /\ session.tried < Len(Options)
NextOption == Options[session.tried + 1]

SetOption ==
  /\ Opening
  /\ session' = [session EXCEPT !.tried = @ + 1, !.set = Append(@, NextOption)]
  /\ UNCHANGED <<env, builder, stage, route, calls>>

\* The result of a best-effort option is ignored.
SetOptionIgnored ==
  /\ Opening
  /\ NextOption.name \in BestEffort
  /\ session' = [session EXCEPT !.tried = @ + 1]
  /\ UNCHANGED <<env, builder, stage, route, calls>>

\* An early return drops the WinHttpHandle, which closes the session.
SetOptionFails ==
  /\ Opening
  /\ NextOption.name \notin BestEffort
  /\ session' = [session EXCEPT !.handle = "closed"]
  /\ stage' = "failed"
  /\ UNCHANGED <<env, builder, route, calls>>

Built ==
  /\ stage = "opening"
  /\ session.tried = Len(Options)
  /\ stage' = "built"
  /\ UNCHANGED <<env, builder, session, route, calls>>

-----------------------------------------------------------------------------
(* execute_request *)

\* Nothing is overridden for Automatic: the session's own setting applies.
Taken(resolved) ==
  IF resolved.how # "automatic" THEN resolved
  ELSE IF session.proxy.how = "named" THEN session.proxy
  ELSE Bare("system")

\* A client certificate is refused up front on a URL of https; certificates go
\* unchecked on one of http too, for the redirects that may follow.
Send(host, scheme) ==
  /\ stage = "built"
  /\ builder.settings.httpsOnly => scheme = "https"
  /\ LET resolved == Resolve(builder.config, host, scheme)
     IN  route' = [host |-> host, scheme |-> scheme, via |-> Taken(resolved),
                   anyCert |-> builder.settings.anyCert, noCert |-> scheme = "https"]
  /\ UNCHANGED <<env, builder, session, stage, calls>>

\* https_only, or a call to WinHTTP that fails: the request is not sent.
SendRefused ==
  /\ stage = "built"
  /\ route' = None
  /\ UNCHANGED <<env, builder, session, stage, calls>>

Building ==
  \/ \E kind \in Kinds, p \in Proxies : AddProxy(kind, p)
  \/ NoProxy
  \/ UserAgentInvalid
  \/ \E field \in DOMAIN Settings : \E value \in Settings[field] : Setter(field, value)
  \/ NoOp
  \/ BuildRefused
  \/ OpenSession
  \/ OpenSessionFails
  \/ SetOption
  \/ SetOptionIgnored
  \/ SetOptionFails
  \/ Built

Sending ==
  \/ \E host \in Hosts, scheme \in Schemes : Send(host, scheme)
  \/ SendRefused

\* A failed build leaves nothing to do.
SetupDone == stage = "failed" /\ UNCHANGED setupVars

SetupNext == Building \/ Sending \/ SetupDone

-----------------------------------------------------------------------------
(* Properties *)

\* The type invariant of the builder, its session and the last request.
SetupTypeOK ==
  LET Route == [how : {"direct", "automatic", "system", "named"},
                proxy : ProxyChoices \union {None}]
  IN  /\ env \in Envs
      /\ stage \in {"building", "opening", "built", "failed"}
      /\ builder.config # None =>
           \A s \in Schemes : builder.config[s] \in ProxyChoices \union {None}
      /\ \A f \in DOMAIN Settings : builder.settings[f] \in Settings[f] \union {Unset[f]}
      /\ session.tried \in 0..7
      /\ \A o \in Range(session.set) :
           o.name = "timeouts" => o.value \in [Phases -> 0..MaxMs]
      /\ session.proxy \in Route \union {None}
      /\ route # None => route.via \in Route
      /\ Explored(calls)

\* What the caller's own words say of a request's proxy: no_proxy() forgets the
\* environment and everything said before it, the last proxy() for the scheme
\* wins over the environment, and NO_PROXY wins over both.
LastNoProxy ==
  LET at == {i \in DOMAIN calls : calls[i].call = "no_proxy"}
  IN  IF at = {} THEN 0 ELSE Max(at)

LastFor(scheme) ==
  LET at == {i \in DOMAIN calls : /\ i > LastNoProxy
                                  /\ calls[i].call = "proxy"
                                  /\ calls[i].kind \in {"all", scheme}}
  IN  IF at # {} THEN calls[Max(at)].proxy
      ELSE IF LastNoProxy = 0 THEN FromUrl(env[scheme])
      ELSE None

Exempt(host) ==
  /\ LastNoProxy = 0
  /\ \E e \in env.noProxy :
       \/ e.labels = <<"*">>
       \/ e.labels = host
       \/ IsSuffix(e.labels, host) /\ (e.dot \/ Len(e.labels) > 1)

\* A request with a proxy of its own takes that one, with the credentials it
\* was given and no other's; an exempt host takes none; and whatever a request
\* takes that has neither, it is not told to go direct, and gives nobody's
\* credentials away (Proxy::apply_to, ProxyConfig::resolve, execute_request).
RoutesByHistory ==
  route # None =>
    LET mine == LastFor(route.scheme)
    IN  IF Exempt(route.host) THEN route.via = Bare("direct")
        ELSE IF mine # None THEN route.via = Named(mine)
        ELSE /\ route.via.how # "direct"
             /\ route.via.proxy # None => route.via.proxy.creds = None

\* What the kinds of a Proxy say: HTTPS traffic only, HTTP traffic only. The
\* code lets the session's proxy stand for a request that resolves to Automatic,
\* and the session has the proxy of either scheme.
OnlyItsTraffic ==
  route # None /\ route.via.how = "named" =>
    \/ route.via.proxy.url \in {env.http, env.https}
    \/ \E i \in DOMAIN calls :
         /\ calls[i].call = "proxy" /\ calls[i].kind \in {"all", route.scheme}
         /\ calls[i].proxy.url = route.via.proxy.url

\* What the last call of a setter said, or the default.
LastSaid(field) ==
  LET at == {i \in DOMAIN calls : calls[i].call = "setting" /\ calls[i].field = field}
  IN  IF at = {} THEN Unset[field] ELSE calls[Max(at)].value

Given(name) == {o.value : o \in {p \in Range(session.set) : p.name = name}}

\* A phase timeout a caller set is finite and no shorter than asked unless
\* i32 milliseconds cannot hold it, and a phase nobody set one for keeps its
\* default (winhttp_timeout_ms, ClientBuilder::build).
FiniteTimeouts ==
  \A timeouts \in Given("timeouts"), phase \in Phases :
    LET asked == LastSaid(phase)
        ms == timeouts[phase]
    IN  IF asked = None THEN ms = (IF phase = "connect" THEN ConnectMs ELSE 0)
        ELSE /\ ms > 0
             /\ ms * PerMs >= asked \/ ms = MaxMs
             /\ (ms - 1) * PerMs < asked \/ ms = 1

\* A Client exists only with every option whose failure open() says must
\* propagate, and after no invalid call; a build that failed at any point
\* leaves no session open (WinHttpSession::open, ClientBuilder::build).
BuiltWhole ==
  /\ stage = "built" =>
       /\ session.handle = "open"
       /\ \A name \in {"callback", "timeouts", "nonblocking", "redirects"} :
            Given(name) # {}
       /\ \A i \in DOMAIN calls : calls[i].call = "setting" => calls[i].field # "user_agent"
  /\ stage = "failed" => session.handle # "open"

\* A session and the requests on it are what the last call of each setter
\* said, and no weaker: HTTP/2 only where it was not excluded, as many
\* connections and redirects as allowed, 10 redirects where nobody said, no
\* certificate unchecked that was not asked for, nothing over http for a client
\* of https only (ClientBuilder, WinHttpSession::open, execute_request).
OptionsAsAsked ==
  /\ stage = "built" =>
       /\ LastSaid("http1") => Given("http2") = {}
       /\ Given("max_conns") = {LastSaid("conns")} \ {None}
       /\ Given("redirects") =
            IF LastSaid("redirect") = None THEN {[follow |-> TRUE, max |-> 10]}
            ELSE {LastSaid("redirect")}
  /\ route # None =>
       /\ route.anyCert <=> LastSaid("anyCert")
       /\ LastSaid("httpsOnly") => route.scheme = "https" /\ route.noCert

\* What the doc of ClientBuilder::no_proxy says: the client uses no
\* automatically detected system proxy afterwards. The code resolves to
\* Automatic, and the session was opened for WinHTTP's automatic proxy.
NothingDetected ==
  route # None /\ LastNoProxy > 0 => route.via.how # "system"

=============================================================================
