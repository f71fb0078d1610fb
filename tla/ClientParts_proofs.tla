-------------------------- MODULE ClientParts_proofs --------------------------
(* Proofs about the three parts that Client extends, ClientSetup, UrlAlgebra  *)
(* and TextDecode, for any value of their constants; Client_proofs makes them *)
(* theorems of Client.                                                        *)
EXTENDS ClientSetup, UrlAlgebra, TextDecode, FiniteSetTheorems,
        WellFoundedInduction, TLAPS

-----------------------------------------------------------------------------
(* The last of some places in a history.                                     *)

\* Some positions of a sequence have a last one, which Max chooses.
LEMMA LastPlace ==
  ASSUME NEW n \in Nat, NEW S \in SUBSET (1..n), S # {}
  PROVE  Max(S) \in S /\ \A y \in S : y <= Max(S)
<1> DEFINE After == {(x + 1)..n : x \in S}
<1>1. IsFiniteSet(1..n)
  BY FS_Interval
<1>2. After \subseteq SUBSET (1..n) /\ After # {}
  <2>1. \A x \in S : (x + 1)..n \subseteq 1..n
    OBVIOUS
  <2>2. PICK x \in S : TRUE
    OBVIOUS
  <2>3. (x + 1)..n \in After
    OBVIOUS
  <2> QED BY <2>1, <2>3
<1>3. PICK m \in S : \A y \in S : ~ (y > m)
  <2>1. PICK least \in After :
          \A other \in After : ~ (<<other, least>> \in StrictSubsetOrdering(1..n))
    <3>1. After \subseteq FiniteSubsetsOf(1..n)
      BY <1>1, <1>2, FS_FiniteSubsetsOfFinite
    <3> HIDE DEF After
    <3> QED BY <3>1, <1>2, FS_StrictSubsetOrderingWellFounded, WFMin
  <2>2. PICK m \in S : least = (m + 1)..n
    OBVIOUS
  <2>3. ASSUME NEW y \in S, y > m PROVE FALSE
    <3>1. (y + 1)..n \in After
      OBVIOUS
    <3>2. /\ (y + 1)..n \subseteq (m + 1)..n
          /\ y \in (m + 1)..n /\ y \notin (y + 1)..n
      BY <2>3
    <3>3. <<(y + 1)..n, least>> \in StrictSubsetOrdering(1..n)
      BY <1>2, <2>2, <3>1, <3>2 DEF StrictSubsetOrdering
    <3> QED BY <2>1, <3>1, <3>3
  <2> QED BY <2>2, <2>3
<1>4. m \in S /\ \A y \in S : m >= y
  BY <1>3
<1>5. Max(S) \in S /\ \A y \in S : Max(S) >= y
  BY <1>4 DEF Max
<1> QED BY <1>5

\* It stays when a sequence grows, unless the new element is one of them.
LEMMA LastStays ==
  ASSUME NEW n \in Nat, NEW S \in SUBSET (1..n), NEW T, T = S \union {n + 1}
  PROVE  Max(T) = n + 1
<1>1. n + 1 \in Nat /\ T \in SUBSET (1..(n + 1)) /\ T # {} /\ n + 1 \in T
  OBVIOUS
<1>2. Max(T) \in T /\ (\A y \in T : y <= Max(T))
  BY <1>1, LastPlace
<1>3. Max(T) \in 1..(n + 1) /\ n + 1 <= Max(T)
  <2> HIDE DEF Max
  <2> QED BY <1>1, <1>2
<1> QED BY <1>2, <1>3

-----------------------------------------------------------------------------
(* Setting up a client.                                                      *)

ProxyCalls == [call : {"proxy"}, kind : Kinds, proxy : Proxies]
Setting(field, value) == [call |-> "setting", field |-> field, value |-> value]
Plain(field) == [call |-> "setting", field |-> field]
SettingCalls ==
  {Plain(field) : field \in {"user_agent", "none"}}
  \union UNION {{Setting(field, value) : value \in Settings[field]} : field \in DOMAIN Settings}
Calling == ProxyCalls \union {[call |-> "no_proxy"]} \union SettingCalls

\* One more call.
LEMMA CallMore ==
  ASSUME NEW X, calls \in Seq(X), NEW c, calls' = Append(calls, c)
  PROVE  /\ Len(calls) \in Nat /\ DOMAIN calls = 1..Len(calls)
         /\ DOMAIN calls' = DOMAIN calls \union {Len(calls) + 1}
         /\ Len(calls) + 1 \notin DOMAIN calls
         /\ \A i \in DOMAIN calls : calls'[i] = calls[i]
         /\ calls'[Len(calls) + 1] = c
OBVIOUS

\* The last of a kind, after one more call.
LEMMA LastOfMore ==
  ASSUME NEW X, calls \in Seq(X), NEW c, calls' = Append(calls, c),
         NEW S \in SUBSET DOMAIN calls, NEW T
  PROVE  /\ T = S \union {Len(calls) + 1} =>
              T # {} /\ Max(T) = Len(calls) + 1 /\ calls'[Max(T)] = c
         /\ T = S /\ T # {} => Max(T) \in S /\ calls'[Max(T)] = calls[Max(S)]
<1> DEFINE n == Len(calls)
<1>1. n \in Nat /\ S \in SUBSET (1..n) /\ calls'[n + 1] = c
      /\ \A i \in S : calls'[i] = calls[i]
  BY CallMore
<1>2. ASSUME T = S \union {n + 1} PROVE T # {} /\ Max(T) = n + 1
  <2> HIDE DEF n
  <2> QED BY <1>1, <1>2, LastStays
<1>3. ASSUME T = S, T # {} PROVE Max(T) \in S
  <2> HIDE DEF n
  <2> QED BY <1>1, <1>3, LastPlace
<1> QED BY <1>1, <1>2, <1>3

LEMMA LastSaidMore ==
  ASSUME NEW X, calls \in Seq(X), NEW c, calls' = Append(calls, c), NEW field
  PROVE  LastSaid(field)' =
           IF c.call = "setting" /\ c.field = field THEN c.value ELSE LastSaid(field)
<1> DEFINE S == {i \in DOMAIN calls : calls[i].call = "setting" /\ calls[i].field = field}
           T == {i \in DOMAIN calls' : calls'[i].call = "setting" /\ calls'[i].field = field}
<1>1. S \in SUBSET DOMAIN calls
  OBVIOUS
<1>2. CASE c.call = "setting" /\ c.field = field
  <2>1. T = S \union {Len(calls) + 1}
    BY <1>2, CallMore
  <2> HIDE DEF S
  <2>2. T # {} /\ calls'[Max(T)] = c
    BY <1>1, <2>1, LastOfMore
  <2> QED BY <1>2, <2>2 DEF LastSaid
<1>3. CASE ~ (c.call = "setting" /\ c.field = field)
  <2>1. T = S
    BY <1>3, CallMore
  <2>2. T # {} => calls'[Max(T)] = calls[Max(S)]
    <3> HIDE DEF S, T
    <3> QED BY <1>1, <2>1, LastOfMore
  <2> QED BY <1>3, <2>1, <2>2 DEF LastSaid
<1> QED BY <1>2, <1>3

LEMMA LastNoProxyMore ==
  ASSUME NEW X, calls \in Seq(X), NEW c, calls' = Append(calls, c)
  PROVE  /\ LastNoProxy \in 0..Len(calls)
         /\ LastNoProxy' = IF c.call = "no_proxy" THEN Len(calls) + 1 ELSE LastNoProxy
<1> DEFINE S == {i \in DOMAIN calls : calls[i].call = "no_proxy"}
           T == {i \in DOMAIN calls' : calls'[i].call = "no_proxy"}
<1>1. S \in SUBSET DOMAIN calls
  OBVIOUS
<1>2. LastNoProxy \in 0..Len(calls)
  <2>1. S # {} => Max(S) \in 1..Len(calls)
    <3> HIDE DEF S
    <3> QED BY <1>1, CallMore, LastPlace
  <2> QED BY <2>1, CallMore DEF LastNoProxy
<1>3. CASE c.call = "no_proxy"
  <2>1. T = S \union {Len(calls) + 1}
    BY <1>3, CallMore
  <2> HIDE DEF S
  <2>2. T # {} /\ Max(T) = Len(calls) + 1
    BY <1>1, <2>1, LastOfMore
  <2> QED BY <1>2, <1>3, <2>2 DEF LastNoProxy
<1>4. CASE c.call # "no_proxy"
  <2>1. T = S
    BY <1>4, CallMore
  <2> QED BY <1>2, <1>4, <2>1 DEF LastNoProxy
<1> QED BY <1>3, <1>4

LEMMA LastForMore ==
  ASSUME NEW X, calls \in Seq(X), NEW c, calls' = Append(calls, c), env' = env,
         NEW scheme \in Schemes
  PROVE  LastFor(scheme)' = IF c.call = "no_proxy" THEN None
                            ELSE IF c.call = "proxy" /\ c.kind \in {"all", scheme} THEN c.proxy
                            ELSE LastFor(scheme)
<1> DEFINE n == Len(calls)
           Says(call) == call.call = "proxy" /\ call.kind \in {"all", scheme}
           S == {i \in DOMAIN calls : i > LastNoProxy /\ Says(calls[i])}
           T == {i \in DOMAIN calls' : i > LastNoProxy' /\ Says(calls'[i])}
<1>1. /\ LastFor(scheme) = IF S # {} THEN calls[Max(S)].proxy
                           ELSE IF LastNoProxy = 0 THEN FromUrl(env[scheme]) ELSE None
      /\ LastFor(scheme)' = IF T # {} THEN calls'[Max(T)].proxy
                            ELSE IF LastNoProxy' = 0 THEN FromUrl(env[scheme]) ELSE None
  BY DEF LastFor, FromUrl
<1>2. /\ n \in Nat /\ DOMAIN calls = 1..n /\ DOMAIN calls' = DOMAIN calls \union {n + 1}
      /\ \A i \in DOMAIN calls : calls'[i] = calls[i]
      /\ calls'[n + 1] = c /\ n + 1 \notin DOMAIN calls
  BY CallMore
<1>3. /\ LastNoProxy \in 0..n
      /\ LastNoProxy' = IF c.call = "no_proxy" THEN n + 1 ELSE LastNoProxy
  BY LastNoProxyMore
<1>4. S \in SUBSET DOMAIN calls
  OBVIOUS
<1>5. CASE c.call = "no_proxy"
  <2>1. LastNoProxy' = n + 1
    BY <1>3, <1>5
  <2>2. T = {}
    BY <1>2, <2>1
  <2> HIDE DEF T
  <2>3. LastNoProxy' # 0
    BY <1>2, <2>1
  <2> QED BY <1>1, <1>5, <2>2, <2>3
<1>6. CASE c.call # "no_proxy" /\ Says(c)
  <2>1. LastNoProxy' = LastNoProxy /\ n + 1 > LastNoProxy
    BY <1>2, <1>3, <1>6
  <2>2. T = S \union {n + 1}
    BY <1>2, <1>6, <2>1
  <2> HIDE DEF S
  <2>3. T # {} /\ calls'[Max(T)] = c
    BY <1>4, <2>2, LastOfMore
  <2> QED BY <1>1, <1>6, <2>3
<1>7. CASE c.call # "no_proxy" /\ ~ Says(c)
  <2>1. LastNoProxy' = LastNoProxy
    BY <1>3, <1>7
  <2>2. T = S
    BY <1>2, <1>7, <2>1
  <2> HIDE DEF S, T
  <2>3. ASSUME T # {} PROVE calls'[Max(T)] = calls[Max(S)]
    <3> HIDE DEF n
    <3> QED BY <1>4, <2>2, <2>3, LastOfMore
  <2> QED BY <1>1, <1>7, <2>1, <2>2, <2>3
<1> QED BY <1>5, <1>6, <1>7

\* The configuration a build starts from, as it stands.
Effective == IF builder.config = None THEN FromEnv ELSE builder.config

SetupTypes ==
  /\ env \in Envs
  /\ calls \in Seq(Calling)
  /\ builder = [config |-> builder.config, error |-> builder.error, settings |-> builder.settings]
  /\ builder.config \in Configs \union {None}
  /\ builder.settings = [f \in DOMAIN Settings |-> builder.settings[f]]
  /\ \A f \in DOMAIN Settings : builder.settings[f] \in Settings[f] \union {Unset[f]}

\* The configuration is what the calls and the environment say.
ConfigSaid ==
  /\ \A s \in Schemes : Effective[s] = LastFor(s)
  /\ Effective.noProxy = IF LastNoProxy = 0 THEN ParseNoProxy(env.noProxy) ELSE {}

\* The settings are what the calls say.
SettingsSaid ==
  /\ \A f \in DOMAIN Settings : builder.settings[f] = LastSaid(f)
  /\ ~ builder.error =>
       \A i \in DOMAIN calls : calls[i].call = "setting" => calls[i].field # "user_agent"

BuilderInv == SetupTypes /\ ConfigSaid /\ SettingsSaid

LEMMA FromEnvIs ==
  ASSUME env \in Envs
  PROVE  /\ FromEnv \in Configs /\ NoConfig \in Configs
         /\ \A s \in Schemes : FromEnv[s] = FromUrl(env[s]) /\ NoConfig[s] = None
<1>1. /\ FromUrl(env.http) \in ProxyChoices \union {None}
      /\ FromUrl(env.https) \in ProxyChoices \union {None}
  BY DEF FromUrl, ProxyChoices
<1> QED BY <1>1 DEF FromEnv, NoConfig, Configs, Schemes

LEMMA BuilderInit == SetupInit => BuilderInv
<1> SUFFICES ASSUME SetupInit PROVE BuilderInv
  OBVIOUS
<1>1. /\ env \in Envs /\ calls = <<>>
      /\ builder = [config |-> None, error |-> FALSE, settings |-> Unset]
  BY DEF SetupInit
<1>2. LastNoProxy = 0
  BY <1>1 DEF LastNoProxy
<1>3. \A s \in Schemes : LastFor(s) = FromUrl(env[s])
  BY <1>1, <1>2 DEF LastFor
<1>4. \A f \in DOMAIN Settings : LastSaid(f) = Unset[f]
  BY <1>1 DEF LastSaid
<1>5. Effective = FromEnv
  BY <1>1 DEF Effective
<1>6. ConfigSaid
  BY <1>1, <1>2, <1>3, <1>5, FromEnvIs DEF ConfigSaid, FromEnv
<1>7. SettingsSaid
  BY <1>1, <1>4 DEF SettingsSaid
<1>8. calls \in Seq(Calling)
  BY <1>1
<1>9. Unset = [f \in DOMAIN Settings |-> Unset[f]]
  BY DEF Unset
<1>10. SetupTypes
  BY <1>1, <1>8, <1>9 DEF SetupTypes
<1> QED BY <1>6, <1>7, <1>10 DEF BuilderInv

\* Nothing of it changes while the builder and the calls do not.
LEMMA BuilderStays ==
  ASSUME BuilderInv, UNCHANGED <<env, calls>>,
         \/ builder' = builder
         \/ builder' = [builder EXCEPT !.config = Effective]
  PROVE  BuilderInv'
<1>1. Effective \in Configs
  BY FromEnvIs DEF BuilderInv, SetupTypes, Effective
<1>2. /\ builder' = [config |-> builder'.config, error |-> builder'.error,
                     settings |-> builder'.settings]
      /\ builder'.settings = builder.settings /\ builder'.error = builder.error
      /\ builder'.config = builder.config \/ builder'.config = Effective
  BY DEF BuilderInv, SetupTypes
<1>3. Effective' = Effective
  BY <1>1, <1>2, ProxiesOK DEF Effective, FromEnv
<1>4. ConfigSaid'
  BY <1>3 DEF BuilderInv, ConfigSaid, LastFor, LastNoProxy
<1>5. SettingsSaid'
  BY <1>2 DEF BuilderInv, SettingsSaid, LastSaid
<1>6. SetupTypes'
  BY <1>1, <1>2 DEF BuilderInv, SetupTypes
<1> QED BY <1>4, <1>5, <1>6 DEF BuilderInv

\* A call about proxies.
LEMMA ProxyCallKeeps ==
  ASSUME BuilderInv,
         \/ \E kind \in Kinds, p \in Proxies : AddProxy(kind, p)
         \/ NoProxy
  PROVE  BuilderInv'
<1>1. PICK c \in Calling :
        /\ calls' = Append(calls, c) /\ env' = env
        /\ \/ /\ c.call = "proxy" /\ c.kind \in Kinds /\ c.proxy \in Proxies
              /\ builder' = [builder EXCEPT !.config = ApplyTo(c.kind, c.proxy, Effective)]
           \/ /\ c.call = "no_proxy"
              /\ builder' = [builder EXCEPT !.config = NoConfig]
  <2>1. ASSUME NEW kind \in Kinds, NEW p \in Proxies, AddProxy(kind, p)
        PROVE  /\ [call |-> "proxy", kind |-> kind, proxy |-> p] \in Calling
               /\ calls' = Append(calls, [call |-> "proxy", kind |-> kind, proxy |-> p])
               /\ env' = env
               /\ builder' = [builder EXCEPT !.config = ApplyTo(kind, p, Effective)]
    <3>1. builder' = [builder EXCEPT !.config =
                        ApplyTo(kind, p, IF builder.config = None THEN FromEnv ELSE builder.config)]
      BY <2>1 DEF AddProxy, BuilderInv, SetupTypes
    <3> QED BY <2>1, <3>1 DEF AddProxy, Call, Calling, ProxyCalls, Effective
  <2>2. ASSUME NoProxy
        PROVE  /\ [call |-> "no_proxy"] \in Calling
               /\ calls' = Append(calls, [call |-> "no_proxy"])
               /\ env' = env
               /\ builder' = [builder EXCEPT !.config = NoConfig]
    BY <2>2 DEF NoProxy, Call, Calling
  <2> QED BY Zenon, <2>1, <2>2
<1>2. /\ calls \in Seq(Calling) /\ calls' \in Seq(Calling) /\ env \in Envs
      /\ Effective \in Configs
  BY <1>1, FromEnvIs DEF BuilderInv, SetupTypes, Effective
<1>3. /\ builder' = [config |-> builder'.config, error |-> builder'.error,
                     settings |-> builder'.settings]
      /\ builder'.settings = builder.settings /\ builder'.error = builder.error
  BY <1>1 DEF BuilderInv, SetupTypes
<1>4. ASSUME c.call = "proxy" PROVE ConfigSaid' /\ builder'.config \in Configs
  <2>1. /\ c.kind \in Kinds /\ c.proxy \in Proxies
        /\ builder'.config = ApplyTo(c.kind, c.proxy, Effective)
    BY <1>1, <1>4 DEF BuilderInv, SetupTypes
  <2>2. /\ \A s \in Schemes : builder'.config[s] =
             IF c.kind \in {"all", s} THEN c.proxy ELSE Effective[s]
        /\ builder'.config.noProxy = Effective.noProxy
        /\ builder'.config \in Configs
    BY <1>2, <2>1, ProxiesOK DEF ApplyTo, Covers, Configs, Schemes, Kinds
  <2>3. Effective' = builder'.config
    BY <2>2, ProxiesOK DEF Effective
  <2>4. \A s \in Schemes : Effective'[s] = LastFor(s)'
    BY <1>1, <1>2, <1>4, <2>2, <2>3, LastForMore DEF BuilderInv, ConfigSaid
  <2>5. LastNoProxy' = LastNoProxy
    BY <1>1, <1>2, <1>4, LastNoProxyMore
  <2>6. ConfigSaid'
    BY <1>1, <2>2, <2>3, <2>4, <2>5 DEF BuilderInv, ConfigSaid
  <2> QED BY <2>2, <2>6
<1>5. ASSUME c.call = "no_proxy" PROVE ConfigSaid' /\ builder'.config \in Configs
  <2>1. builder'.config = NoConfig
    BY <1>1, <1>5 DEF BuilderInv, SetupTypes
  <2>2. builder'.config \in Configs /\ Effective' = NoConfig
    BY <1>2, <2>1, FromEnvIs, ProxiesOK DEF Effective
  <2>3. \A s \in Schemes : Effective'[s] = LastFor(s)'
    BY <1>1, <1>2, <1>5, <2>2, FromEnvIs, LastForMore
  <2>4. LastNoProxy' # 0
    BY <1>1, <1>2, <1>5, LastNoProxyMore, CallMore
  <2>5. ConfigSaid'
    BY <2>2, <2>3, <2>4 DEF ConfigSaid, NoConfig
  <2> QED BY <2>2, <2>5
<1>6. ConfigSaid' /\ builder'.config \in Configs
  BY <1>1, <1>4, <1>5
<1>7. c.call # "setting"
  BY <1>1
<1>8. \A f : LastSaid(f)' = LastSaid(f)
  BY <1>1, <1>2, <1>7, LastSaidMore
<1>9. ~ builder'.error =>
        \A i \in DOMAIN calls' : calls'[i].call = "setting" => calls'[i].field # "user_agent"
  BY <1>1, <1>2, <1>3, <1>7, CallMore DEF BuilderInv, SettingsSaid
<1>10. SettingsSaid'
  BY <1>3, <1>8, <1>9 DEF BuilderInv, SettingsSaid
<1>11. SetupTypes'
  BY <1>1, <1>2, <1>3, <1>6 DEF BuilderInv, SetupTypes
<1> QED BY <1>6, <1>10, <1>11 DEF BuilderInv

\* A call of a setter, of one that stores nothing, of one that notes an error.
LEMMA SettingCallKeeps ==
  ASSUME BuilderInv,
         \/ \E field \in DOMAIN Settings : \E value \in Settings[field] : Setter(field, value)
         \/ UserAgentInvalid
         \/ NoOp
  PROVE  BuilderInv'
<1>1. PICK c \in SettingCalls :
        /\ calls' = Append(calls, c) /\ env' = env /\ c.call = "setting"
        /\ \/ /\ c.field \in DOMAIN Settings /\ c.value \in Settings[c.field]
              /\ builder' = [builder EXCEPT !.settings[c.field] = c.value]
           \/ c.field = "user_agent" /\ builder' = [builder EXCEPT !.error = TRUE]
           \/ c.field = "none" /\ builder' = builder
  <2>1. ASSUME NEW field \in DOMAIN Settings, NEW value \in Settings[field], Setter(field, value)
        PROVE  /\ Setting(field, value) \in SettingCalls
               /\ calls' = Append(calls, Setting(field, value)) /\ env' = env
               /\ builder' = [builder EXCEPT !.settings[field] = value]
    BY <2>1 DEF Setter, Call, SettingCalls, Setting
  <2>2. ASSUME UserAgentInvalid
        PROVE  /\ Plain("user_agent") \in SettingCalls
               /\ calls' = Append(calls, Plain("user_agent")) /\ env' = env
               /\ builder' = [builder EXCEPT !.error = TRUE]
    BY <2>2 DEF UserAgentInvalid, Call, SettingCalls, Plain
  <2>3. ASSUME NoOp
        PROVE  /\ Plain("none") \in SettingCalls
               /\ calls' = Append(calls, Plain("none")) /\ env' = env /\ builder' = builder
    BY <2>3 DEF NoOp, Call, SettingCalls, Plain
  <2>4. /\ \A field, value : /\ Setting(field, value).call = "setting"
                             /\ Setting(field, value).field = field
                             /\ Setting(field, value).value = value
        /\ \A field : Plain(field).call = "setting" /\ Plain(field).field = field
    BY DEF Setting, Plain
  <2>5. ASSUME NEW field \in DOMAIN Settings, NEW value \in Settings[field], Setter(field, value)
        PROVE  \E c \in SettingCalls :
                 /\ calls' = Append(calls, c) /\ env' = env /\ c.call = "setting"
                 /\ c.field \in DOMAIN Settings /\ c.value \in Settings[c.field]
                 /\ builder' = [builder EXCEPT !.settings[c.field] = c.value]
    <3> DEFINE this == Setting(field, value)
    <3>1. /\ this \in SettingCalls /\ this.call = "setting"
          /\ this.field = field /\ this.value = value
          /\ calls' = Append(calls, this) /\ env' = env
          /\ builder' = [builder EXCEPT !.settings[field] = value]
      BY <2>1, <2>4, <2>5
    <3> HIDE DEF this
    <3> QED BY <3>1
  <2> QED BY <2>2, <2>3, <2>4, <2>5
<1>2. /\ calls \in Seq(Calling) /\ calls' \in Seq(Calling) /\ env \in Envs
  BY <1>1 DEF BuilderInv, SetupTypes, Calling
<1>3. /\ builder' = [config |-> builder'.config, error |-> builder'.error,
                     settings |-> builder'.settings]
      /\ builder'.config = builder.config
      /\ builder'.settings = [f \in DOMAIN Settings |-> builder'.settings[f]]
      /\ \A f \in DOMAIN Settings :
           builder'.settings[f] = IF c.field = f THEN c.value ELSE builder.settings[f]
      /\ builder'.error = IF c.field = "user_agent" THEN TRUE ELSE builder.error
  BY Zenon, <1>1 DEF BuilderInv, SetupTypes, Settings
<1>4. Effective' = Effective
  BY <1>1, <1>3 DEF Effective, FromEnv
<1>5. ConfigSaid'
  <2>1. \A s \in Schemes : LastFor(s)' = LastFor(s)
    BY <1>1, <1>2, LastForMore
  <2>2. LastNoProxy' = LastNoProxy
    BY <1>1, <1>2, LastNoProxyMore
  <2> QED BY <1>1, <1>4, <2>1, <2>2 DEF BuilderInv, ConfigSaid
<1>6. \A f : LastSaid(f)' = IF c.field = f THEN c.value ELSE LastSaid(f)
  BY <1>1, <1>2, LastSaidMore
<1>7. ~ builder'.error =>
        \A i \in DOMAIN calls' : calls'[i].call = "setting" => calls'[i].field # "user_agent"
  BY <1>1, <1>2, <1>3, CallMore DEF BuilderInv, SettingsSaid
<1>8. SettingsSaid'
  BY <1>3, <1>6, <1>7 DEF BuilderInv, SettingsSaid
<1>9. \A f \in DOMAIN Settings : builder'.settings[f] \in Settings[f] \union {Unset[f]}
  BY Zenon, <1>1, <1>3 DEF BuilderInv, SetupTypes, Settings
<1>10. SetupTypes'
  BY <1>1, <1>2, <1>3, <1>9 DEF BuilderInv, SetupTypes
<1> QED BY <1>5, <1>8, <1>10 DEF BuilderInv

-----------------------------------------------------------------------------
(* The options of a session.                                                 *)

LEMMA RangeOfTwo ==
  ASSUME NEW S, NEW s \in Seq(S), NEW t \in Seq(S)
  PROVE  s \o t \in Seq(S) /\ Range(s \o t) = Range(s) \union Range(t)
<1> DEFINE all == s \o t
<1>1. /\ all \in Seq(S) /\ Len(all) = Len(s) + Len(t)
      /\ Len(s) \in Nat /\ Len(t) \in Nat
      /\ \A i \in 1..Len(s) : all[i] = s[i]
      /\ \A i \in 1..Len(t) : all[Len(s) + i] = t[i]
  OBVIOUS
<1> HIDE DEF all
<1>2. \A i \in DOMAIN all : all[i] \in Range(s) \union Range(t)
  <2> SUFFICES ASSUME NEW i \in DOMAIN all PROVE all[i] \in Range(s) \union Range(t)
    OBVIOUS
  <2>1. CASE i <= Len(s)
    BY <1>1, <2>1 DEF Range
  <2>2. CASE i > Len(s)
    <3>1. i - Len(s) \in 1..Len(t) /\ i = Len(s) + (i - Len(s))
      BY <1>1, <2>2
    <3>2. all[i] = t[i - Len(s)]
      BY <1>1, <3>1
    <3> QED BY <1>1, <3>1, <3>2 DEF Range
  <2> QED BY <1>1, <2>1, <2>2
<1>3. Range(s) \subseteq Range(all)
  BY <1>1 DEF Range
<1>4. Range(t) \subseteq Range(all)
  <2> SUFFICES ASSUME NEW i \in 1..Len(t) PROVE t[i] \in Range(all)
    BY DEF Range
  <2>1. Len(s) + i \in DOMAIN all /\ all[Len(s) + i] = t[i]
    BY <1>1
  <2> QED BY <2>1 DEF Range
<1>5. Range(all) \subseteq Range(s) \union Range(t)
  BY <1>2 DEF Range
<1> QED BY <1>1, <1>3, <1>4, <1>5 DEF all

Item(name, value) == [name |-> name, value |-> value]

\* What open() sets, in no order.
OptionItems ==
  {Item("callback", TRUE), Item("timeouts", [p \in Phases |-> PhaseMs(p)]),
   Item("decompression", TRUE), Item("nonblocking", TRUE),
   Item("redirects", IF builder.settings.redirect = None THEN DefaultPolicy
                     ELSE builder.settings.redirect)}
  \union (IF builder.settings.http1 THEN {} ELSE {Item("http2", TRUE)})
  \union (IF builder.settings.conns = None THEN {}
          ELSE {Item("max_conns", builder.settings.conns)})

LEMMA ItemIs ==
  \A name, value : Item(name, value).name = name /\ Item(name, value).value = value
BY DEF Item

LEMMA OptionsAre ==
  /\ Options \in Seq(OptionItems) /\ Range(Options) = OptionItems
  /\ Len(Options) \in Nat /\ DOMAIN Options = 1..Len(Options)
<1> DEFINE redirect == IF builder.settings.redirect = None THEN DefaultPolicy
                       ELSE builder.settings.redirect
           timeouts == [p \in Phases |-> PhaseMs(p)]
           two == IF builder.settings.http1 THEN <<>> ELSE Option("http2", TRUE)
           six == IF builder.settings.conns = None THEN <<>>
                  ELSE Option("max_conns", builder.settings.conns)
           S == OptionItems
           a == Option("callback", TRUE) \o Option("timeouts", timeouts)
           b == a \o two
           d == b \o Option("decompression", TRUE)
           e == d \o Option("nonblocking", TRUE)
           f == e \o six
           g == f \o Option("redirects", redirect)
<1>1. Options = g
  BY DEF Options
<1>2. ASSUME NEW n, NEW v, Item(n, v) \in S
      PROVE  Option(n, v) \in Seq(S) /\ Range(Option(n, v)) = {Item(n, v)}
  <2>1. Option(n, v) = <<Item(n, v)>>
    BY DEF Option, Item
  <2> HIDE DEF S
  <2> QED BY <1>2, <2>1 DEF Range
<1>3. <<>> \in Seq(S) /\ Range(<<>>) = {}
  BY DEF Range
<1>4. /\ Item("callback", TRUE) \in S /\ Item("timeouts", timeouts) \in S
      /\ Item("decompression", TRUE) \in S /\ Item("nonblocking", TRUE) \in S
      /\ Item("redirects", redirect) \in S
      /\ ~ builder.settings.http1 => Item("http2", TRUE) \in S
      /\ builder.settings.conns # None => Item("max_conns", builder.settings.conns) \in S
  BY DEF OptionItems
<1>5. two \in Seq(S) /\ Range(two) = IF builder.settings.http1 THEN {} ELSE {Item("http2", TRUE)}
  <2> HIDE DEF S
  <2> QED BY <1>2, <1>3, <1>4
<1>6. six \in Seq(S) /\ Range(six) = IF builder.settings.conns = None THEN {}
                                     ELSE {Item("max_conns", builder.settings.conns)}
  <2> HIDE DEF S
  <2> QED BY <1>2, <1>3, <1>4
<1> HIDE DEF two, six, S
<1>7. \A s, t \in Seq(S) : s \o t \in Seq(S) /\ Range(s \o t) = Range(s) \union Range(t)
  BY RangeOfTwo
<1>8. a \in Seq(S) /\ Range(a) = {Item("callback", TRUE)} \union {Item("timeouts", timeouts)}
  <2> HIDE DEF timeouts
  <2>1. /\ Option("callback", TRUE) \in Seq(S) /\ Option("timeouts", timeouts) \in Seq(S)
        /\ Range(Option("callback", TRUE)) = {Item("callback", TRUE)}
        /\ Range(Option("timeouts", timeouts)) = {Item("timeouts", timeouts)}
    BY <1>2, <1>4
  <2> QED BY <1>7, <2>1
<1> HIDE DEF a
<1>9. b \in Seq(S) /\ Range(b) = Range(a) \union Range(two)
  BY <1>5, <1>7, <1>8
<1> HIDE DEF b
<1>10. d \in Seq(S) /\ Range(d) = Range(b) \union {Item("decompression", TRUE)}
  <2>1. Option("decompression", TRUE) \in Seq(S)
        /\ Range(Option("decompression", TRUE)) = {Item("decompression", TRUE)}
    BY <1>2, <1>4
  <2> QED BY <1>7, <1>9, <2>1
<1> HIDE DEF d
<1>11. e \in Seq(S) /\ Range(e) = Range(d) \union {Item("nonblocking", TRUE)}
  <2>1. Option("nonblocking", TRUE) \in Seq(S)
        /\ Range(Option("nonblocking", TRUE)) = {Item("nonblocking", TRUE)}
    BY <1>2, <1>4
  <2> QED BY <1>7, <1>10, <2>1
<1> HIDE DEF e
<1>12. f \in Seq(S) /\ Range(f) = Range(e) \union Range(six)
  BY <1>6, <1>7, <1>11
<1> HIDE DEF f
<1>13. g \in Seq(S) /\ Range(g) = Range(f) \union {Item("redirects", redirect)}
  <2> HIDE DEF redirect
  <2>1. Option("redirects", redirect) \in Seq(S)
        /\ Range(Option("redirects", redirect)) = {Item("redirects", redirect)}
    BY <1>2, <1>4
  <2> QED BY <1>7, <1>12, <2>1
<1> HIDE DEF g
<1>14. Range(g) = OptionItems
  BY <1>5, <1>6, <1>8, <1>9, <1>10, <1>11, <1>12, <1>13 DEF OptionItems
<1> QED BY <1>1, <1>13, <1>14 DEF S

\* What is set, of what open() tries.
OptionsSet ==
  /\ session.set \in Seq(OptionItems)
  /\ session.tried \in Nat
  /\ \A i \in DOMAIN Options :
       i <= session.tried /\ Options[i].name \notin BestEffort => Options[i] \in Range(session.set)

\* How far the build is.
Stages ==
  /\ stage \in {"building", "opening", "built", "failed"}
  /\ session = [handle |-> session.handle, tried |-> session.tried, set |-> session.set,
                proxy |-> session.proxy]
  /\ stage = "building" =>
       session.handle = "none" /\ session.tried = 0 /\ session.set = <<>>
  /\ stage \in {"opening", "built"} =>
       /\ session.handle = "open" /\ ~ builder.error
       /\ builder.config \in Configs /\ session.proxy = SessionProxy(builder.config)
  /\ stage = "built" => session.tried = Len(Options)
  /\ stage = "failed" => session.handle # "open"

\* The last request is what the client, as it was built, makes of it.
RouteMade ==
  route # None =>
    /\ stage = "built" /\ route.scheme \in Schemes
    /\ route.via = Taken(Resolve(builder.config, route.host, route.scheme))
    /\ route.anyCert = builder.settings.anyCert
    /\ builder.settings.httpsOnly => route.scheme = "https" /\ route.noCert

SetupInv == BuilderInv /\ OptionsSet /\ Stages /\ RouteMade

LEMMA NothingSet ==
  ASSUME session.tried = 0, session.set = <<>>
  PROVE  OptionsSet
<1>1. \A i \in DOMAIN Options : ~ (i <= 0)
  BY OptionsAre
<1>2. <<>> \in Seq(OptionItems)
  OBVIOUS
<1> QED BY <1>1, <1>2 DEF OptionsSet

LEMMA SetupInvInit == SetupInit => SetupInv
<1> SUFFICES ASSUME SetupInit PROVE SetupInv
  OBVIOUS
<1>1. BuilderInv
  BY BuilderInit
<1>2. /\ session = [handle |-> "none", tried |-> 0, set |-> <<>>, proxy |-> None]
      /\ stage = "building" /\ route = None
  BY DEF SetupInit
<1>3. OptionsSet
  BY <1>2, NothingSet
<1> QED BY <1>1, <1>2, <1>3 DEF SetupInv, Stages, RouteMade

\* The options are those of the settings.
LEMMA OptionsStay ==
  ASSUME builder'.settings = builder.settings
  PROVE  Options' = Options /\ OptionItems' = OptionItems
BY DEF Options, OptionItems, PhaseMs

LEMMA SetStays ==
  ASSUME OptionsSet, session'.set = session.set, session'.tried = session.tried,
         builder'.settings = builder.settings
  PROVE  OptionsSet'
BY OptionsStay DEF OptionsSet

LEMMA BuildingKeeps ==
  ASSUME SetupInv,
         \/ \E kind \in Kinds, p \in Proxies : AddProxy(kind, p)
         \/ NoProxy
         \/ \E field \in DOMAIN Settings : \E value \in Settings[field] : Setter(field, value)
         \/ UserAgentInvalid
         \/ NoOp
  PROVE  SetupInv'
<1>1. BuilderInv'
  BY ProxyCallKeeps, SettingCallKeeps DEF SetupInv
<1>2. stage = "building" /\ UNCHANGED <<session, stage, route>>
  BY DEF AddProxy, NoProxy, Setter, UserAgentInvalid, NoOp, Call
<1>3. session.tried = 0 /\ session.set = <<>> /\ session.handle = "none"
  BY <1>2 DEF SetupInv, Stages
<1>4. OptionsSet'
  <2>1. (session.tried = 0)' /\ (session.set = <<>>)'
    BY <1>2, <1>3
  <2>2. \A i \in DOMAIN Options' : ~ (i <= 0)
    <3>1. \A n \in Nat : \A i \in 1..n : ~ (i <= 0)
      OBVIOUS
    <3>2. (Len(Options) \in Nat /\ DOMAIN Options = 1..Len(Options))'
      BY OptionsAre, PTL
    <3> QED BY <3>1, <3>2
  <2> QED BY <2>1, <2>2 DEF OptionsSet
<1> QED BY <1>1, <1>2, <1>3, <1>4 DEF SetupInv, Stages, RouteMade

LEMMA OpeningKeeps ==
  ASSUME SetupInv, OpenSession
  PROVE  SetupInv'
<1>1. /\ stage = "building" /\ ~ builder.error /\ stage' = "opening"
      /\ builder' = [builder EXCEPT !.config = Effective]
      /\ session' = [session EXCEPT !.handle = "open", !.proxy = SessionProxy(Effective)]
      /\ UNCHANGED <<env, route, calls>>
  <2>1. builder' = [builder EXCEPT !.config =
                      IF builder.config = None THEN FromEnv ELSE builder.config]
    BY DEF OpenSession
  <2> QED BY <2>1 DEF OpenSession, Effective
<1>2. BuilderInv'
  BY <1>1, BuilderStays DEF SetupInv
<1>3. /\ builder'.config = Effective /\ builder'.error = builder.error
      /\ builder'.settings = builder.settings
  BY <1>1 DEF SetupInv, BuilderInv, SetupTypes
<1>4. Effective \in Configs
  BY FromEnvIs DEF SetupInv, BuilderInv, SetupTypes, Effective
<1>5. /\ session' = [handle |-> "open", tried |-> session.tried, set |-> session.set,
                     proxy |-> SessionProxy(Effective)]
  BY <1>1 DEF SetupInv, Stages
<1>6. SessionProxy(builder.config)' = SessionProxy(Effective)
  BY <1>3 DEF SessionProxy
<1>7. OptionsSet'
  BY <1>3, <1>5, SetStays DEF SetupInv
<1>8. Stages'
  BY <1>1, <1>3, <1>4, <1>5, <1>6 DEF Stages
<1>9. RouteMade'
  BY <1>1 DEF SetupInv, RouteMade
<1> QED BY <1>2, <1>7, <1>8, <1>9 DEF SetupInv

\* An option more is tried.
LEMMA OptionKeeps ==
  ASSUME SetupInv, SetOption \/ SetOptionIgnored
  PROVE  SetupInv'
<1> DEFINE next == session.tried + 1
<1>1. /\ stage = "opening" /\ session.tried < Len(Options)
      /\ UNCHANGED <<env, builder, stage, route, calls>>
      /\ \/ session' = [session EXCEPT !.tried = next, !.set = Append(session.set, Options[next])]
         \/ session' = [session EXCEPT !.tried = next] /\ Options[next].name \in BestEffort
  BY DEF SetOption, SetOptionIgnored, Opening, NextOption, SetupInv, Stages
<1>2. /\ session.set \in Seq(OptionItems) /\ session.tried \in Nat
      /\ \A i \in DOMAIN Options :
           i <= session.tried /\ Options[i].name \notin BestEffort =>
             Options[i] \in Range(session.set)
  BY DEF SetupInv, OptionsSet
<1>3. /\ session' = [handle |-> session.handle, tried |-> session'.tried, set |-> session'.set,
                     proxy |-> session.proxy]
      /\ session'.tried = next
      /\ \/ session'.set = Append(session.set, Options[next])
         \/ session'.set = session.set /\ Options[next].name \in BestEffort
  BY <1>1 DEF SetupInv, Stages
<1>4. /\ next \in DOMAIN Options /\ next \in Nat
      /\ \A i \in DOMAIN Options : i <= next => i <= session.tried \/ i = next
  BY <1>1, <1>2, OptionsAre
<1> HIDE DEF next
<1>5. Options' = Options /\ OptionItems' = OptionItems
  BY <1>1, OptionsStay
<1>6. Options[next] \in OptionItems
  BY <1>4, OptionsAre
<1>7. /\ session'.set \in Seq(OptionItems)
      /\ Range(session.set) \subseteq Range(session'.set)
      /\ Options[next].name \in BestEffort \/ Options[next] \in Range(session'.set)
  <2>1. CASE session'.set = session.set /\ Options[next].name \in BestEffort
    BY <1>2, <2>1
  <2>2. CASE session'.set = Append(session.set, Options[next])
    <3>1. /\ Append(session.set, Options[next]) \in Seq(OptionItems)
          /\ Len(session.set) + 1 \in DOMAIN Append(session.set, Options[next])
          /\ Append(session.set, Options[next])[Len(session.set) + 1] = Options[next]
          /\ \A i \in DOMAIN session.set :
               /\ i \in DOMAIN Append(session.set, Options[next])
               /\ Append(session.set, Options[next])[i] = session.set[i]
      BY <1>2, <1>6
    <3> QED BY <2>2, <3>1 DEF Range
  <2> QED BY <1>3, <2>1, <2>2
<1>8. OptionsSet'
  <2>1. ASSUME NEW i \in DOMAIN Options, i <= next, Options[i].name \notin BestEffort
        PROVE  Options[i] \in Range(session'.set)
    BY <1>2, <1>4, <1>7, <2>1
  <2> QED BY <1>3, <1>4, <1>5, <1>7, <2>1 DEF OptionsSet, BestEffort
<1>9. BuilderInv'
  BY <1>1, BuilderStays DEF SetupInv
<1>10. Stages'
  BY <1>1, <1>3 DEF SetupInv, Stages, SessionProxy
<1>11. RouteMade'
  BY <1>1 DEF SetupInv, RouteMade
<1> QED BY <1>8, <1>9, <1>10, <1>11 DEF SetupInv

\* The build ends.
LEMMA BuildEnds ==
  ASSUME SetupInv, BuildRefused \/ OpenSessionFails \/ SetOptionFails \/ Built
  PROVE  SetupInv'
<1>1. /\ stage \in {"building", "opening"} /\ UNCHANGED <<env, builder, route, calls>>
      /\ \/ stage' = "failed" /\ stage = "building" /\ session' = session
         \/ stage' = "failed" /\ session' = [session EXCEPT !.handle = "closed"]
         \/ stage' = "built" /\ stage = "opening" /\ session' = session
            /\ session.tried = Len(Options)
  BY DEF BuildRefused, OpenSessionFails, SetOptionFails, Built, Opening
<1>2. BuilderInv'
  BY <1>1, BuilderStays DEF SetupInv
<1>3. /\ session' = [handle |-> session'.handle, tried |-> session.tried, set |-> session.set,
                     proxy |-> session.proxy]
      /\ session'.handle \in {session.handle, "closed"}
      /\ stage' = "failed" => session'.handle # "open"
      /\ stage' = "built" => session'.handle = session.handle
  BY <1>1 DEF SetupInv, Stages
<1>4. OptionsSet'
  BY <1>1, <1>3, SetStays DEF SetupInv
<1>5. Options' = Options
  BY <1>1, OptionsStay
<1>6. Stages'
  BY <1>1, <1>3, <1>5 DEF SetupInv, Stages, SessionProxy
<1>7. RouteMade'
  BY <1>1 DEF SetupInv, RouteMade
<1> QED BY <1>2, <1>4, <1>6, <1>7 DEF SetupInv

LEMMA SendingKeeps ==
  ASSUME SetupInv, Sending
  PROVE  SetupInv'
<1>1. stage = "built" /\ UNCHANGED <<env, builder, session, stage, calls>>
  BY DEF Sending, Send, SendRefused
<1>2. BuilderInv'
  BY <1>1, BuilderStays DEF SetupInv
<1>3. OptionsSet'
  BY <1>1, SetStays DEF SetupInv
<1>4. Options' = Options
  BY <1>1, OptionsStay
<1>5. Stages'
  BY <1>1, <1>4 DEF SetupInv, Stages, SessionProxy
<1>6. ASSUME NEW host \in Hosts, NEW scheme \in Schemes, Send(host, scheme) PROVE RouteMade'
  <2>1. /\ builder.settings.httpsOnly => scheme = "https"
        /\ route' = [host |-> host, scheme |-> scheme,
                     via |-> Taken(Resolve(builder.config, host, scheme)),
                     anyCert |-> builder.settings.anyCert, noCert |-> scheme = "https"]
    BY <1>6 DEF Send
  <2>2. Taken(Resolve(builder.config, host, scheme))' = Taken(Resolve(builder.config, host, scheme))
    BY <1>1 DEF Taken, Resolve
  <2>3. /\ route'.host = host /\ route'.scheme = scheme
        /\ route'.via = Taken(Resolve(builder.config, host, scheme))
        /\ route'.anyCert = builder.settings.anyCert
        /\ builder.settings.httpsOnly => route'.scheme = "https" /\ route'.noCert
    BY <2>1
  <2>4. \A r : Taken(r)' = Taken(r)
    BY <1>1 DEF Taken
  <2> QED BY <1>1, <2>3, <2>4 DEF RouteMade, Resolve
<1>7. ASSUME SendRefused PROVE RouteMade'
  <2>1. route' = None
    BY <1>7 DEF SendRefused
  <2> QED BY <2>1 DEF RouteMade
<1> QED BY <1>2, <1>3, <1>5, <1>6, <1>7 DEF Sending, SetupInv

LEMMA SetupKeeps == SetupInv /\ (SetupNext \/ UNCHANGED setupVars) => SetupInv'
<1> SUFFICES ASSUME SetupInv, SetupNext \/ UNCHANGED setupVars PROVE SetupInv'
  OBVIOUS
<1>1. CASE UNCHANGED setupVars
  <2>1. UNCHANGED <<env, builder, session, stage, route, calls>>
    BY <1>1 DEF setupVars
  <2>2. BuilderInv' /\ OptionsSet' /\ Options' = Options
    BY <2>1, BuilderStays, SetStays, OptionsStay DEF SetupInv
  <2>3. Stages'
    BY <2>1, <2>2 DEF SetupInv, Stages, SessionProxy
  <2>4. RouteMade'
    BY <2>1 DEF SetupInv, RouteMade, Taken, Resolve
  <2> QED BY <2>2, <2>3, <2>4 DEF SetupInv
<1>2. CASE SetupDone
  BY <1>1, <1>2 DEF SetupDone
<1>3. CASE Building
  BY <1>3, BuildingKeeps, OpeningKeeps, OptionKeeps, BuildEnds DEF Building
<1>4. CASE Sending
  BY <1>4, SendingKeeps
<1> QED BY <1>1, <1>2, <1>3, <1>4 DEF SetupNext

-----------------------------------------------------------------------------
(* What a client set up is, by the calls made of its builder.                *)

\* A duration in whole milliseconds: no shorter, and less than one longer.
LEMMA RoundedUp ==
  ASSUME NEW d \in Nat
  PROVE  LET ms == TimeoutMs(d)
         IN  /\ ms \in 1..MaxMs
             /\ ms * PerMs >= d \/ ms = MaxMs
             /\ (ms - 1) * PerMs < d \/ ms = 1
<1> DEFINE up == (d + PerMs - 1) \div PerMs
           least == IF up = 0 THEN 1 ELSE up
           ms == IF least > MaxMs THEN MaxMs ELSE least
<1>1. PerMs \in Nat \ {0} /\ MaxMs \in Nat \ {0} /\ d + PerMs - 1 \in Nat
  BY ScaleOK
<1>2. \A a \in Nat, p \in Nat \ {0} :
        a \div p \in Nat /\ (a \div p) * p <= a /\ a < (a \div p) * p + p
  OBVIOUS
<1>3. /\ up \in Nat /\ up * PerMs <= d + PerMs - 1
      /\ d + PerMs - 1 < up * PerMs + PerMs
  BY <1>1, <1>2
<1> HIDE DEF up
<1>4. up * PerMs \in Nat /\ up * PerMs >= d /\ (up = 0 => d = 0)
  BY <1>1, <1>3
<1>5. (up - 1) * PerMs = up * PerMs - PerMs
  BY <1>1, <1>3
<1>6. (up - 1) * PerMs < d
  BY <1>1, <1>3, <1>5
<1>7. \A a, b \in Int, p \in Nat : a <= b => a * p <= b * p
  OBVIOUS
<1>8. CASE least <= MaxMs
  <2>1. ms = least /\ ms \in 1..MaxMs
    BY <1>1, <1>3, <1>8
  <2>2. ms * PerMs >= d
    <3>1. CASE up = 0
      BY <1>1, <1>4, <2>1, <3>1
    <3>2. CASE up # 0
      BY <1>4, <2>1, <3>2
    <3> QED BY <3>1, <3>2
  <2>3. (ms - 1) * PerMs < d \/ ms = 1
    BY <1>6, <2>1
  <2> QED BY <2>1, <2>2, <2>3 DEF TimeoutMs, up
<1>9. CASE least > MaxMs
  <2>1. ms = MaxMs /\ up # 0 => MaxMs - 1 <= up - 1
    BY <1>1, <1>3, <1>9
  <2>2. up # 0
    BY <1>1, <1>9
  <2>3. (MaxMs - 1) * PerMs <= (up - 1) * PerMs
    <3>1. MaxMs - 1 \in Int /\ up - 1 \in Int /\ MaxMs - 1 <= up - 1 /\ PerMs \in Nat
      BY <1>1, <1>3, <1>9, <2>2
    <3> QED BY <1>7, <3>1
  <2>4. (MaxMs - 1) * PerMs < d
    <3>1. (MaxMs - 1) * PerMs \in Int /\ (up - 1) * PerMs \in Int
      BY <1>1, <1>3
    <3> QED BY <1>6, <2>3, <3>1
  <2>5. TimeoutMs(d) = MaxMs
    BY <1>9 DEF TimeoutMs, up
  <2> QED BY <1>1, <2>4, <2>5
<1> QED BY <1>1, <1>3, <1>8, <1>9

\* What was set is an option open() tries.
LEMMA GivenAre ==
  ASSUME SetupInv, NEW name, NEW value \in Given(name)
  PROVE  \E o \in OptionItems : o.name = name /\ o.value = value
<1>1. session.set \in Seq(OptionItems)
  BY DEF SetupInv, OptionsSet
<1>2. Range(session.set) \subseteq OptionItems
  BY <1>1 DEF Range
<1> QED BY <1>2 DEF Given

\* In a session that stands, each of them is set but for the best-effort ones.
LEMMA AllGiven ==
  ASSUME SetupInv, stage = "built", NEW o \in OptionItems, o.name \notin BestEffort
  PROVE  o.value \in Given(o.name)
<1>1. PICK i \in DOMAIN Options : Options[i] = o
  BY OptionsAre DEF Range
<1>2. i <= session.tried
  BY <1>1, OptionsAre DEF SetupInv, Stages
<1>3. o \in Range(session.set)
  BY <1>1, <1>2 DEF SetupInv, OptionsSet
<1> QED BY <1>3 DEF Given

LEMMA TimeoutsFinite ==
  ASSUME SetupInv
  PROVE  FiniteTimeouts
<1> SUFFICES ASSUME NEW timeouts \in Given("timeouts"), NEW p \in Phases
             PROVE  LET wanted == LastSaid(p)
                        ms == timeouts[p]
                    IN  IF wanted = None THEN ms = (IF p = "connect" THEN ConnectMs ELSE 0)
                        ELSE /\ ms > 0
                             /\ ms * PerMs >= wanted \/ ms = MaxMs
                             /\ (ms - 1) * PerMs < wanted \/ ms = 1
  BY DEF FiniteTimeouts
<1>1. timeouts = [q \in Phases |-> PhaseMs(q)]
  BY GivenAre DEF OptionItems, Item
<1>2. timeouts[p] = PhaseMs(p)
  BY <1>1
<1>3. /\ LastSaid(p) = builder.settings[p]
      /\ builder.settings[p] \in Delays \union {None}
  BY DEF SetupInv, BuilderInv, SettingsSaid, SetupTypes, Settings, Phases, Unset
<1>4. CASE LastSaid(p) = None
  BY <1>2, <1>3, <1>4 DEF PhaseMs
<1>5. CASE LastSaid(p) # None
  <2>1. LastSaid(p) \in Nat /\ timeouts[p] = TimeoutMs(LastSaid(p))
    BY <1>2, <1>3, <1>5, ScaleOK DEF PhaseMs
  <2>2. TimeoutMs(LastSaid(p)) \in 1..MaxMs
    BY <2>1, RoundedUp
  <2>3. TimeoutMs(LastSaid(p)) > 0
    BY <2>2, ScaleOK
  <2> QED BY <1>5, <2>1, <2>3, RoundedUp
<1> QED BY <1>4, <1>5

LEMMA SessionWhole ==
  ASSUME SetupInv
  PROVE  BuiltWhole
<1>1. ASSUME stage = "built", NEW name \in {"callback", "timeouts", "nonblocking", "redirects"}
      PROVE  Given(name) # {}
  <2>1. \E value : Item(name, value) \in OptionItems
    BY DEF OptionItems
  <2>2. PICK o \in OptionItems : o.name = name
    BY <2>1, ItemIs
  <2> QED BY <1>1, <2>2, AllGiven DEF BestEffort
<1> QED BY <1>1 DEF BuiltWhole, SetupInv, BuilderInv, SettingsSaid, Stages

LEMMA OptionsAsSaid ==
  ASSUME SetupInv
  PROVE  OptionsAsAsked
<1>1. \A f \in DOMAIN Settings : builder.settings[f] = LastSaid(f)
  BY DEF SetupInv, BuilderInv, SettingsSaid
<1>2. {"http1", "conns", "redirect", "anyCert", "httpsOnly"} \subseteq DOMAIN Settings
  BY DEF Settings
<1>3. /\ builder.settings.http1 \in BOOLEAN /\ builder.settings.anyCert \in BOOLEAN
      /\ builder.settings.httpsOnly \in BOOLEAN
  BY DEF SetupInv, BuilderInv, SetupTypes, Settings, Unset
<1>4. ASSUME LastSaid("http1") PROVE Given("http2") = {}
  <2>1. \A o \in OptionItems : o.name # "http2"
    BY <1>1, <1>2, <1>4 DEF OptionItems, Item
  <2> QED BY <2>1, GivenAre
<1>5. ASSUME stage = "built" PROVE Given("max_conns") = {LastSaid("conns")} \ {None}
  <2>1. \A o \in OptionItems : o.name = "max_conns" =>
          o.value = LastSaid("conns") /\ LastSaid("conns") # None
    BY <1>1, <1>2 DEF OptionItems, Item
  <2>2. LastSaid("conns") # None =>
          \E o \in OptionItems : o.name = "max_conns" /\ o.value = LastSaid("conns")
    <3>1. LastSaid("conns") # None => Item("max_conns", LastSaid("conns")) \in OptionItems
      BY <1>1, <1>2 DEF OptionItems
    <3> QED BY <3>1, ItemIs
  <2> QED BY <1>5, <2>1, <2>2, GivenAre, AllGiven DEF BestEffort
<1>6. ASSUME stage = "built"
      PROVE  Given("redirects") =
               IF LastSaid("redirect") = None THEN {[follow |-> TRUE, max |-> 10]}
               ELSE {LastSaid("redirect")}
  <2> DEFINE policy == IF LastSaid("redirect") = None THEN [follow |-> TRUE, max |-> 10]
                       ELSE LastSaid("redirect")
  <2>1. DefaultPolicy = [follow |-> TRUE, max |-> 10]
    <3>1. (IF 10 > MaxU32 THEN MaxU32 ELSE 10) = 10
      BY ScaleOK
    <3> QED BY <3>1 DEF DefaultPolicy, Limited
  <2>2. Item("redirects", policy) \in OptionItems
    BY <1>1, <1>2, <2>1 DEF OptionItems
  <2>3. \A o \in OptionItems : o.name = "redirects" => o.value = policy
    <3>1. (IF builder.settings.redirect = None THEN DefaultPolicy ELSE builder.settings.redirect)
            = policy
      BY <1>1, <1>2, <2>1
    <3> HIDE DEF policy
    <3>2. \A o \in OptionItems :
            o.name = "redirects" =>
              o = Item("redirects", IF builder.settings.redirect = None THEN DefaultPolicy
                                    ELSE builder.settings.redirect)
      BY DEF OptionItems, Item
    <3> QED BY <3>1, <3>2, ItemIs
  <2>4. Item("redirects", policy).name = "redirects" /\ Item("redirects", policy).value = policy
    BY DEF Item
  <2> HIDE DEF policy
  <2>5. Given("redirects") = {policy}
    BY <1>6, <2>2, <2>3, <2>4, GivenAre, AllGiven DEF BestEffort
  <2> QED BY <2>5 DEF policy
<1>7. ASSUME route # None
      PROVE  /\ route.anyCert <=> LastSaid("anyCert")
             /\ LastSaid("httpsOnly") => route.scheme = "https" /\ route.noCert
  BY <1>1, <1>2, <1>3, <1>7 DEF SetupInv, RouteMade
<1> QED BY <1>4, <1>5, <1>6, <1>7 DEF OptionsAsAsked

\* What NO_PROXY parses to exempts the hosts its words do.
LEMMA ExemptIs ==
  ASSUME SetupInv, NEW host
  PROVE  Exempt(host) <=> \E pattern \in Effective.noProxy : Matches(pattern, host)
<1>1. Effective.noProxy = IF LastNoProxy = 0 THEN ParseNoProxy(env.noProxy) ELSE {}
  BY DEF SetupInv, BuilderInv, ConfigSaid
<1> DEFINE Pattern(e) ==
             IF e.labels = <<"*">> THEN [kind |-> "wildcard", labels |-> <<>>]
             ELSE [kind |-> IF e.dot \/ Len(e.labels) > 1 THEN "suffix" ELSE "exact",
                   labels |-> e.labels]
           Meant(e) == \/ e.labels = <<"*">>
                       \/ e.labels = host
                       \/ IsSuffix(e.labels, host) /\ (e.dot \/ Len(e.labels) > 1)
<1>2. ParseNoProxy(env.noProxy) = {Pattern(e) : e \in env.noProxy}
  BY DEF ParseNoProxy
<1>3. ASSUME NEW e PROVE Matches(Pattern(e), host) <=> Meant(e)
  <2>1. CASE e.labels = <<"*">>
    <3>1. Pattern(e).kind = "wildcard"
      BY <2>1
    <3> QED BY <2>1, <3>1 DEF Matches
  <2>2. CASE e.labels # <<"*">>
    <3>1. /\ Pattern(e).labels = e.labels
          /\ Pattern(e).kind = IF e.dot \/ Len(e.labels) > 1 THEN "suffix" ELSE "exact"
      BY <2>2
    <3> HIDE DEF Pattern
    <3> QED BY <2>2, <3>1 DEF Matches
  <2> QED BY <2>1, <2>2
<1>4. Exempt(host) <=> LastNoProxy = 0 /\ \E e \in env.noProxy : Meant(e)
  BY DEF Exempt
<1> HIDE DEF Pattern, Meant
<1> QED BY <1>1, <1>2, <1>3, <1>4

LEMMA RoutesFollow ==
  ASSUME SetupInv
  PROVE  RoutesByHistory
<1> SUFFICES ASSUME route # None
             PROVE  LET mine == LastFor(route.scheme)
                    IN  IF Exempt(route.host) THEN route.via = Bare("direct")
                        ELSE IF mine # None THEN route.via = Named(mine)
                        ELSE /\ route.via.how # "direct"
                             /\ route.via.proxy # None => route.via.proxy.creds = None
  BY DEF RoutesByHistory
<1> DEFINE config == builder.config
<1>1. /\ stage = "built" /\ route.scheme \in Schemes
      /\ route.via = Taken(Resolve(config, route.host, route.scheme))
      /\ config \in Configs /\ session.proxy = SessionProxy(config)
  BY DEF SetupInv, Stages, RouteMade
<1>2. Effective = config
  BY <1>1, ProxiesOK DEF Effective
<1>3. LastFor(route.scheme) = config[route.scheme]
  BY <1>1, <1>2 DEF SetupInv, BuilderInv, ConfigSaid
<1>4. Exempt(route.host) <=> \E pattern \in config.noProxy : Matches(pattern, route.host)
  BY <1>2, ExemptIs
<1>5. /\ Bare("direct").how = "direct" /\ Bare("automatic").how = "automatic"
      /\ Bare("system").how = "system" /\ Bare("system").proxy = None
      /\ \A p : Named(p).how = "named" /\ Named(p).proxy = p
  BY DEF Bare, Named
<1>6. CASE Exempt(route.host)
  BY <1>1, <1>4, <1>5, <1>6 DEF Taken, Resolve
<1>7. CASE ~ Exempt(route.host) /\ LastFor(route.scheme) # None
  BY <1>1, <1>3, <1>4, <1>5, <1>7 DEF Taken, Resolve
<1>8. CASE ~ Exempt(route.host) /\ LastFor(route.scheme) = None
  <2>1. route.via = IF session.proxy.how = "named" THEN session.proxy ELSE Bare("system")
    BY <1>1, <1>3, <1>4, <1>5, <1>8 DEF Taken, Resolve
  <2> DEFINE p == IF config.https # None THEN config.https ELSE config.http
  <2>2. session.proxy = IF p = None THEN Bare("automatic")
                        ELSE Named([p EXCEPT !.creds = None])
    BY <1>1 DEF SessionProxy
  <2>3. p # None => p \in ProxyChoices
    BY <1>1 DEF Configs
  <2> HIDE DEF p
  <2>4. p # None => [p EXCEPT !.creds = None].creds = None
    BY <2>3 DEF ProxyChoices
  <2>5. CASE p = None
    BY <1>5, <1>8, <2>1, <2>2, <2>5
  <2>6. CASE p # None
    <3>1. route.via = Named([p EXCEPT !.creds = None])
      BY <1>5, <2>1, <2>2, <2>6
    <3>2. route.via.how = "named" /\ route.via.proxy = [p EXCEPT !.creds = None]
      BY <1>5, <3>1
    <3> QED BY <1>8, <2>4, <2>6, <3>2
  <2> QED BY <2>5, <2>6
<1> QED BY <1>6, <1>7, <1>8

-----------------------------------------------------------------------------
(* URLs: what is made of the parts of a text stays as it is if made again.   *)

\* A letter of a host's name that is left alone.
Settled(c) ==
  /\ c \in STRING /\ Decoded(c) = c /\ Lower(c) = c
  /\ c \notin {"/", "%FF", "ue", "fraction"}

LEMMA DecodedLetters ==
  ASSUME LettersOK, NEW c \in STRING
  PROVE  /\ Decoded(c) \in STRING /\ Decoded(c) \notin {"%41", "%2F", "%C3%BC"}
         /\ Decoded(c) = "%FF" => c = "%FF"
<1>1. CASE c = "%41"
  <2>1. Decoded(c) = "A"
    BY <1>1 DEF Decoded
  <2> QED BY <2>1 DEF LettersOK
<1>2. CASE c = "%2F"
  <2>1. Decoded(c) = "/"
    BY <1>2 DEF Decoded
  <2> QED BY <2>1 DEF LettersOK
<1>3. CASE c = "%C3%BC"
  <2>1. Decoded(c) = "ue"
    BY <1>3 DEF Decoded
  <2> QED BY <2>1 DEF LettersOK
<1>4. CASE c \notin {"%41", "%2F", "%C3%BC"}
  <2>1. Decoded(c) = c
    BY <1>4 DEF Decoded
  <2> QED BY <1>4, <2>1
<1> QED BY <1>1, <1>2, <1>3, <1>4

LEMMA LoweredLetters ==
  ASSUME LettersOK, NEW d \in STRING,
         d \notin {"%41", "%2F", "%C3%BC", "%FF", "/", "ue", "fraction"}
  PROVE  Settled(Lower(d))
<1>1. CASE d \in {"A", "HTTP", "HTTPS"}
  <2>1. Lower(d) \in {"a", "http", "https"}
    BY <1>1 DEF Lower
  <2>2. \A e \in {"a", "http", "https"} : Lower(e) = e
    BY DEF Lower
  <2>3. \A e \in {"a", "http", "https"} : Decoded(e) = e
    BY DEF Decoded
  <2> QED BY <2>1, <2>2, <2>3 DEF Settled, LettersOK
<1>2. CASE d \notin {"A", "HTTP", "HTTPS"}
  <2>1. Lower(d) = d
    BY <1>2 DEF Lower
  <2>2. Decoded(d) = d
    BY DEF Decoded
  <2> QED BY <2>1, <2>2 DEF Settled
<1> QED BY <1>1, <1>2

LEMMA AsciiLetters ==
  ASSUME LettersOK, NEW d \in STRING, d \notin {"%41", "%2F", "%C3%BC", "%FF", "/"},
         Punycode(d) # "/"
  PROVE  Settled(Punycode(d))
<1>1. CASE d = "ue"
  <2>1. Punycode(d) = "xn--"
    BY <1>1 DEF Punycode
  <2>2. Lower("xn--") = "xn--"
    BY DEF Lower
  <2>3. Decoded("xn--") = "xn--"
    BY DEF Decoded
  <2> QED BY <2>1, <2>2, <2>3 DEF Settled, LettersOK
<1>2. CASE d # "ue"
  <2>1. d # "fraction" /\ Punycode(d) = Lower(d)
    BY <1>2 DEF Punycode
  <2> QED BY <1>2, <2>1, LoweredLetters
<1> QED BY <1>1, <1>2

\* A name of such letters is done.
LEMMA SettledName ==
  ASSUME NEW name, name = [i \in DOMAIN name |-> name[i]], \A i \in DOMAIN name : Settled(name[i])
  PROVE  NormalizeRegisteredName(name) = [kind |-> "name", name |-> name]
<1> DEFINE decoded == [i \in DOMAIN name |-> Decoded(name[i])]
           lowered == [i \in DOMAIN decoded |-> Lower(decoded[i])]
<1>1. decoded = name
  BY DEF Settled
<1>2. lowered = name
  BY <1>1 DEF Settled
<1>3. "%FF" \notin ToSet(name) /\ "/" \notin ToSet(name) /\ {"ue", "fraction"} \cap ToSet(name) = {}
  BY DEF ToSet, Settled
<1> QED BY <1>1, <1>2, <1>3 DEF NormalizeRegisteredName

LEMMA NameDone ==
  ASSUME LettersOK, NEW name \in Seq(STRING), name # <<>>,
         ~ IsFailed(NormalizeRegisteredName(name))
  PROVE  LET host == NormalizeRegisteredName(name)
         IN  \E t \in Seq(STRING) :
               /\ t # <<>> /\ host = [kind |-> "name", name |-> t]
               /\ NormalizeRegisteredName(t) = host
<1> DEFINE decoded == [i \in DOMAIN name |-> Decoded(name[i])]
           ascii == [i \in DOMAIN decoded |-> Punycode(decoded[i])]
           lowered == [i \in DOMAIN decoded |-> Lower(decoded[i])]
           host == NormalizeRegisteredName(name)
<1>1. \A e : IsFailed(Failed(e))
  BY DEF IsFailed, Failed
<1>2. /\ "%FF" \notin ToSet(name) /\ "/" \notin ToSet(decoded)
      /\ \/ /\ {"ue", "fraction"} \cap ToSet(decoded) = {}
            /\ host = [kind |-> "name", name |-> lowered]
         \/ "/" \notin ToSet(ascii) /\ host = [kind |-> "name", name |-> ascii]
  BY <1>1 DEF NormalizeRegisteredName
<1>3. /\ Len(name) \in Nat /\ Len(name) # 0 /\ DOMAIN name = 1..Len(name)
      /\ \A i \in DOMAIN name : name[i] \in STRING
  OBVIOUS
<1>4. /\ DOMAIN decoded = DOMAIN name /\ DOMAIN ascii = DOMAIN name /\ DOMAIN lowered = DOMAIN name
      /\ \A i \in DOMAIN name : /\ decoded[i] = Decoded(name[i])
                                /\ ascii[i] = Punycode(decoded[i])
                                /\ lowered[i] = Lower(decoded[i])
  OBVIOUS
<1>5. \A i \in DOMAIN name :
        decoded[i] \in STRING /\ decoded[i] \notin {"%41", "%2F", "%C3%BC", "%FF", "/"}
  <2> SUFFICES ASSUME NEW i \in DOMAIN name
               PROVE  /\ decoded[i] \in STRING
                      /\ decoded[i] \notin {"%41", "%2F", "%C3%BC", "%FF", "/"}
    OBVIOUS
  <2>1. name[i] # "%FF" /\ decoded[i] # "/" /\ decoded[i] = Decoded(name[i]) /\ name[i] \in STRING
    BY <1>2, <1>3, <1>4 DEF ToSet
  <2> HIDE DEF decoded
  <2> QED BY <2>1, DecodedLetters
<1>6. PICK t \in {lowered, ascii} :
        /\ host = [kind |-> "name", name |-> t]
        /\ \A i \in DOMAIN name : Settled(t[i])
  <2>1. CASE /\ {"ue", "fraction"} \cap ToSet(decoded) = {}
             /\ host = [kind |-> "name", name |-> lowered]
    <3>1. \A i \in DOMAIN name : decoded[i] \notin {"ue", "fraction"}
      BY <2>1, <1>4 DEF ToSet
    <3>2. \A i \in DOMAIN name : Settled(lowered[i])
      <4> HIDE DEF decoded
      <4> QED BY <1>4, <1>5, <3>1, LoweredLetters
    <3> QED BY <2>1, <3>2
  <2>2. CASE "/" \notin ToSet(ascii) /\ host = [kind |-> "name", name |-> ascii]
    <3>1. \A i \in DOMAIN name : Punycode(decoded[i]) # "/"
      BY <2>2, <1>4 DEF ToSet
    <3>2. \A i \in DOMAIN name : Settled(ascii[i])
      <4> HIDE DEF decoded
      <4> QED BY <1>4, <1>5, <3>1, AsciiLetters
    <3> QED BY <2>2, <3>2
  <2> QED BY <1>2, <2>1, <2>2
<1>7. /\ DOMAIN t = 1..Len(name) /\ t = [i \in 1..Len(name) |-> t[i]]
      /\ \A i \in 1..Len(name) : t[i] \in STRING
  BY <1>3, <1>4, <1>6 DEF Settled
<1> HIDE DEF host, lowered, ascii, decoded
<1>8. t \in Seq(STRING) /\ t # <<>> /\ t = [i \in DOMAIN t |-> t[i]]
  BY <1>3, <1>7
<1>9. NormalizeRegisteredName(t) = host
  BY <1>3, <1>6, <1>7, <1>8, SettledName
<1> QED BY <1>6, <1>8, <1>9 DEF host

-----------------------------------------------------------------------------
(* What a Url is made of.                                                    *)

\* A host as a Url keeps it.
HostDone(host) ==
  /\ host \in [kind : HostKinds, name : Seq(STRING)]
  /\ host.name # <<>> /\ host.kind # "notV6"
  /\ NormalizeHost(host) = host

LEMMA HostIsDone ==
  ASSUME LettersOK, NEW host \in [kind : HostKinds, name : Seq(STRING)],
         host.name # <<>>, host.kind # "notV6", ~ IsFailed(NormalizeHost(host))
  PROVE  HostDone(NormalizeHost(host))
<1>0. /\ host = [kind |-> host.kind, name |-> host.name]
      /\ host.kind \in HostKinds /\ host.name \in Seq(STRING)
  OBVIOUS
<1>1. CASE host.kind = "name"
  <2>1. NormalizeHost(host) = NormalizeRegisteredName(host.name)
    BY <1>1 DEF NormalizeHost
  <2>2. PICK t \in Seq(STRING) :
          /\ t # <<>> /\ NormalizeHost(host) = [kind |-> "name", name |-> t]
          /\ NormalizeRegisteredName(t) = NormalizeHost(host)
    BY <2>1, <1>0, NameDone
  <2>3. NormalizeHost([kind |-> "name", name |-> t]) = NormalizeRegisteredName(t)
    BY DEF NormalizeHost
  <2> QED BY <2>2, <2>3 DEF HostDone, HostKinds
<1>2. CASE host.kind = "v6"
  <2>1. NormalizeHost(host) = [kind |-> "v6", name |-> <<"::1">>]
    BY <1>0, <1>2 DEF NormalizeHost
  <2>2. NormalizeHost([kind |-> "v6", name |-> <<"::1">>]) = [kind |-> "v6", name |-> <<"::1">>]
    BY DEF NormalizeHost
  <2>3. <<"::1">> \in Seq(STRING) /\ <<"::1">> # <<>>
    BY DEF LettersOK
  <2> QED BY <2>1, <2>2, <2>3 DEF HostDone, HostKinds
<1>3. CASE host.kind \in {"v4", "vFuture"}
  <2>1. NormalizeHost(host) = host
    BY <1>3 DEF NormalizeHost
  <2> QED BY <1>3, <2>1 DEF HostDone
<1> QED BY <1>0, <1>1, <1>2, <1>3 DEF HostKinds

\* A host that is kept is neither missing nor an error.
LEMMA HostStands ==
  ASSUME NoneIsNoText, NEW host, HostDone(host)
  PROVE  host # None /\ ~ IsFailed(host)
<1>1. host = [kind |-> host.kind, name |-> host.name] /\ host # None
  BY DEF HostDone, NoneIsNoText
<1>2. "kind" \in DOMAIN host
  BY <1>1
<1> QED BY <1>1, <1>2 DEF IsFailed

\* What is encoded stays as it is.
LEMMA EncodedOnce == \A t : EncodedAll(EncodedAll(t)) = EncodedAll(t)
<1>1. \A s : Encoded(Encoded(s)) = Encoded(s)
  BY DEF Encoded
<1> QED BY <1>1 DEF EncodedAll

LEMMA EscapesStay == \A t : "%zz" \in ToSet(EncodedAll(t)) => "%zz" \in ToSet(t)
<1>1. \A s : Encoded(s) = "%zz" => s = "%zz"
  BY DEF Encoded
<1> QED BY <1>1 DEF EncodedAll, ToSet

\* Userinfo as a text shows it, and the userinfo that is kept of one.
Shown(user) ==
  IF user = NoUser THEN None
  ELSE <<user.username>> \o IF user.password = None THEN <<>> ELSE user.password
UserDone(user) == Userinfo(EncodedAll(Shown(user))) = user

\* A user and a password, the password of what follows the first colon.
User(name, password) == [username |-> name, password |-> password]
Password(rest) == IF rest \in {<<>>, <<"">>} THEN None ELSE rest

LEMMA ShownUser ==
  ASSUME NEW name, NEW password
  PROVE  /\ Shown(NoUser) = None
         /\ (password = None /\ User(name, password) # NoUser) =>
              Shown(User(name, password)) = <<name>> \o <<>>
         /\ password # None => Shown(User(name, password)) = <<name>> \o password
<1>1. User(name, password).username = name /\ User(name, password).password = password
  BY DEF User
<1>2. NoUser.password = None
  BY DEF NoUser
<1>3. password # None => User(name, password) # NoUser
  BY <1>1, <1>2
<1> HIDE DEF User
<1> QED BY <1>1, <1>3 DEF Shown

LEMMA OneLetter ==
  ASSUME NEW S, NEW a \in S
  PROVE  /\ <<a>> \in Seq(S) /\ <<a>>[1] = a /\ DOMAIN <<a>> = {1}
         /\ Tail(<<a>>) = <<>> /\ <<a>> \o <<>> = <<a>>
<1>1. <<a>> \in Seq(S)
  OBVIOUS
<1>2. <<a>>[1] = a /\ DOMAIN <<a>> = {1}
  OBVIOUS
<1>3. Tail(<<a>>) = <<>>
  OBVIOUS
<1>4. <<a>> \o <<>> = <<a>>
  OBVIOUS
<1> QED BY <1>1, <1>2, <1>3, <1>4

LEMMA FirstAndRest ==
  ASSUME NEW S, NEW e \in Seq(S), e # <<>>
  PROVE  e[1] \in S /\ Tail(e) \in Seq(S) /\ e = <<e[1]>> \o Tail(e)
<1>1. <<e[1]>> \o Tail(e) \in Seq(S) /\ Len(<<e[1]>> \o Tail(e)) = Len(e)
  OBVIOUS
<1>2. \A i \in 1..Len(e) : (<<e[1]>> \o Tail(e))[i] = e[i]
  OBVIOUS
<1>3. \A s \in Seq(S), t \in Seq(S) : Len(s) = Len(t) /\ (\A i \in 1..Len(s) : s[i] = t[i]) => s = t
  OBVIOUS
<1> QED BY <1>1, <1>2, <1>3

LEMMA UserIsDone ==
  ASSUME LettersOK, NoneIsNoText, NEW parts \in Seq(STRING) \union {None}, parts # <<>>
  PROVE  UserDone(Userinfo(EncodedAll(parts)))
<1>1. EncodedAll(None) = None /\ Userinfo(None) = NoUser
  BY DEF EncodedAll, Userinfo
<1>2. CASE parts = None
  BY <1>1, <1>2, ShownUser DEF UserDone
<1>3. CASE parts # None
  <2> DEFINE e == EncodedAll(parts)
  <2>1. e \in Seq(STRING) /\ e # <<>>
    <3>1. e = [i \in DOMAIN parts |-> Encoded(parts[i])]
      BY <1>3 DEF EncodedAll
    <3>2. /\ parts \in Seq(STRING) /\ Len(parts) \in Nat /\ Len(parts) # 0
          /\ DOMAIN parts = 1..Len(parts) /\ \A i \in DOMAIN parts : parts[i] \in STRING
      BY <1>3
    <3>3. \A i \in DOMAIN parts : Encoded(parts[i]) \in STRING
      BY <3>2 DEF LettersOK, Encoded
    <3> HIDE DEF e
    <3>4. DOMAIN e = 1..Len(parts) /\ \A i \in 1..Len(parts) : e[i] \in STRING
      BY <3>1, <3>2, <3>3
    <3>5. e = [i \in 1..Len(parts) |-> e[i]]
      BY <3>1, <3>2
    <3> QED BY <3>2, <3>4, <3>5
  <2>2. EncodedAll(e) = e
    BY EncodedOnce
  <2> HIDE DEF e
  <2>3. \A s \in Seq(STRING) : s # None
    BY DEF NoneIsNoText
  <2>4. \A s \in Seq(STRING) : Userinfo(s) = User(s[1], Password(Tail(s)))
    BY <2>3 DEF Userinfo, User, Password
  <2>5. PICK a \in STRING, rest \in Seq(STRING) : a = e[1] /\ rest = Tail(e) /\ e = <<a>> \o rest
    BY <2>1, FirstAndRest
  <2>6. /\ <<a>> \in Seq(STRING) /\ Tail(<<a>>) = <<>> /\ <<a>>[1] = a /\ <<a>> \o <<>> = <<a>>
        /\ EncodedAll(<<a>>) = <<a>>
    <3>1. Encoded(a) = a
      <4>1. 1 \in DOMAIN e
        BY <2>1
      <4>2. e[1] = Encoded(e[1])
        BY <2>2, <2>3, <2>1, <4>1 DEF EncodedAll
      <4> QED BY <2>5, <4>2
    <3>2. \A t : t # None /\ DOMAIN t = {1} /\ t[1] = a /\ t = [i \in DOMAIN t |-> t[i]] =>
                    EncodedAll(t) = t
      BY <3>1 DEF EncodedAll
    <3>3. <<a>> = [i \in DOMAIN <<a>> |-> <<a>>[i]]
      OBVIOUS
    <3>4. /\ <<a>> \in Seq(STRING) /\ Tail(<<a>>) = <<>> /\ <<a>>[1] = a /\ <<a>> \o <<>> = <<a>>
          /\ DOMAIN <<a>> = {1}
      BY OneLetter
    <3> QED BY <2>3, <3>2, <3>3, <3>4
  <2>7. Userinfo(e) = User(a, Password(rest)) /\ Userinfo(<<a>>) = User(a, None)
    <3>1. Password(<<>>) = None
      BY DEF Password
    <3> QED BY <2>1, <2>4, <2>5, <2>6, <3>1
  <2>8. Password(rest) = None \/ (Password(rest) = rest /\ rest # None)
    BY <2>3 DEF Password
  <2> SUFFICES UserDone(Userinfo(e))
    BY DEF e
  <2> HIDE DEF Password, User
  <2>9. CASE Password(rest) = None
    <3>1. Userinfo(e) = User(a, None)
      BY <2>7, <2>9
    <3>2. User(a, None) # NoUser => EncodedAll(Shown(User(a, None))) = <<a>>
      BY <2>6, ShownUser
    <3> QED BY <1>1, <2>7, <3>1, <3>2, ShownUser DEF UserDone
  <2>10. CASE Password(rest) = rest /\ rest # None
    <3>1. Userinfo(e) = User(a, rest)
      BY <2>7, <2>10
    <3>2. Shown(User(a, rest)) = e
      BY <2>5, <2>10, ShownUser
    <3> QED BY <2>2, <3>1, <3>2 DEF UserDone
  <2> QED BY <2>8, <2>9, <2>10
<1> QED BY <1>2, <1>3

-----------------------------------------------------------------------------
(* A Url is made of seven parts, and read back from its text.                *)

ShownPort(port, scheme) == IF port # DefaultPort(scheme) THEN port ELSE None
Written(scheme, userinfo, host, port, path, query, fragment) ==
  [scheme |-> scheme, userinfo |-> userinfo, host |-> host, port |-> port,
   path |-> path, query |-> query, fragment |-> fragment]
Record(scheme, https, host, port, explicit, user, path, query, fragment, target, shown) ==
  [scheme |-> scheme, isHttps |-> https, host |-> host, port |-> port,
   explicitPort |-> explicit, user |-> user, path |-> path,
   query |-> query, fragment |-> fragment, pathAndQuery |-> target, serialized |-> shown]
Made(scheme, host, port, user, path, query, fragment) ==
  Record(scheme, scheme
    = "https", host, port, port # DefaultPort(scheme), user, path, query, fragment,
         [path |-> path, query |-> query],
         Written(scheme, None, host, ShownPort(port, scheme), path, query, fragment))

PathMade(path) == IF path = NoPath THEN Root ELSE EncodedPath(path)

LEMMA RecordFields ==
  ASSUME NEW scheme, NEW https, NEW host, NEW port, NEW explicit, NEW user, NEW path, NEW query,
         NEW fragment, NEW target, NEW shown, NEW u,
         u = Record(scheme, https, host, port, explicit, user, path, query, fragment, target, shown)
  PROVE  /\ u.scheme = scheme /\ u.host = host /\ u.port = port
         /\ Port(u) = IF explicit THEN port ELSE None
         /\ u.user = user /\ u.path = path /\ u.query = query /\ u.fragment = fragment
         /\ u.serialized = shown /\ u.pathAndQuery = target /\ "scheme" \in DOMAIN u
BY DEF Record, Port

\* What a change of some fields makes of a record.
WithTexts(u, target, shown) == [u EXCEPT !.pathAndQuery = target, !.serialized = shown]
WithQuery(u, query) == [u EXCEPT !.query = query]
WithFragment(u, fragment) == [u EXCEPT !.fragment = fragment]
WithUser(u, user) == [u EXCEPT !.user = user]

LEMMA TextsChange ==
  ASSUME NEW scheme, NEW https, NEW host, NEW port, NEW explicit, NEW user, NEW path, NEW query,
         NEW fragment, NEW target, NEW shown, NEW u, NEW a, NEW b,
         u = Record(scheme, https, host, port, explicit, user, path, query, fragment, target, shown)
  PROVE  WithTexts(u, a, b)
           = Record(scheme, https, host, port, explicit, user, path, query, fragment, a, b)
<1>1. [u EXCEPT !.pathAndQuery = a]
        = Record(scheme, https, host, port, explicit, user, path, query, fragment, a, shown)
  BY DEF Record
<1>2. [Record(scheme, https, host, port, explicit, user, path, query, fragment, a, shown)
         EXCEPT !.serialized = b]
        = Record(scheme, https, host, port, explicit, user, path, query, fragment, a, b)
  BY DEF Record
<1> QED BY <1>1, <1>2 DEF WithTexts

LEMMA QueryChange ==
  ASSUME NEW scheme, NEW https, NEW host, NEW port, NEW explicit, NEW user, NEW path, NEW query,
         NEW fragment, NEW target, NEW shown, NEW u, NEW a,
         u = Record(scheme, https, host, port, explicit, user, path, query, fragment, target, shown)
  PROVE  WithQuery(u, a)
           = Record(scheme, https, host, port, explicit, user, path, a, fragment, target, shown)
BY DEF Record, WithQuery

LEMMA FragmentChange ==
  ASSUME NEW scheme, NEW https, NEW host, NEW port, NEW explicit, NEW user, NEW path, NEW query,
         NEW fragment, NEW target, NEW shown, NEW u, NEW a,
         u = Record(scheme, https, host, port, explicit, user, path, query, fragment, target, shown)
  PROVE  WithFragment(u, a)
           = Record(scheme, https, host, port, explicit, user, path, query, a, target, shown)
BY DEF Record, WithFragment

LEMMA UserChange ==
  ASSUME NEW scheme, NEW https, NEW host, NEW port, NEW explicit, NEW user, NEW path, NEW query,
         NEW fragment, NEW target, NEW shown, NEW u, NEW a,
         u = Record(scheme, https, host, port, explicit, user, path, query, fragment, target, shown)
  PROVE  WithUser(u, a)
           = Record(scheme, https, host, port, explicit, a, path, query, fragment, target, shown)
BY DEF Record, WithUser

LEMMA MadeFields ==
  ASSUME NEW scheme, NEW host, NEW port, NEW user, NEW path, NEW query, NEW fragment,
         NEW u, u = Made(scheme, host, port, user, path, query, fragment)
  PROVE  /\ u.scheme = scheme /\ u.host = host /\ u.port = port /\ u.user = user
         /\ u.path = path /\ u.query = query /\ u.fragment = fragment
         /\ ~ IsFailed(u)
<1>1. /\ u.scheme = scheme /\ u.host = host /\ u.port = port
      /\ u.user = user /\ u.path = path /\ u.query = query /\ u.fragment = fragment
      /\ "scheme" \in DOMAIN u
  BY RecordFields DEF Made
<1> QED BY <1>1 DEF IsFailed

LEMMA MadeTexts ==
  ASSUME NEW scheme, NEW host, NEW port, NEW user, NEW path, NEW query, NEW fragment,
         NEW u, u = Made(scheme, host, port, user, path, query, fragment)
  PROVE  /\ u.serialized
              = Written(scheme, None, host, ShownPort(port, scheme), path, query, fragment)
         /\ u.pathAndQuery.path = path /\ u.pathAndQuery.query = query
         /\ Port(u) = ShownPort(port, scheme)
         /\ u.pathAndQuery = PathAndQuery(u)
<1> DEFINE https == scheme = "https"
           explicit == port # DefaultPort(scheme)
           target == [path |-> path, query |-> query]
           shown == Written(scheme, None, host, ShownPort(port, scheme), path, query, fragment)
<1>1. u = Record(scheme, https, host, port, explicit, user, path, query, fragment, target, shown)
  BY DEF Made
<1> HIDE DEF https, explicit, target, shown
<1>2. /\ Port(u) = IF explicit THEN port ELSE None
      /\ u.serialized = shown /\ u.pathAndQuery = target
      /\ u.path = path /\ u.query = query
  BY <1>1, RecordFields
<1>3. Port(u) = ShownPort(port, scheme)
  BY <1>2 DEF explicit, ShownPort
<1>4. target.path = path /\ target.query = query /\ target = PathAndQuery(u)
  BY <1>2 DEF target, PathAndQuery
<1> QED BY <1>2, <1>3, <1>4 DEF shown

\* Rebuilding the texts of a Url makes it anew.
LEMMA Rebuilt ==
  ASSUME NEW scheme, NEW host, NEW port, NEW user, NEW path, NEW query, NEW fragment,
         NEW target, NEW shown, NEW u,
         u = Record(scheme, scheme = "https", host, port, port # DefaultPort(scheme),
                    user, path, query, fragment, target, shown)
  PROVE  RebuildSerialized(u) = Made(scheme, host, port, user, path, query, fragment)
<1> DEFINE https == scheme = "https"
           explicit == port # DefaultPort(scheme)
<1>1. u = Record(scheme, https, host, port, explicit, user, path, query, fragment, target, shown)
  OBVIOUS
<1> HIDE DEF https, explicit
<1>2. /\ u.scheme = scheme /\ u.host = host /\ u.port = port
      /\ Port(u) = IF explicit THEN port ELSE None
      /\ u.user = user /\ u.path = path /\ u.query = query /\ u.fragment = fragment
  BY <1>1, RecordFields
<1>3. Port(u) = ShownPort(port, scheme)
  BY <1>2 DEF explicit, ShownPort
<1>4. /\ PathAndQuery(u) = [path |-> path, query |-> query]
      /\ Serialized(u) = Written(scheme, None, host, ShownPort(port, scheme), path, query, fragment)
  BY <1>2, <1>3 DEF PathAndQuery, Serialized, Written
<1>5. RebuildSerialized(u) = WithTexts(u, PathAndQuery(u), Serialized(u))
  BY DEF RebuildSerialized, WithTexts
<1>6. RebuildSerialized(u)
        = Record(scheme, https, host, port, explicit, user, path, query, fragment,
                 [path |-> path, query |-> query],
                 Written(scheme, None, host, ShownPort(port, scheme), path, query, fragment))
  BY <1>1, <1>4, <1>5, TextsChange
<1> QED BY <1>6 DEF Made, https, explicit

LEMMA MadeChanges ==
  ASSUME NEW scheme, NEW host, NEW port, NEW user, NEW path, NEW query, NEW fragment,
         NEW u, u = Made(scheme, host, port, user, path, query, fragment), NEW a, NEW b
  PROVE  /\ WithUser(u, a) = Made(scheme, host, port, a, path, query, fragment)
         /\ RebuildSerialized(WithQuery(u, a)) = Made(scheme, host, port, user, path, a, fragment)
         /\ RebuildSerialized(WithFragment(WithQuery(u, a), b))
              = Made(scheme, host, port, user, path, a, b)
         /\ RebuildSerialized(WithFragment(WithUser(u, a), b))
              = Made(scheme, host, port, a, path, query, b)
<1> DEFINE https == scheme = "https"
           explicit == port # DefaultPort(scheme)
           target == [path |-> path, query |-> query]
           shown == Written(scheme, None, host, ShownPort(port, scheme), path, query, fragment)
           R(usr, q, f) == Record(scheme, https, host, port, explicit, usr, path, q, f, target,
             shown)
<1>1. u = R(user, query, fragment)
  BY DEF Made
<1>2. R(a, query, fragment) = Made(scheme, host, port, a, path, query, fragment)
  BY DEF Made
<1>3. \A usr, q, f : RebuildSerialized(R(usr, q, f)) = Made(scheme, host, port, usr, path, q, f)
  <2> TAKE usr, q, f
  <2> HIDE DEF target, shown
  <2> QED BY Rebuilt
<1> HIDE DEF https, explicit, target, shown
<1>4. WithUser(u, a) = R(a, query, fragment)
  BY <1>1, UserChange
<1>5. WithQuery(u, a) = R(user, a, fragment)
  BY <1>1, QueryChange
<1>6. WithFragment(R(user, a, fragment), b) = R(user, a, b)
  BY FragmentChange
<1>7. WithFragment(R(a, query, fragment), b) = R(a, query, b)
  BY FragmentChange
<1> HIDE DEF R
<1> QED BY <1>2, <1>3, <1>4, <1>5, <1>6, <1>7

LEMMA ParseMakes ==
  ASSUME NEW text, ParseErrors(text) = {}
  PROVE  Parse(text)
           = Made(Lower(text.scheme), NormalizeHost(text.host), PortOf(text, Lower(text.scheme)),
                            Userinfo(EncodedAll(text.userinfo)), PathMade(text.path),
                            EncodedAll(text.query), EncodedAll(text.fragment))
<1>1. Parse(text) = RebuildSerialized(Fields(text))
  BY DEF Parse
<1> QED BY <1>1, Rebuilt DEF Fields, PathMade, Record

\* A path beside an authority, and one as a Url keeps it.
PathFits(path) == path = NoPath \/ path = [rooted |-> TRUE, segments |-> path.segments]
PathDone(path) ==
  /\ path = [rooted |-> TRUE, segments |-> path.segments]
  /\ EncodedPath(path) = path /\ "%zz" \notin ToSet(path.segments)

LEMMA PathIsDone ==
  ASSUME NEW path, PathFits(path), "%zz" \notin ToSet(path.segments)
  PROVE  PathDone(PathMade(path))
<1>1. \A r, s, t : [[rooted |-> r, segments |-> s] EXCEPT !.segments = t]
        = [rooted |-> r, segments |-> t]
  OBVIOUS
<1>0. \A s : [rooted |-> TRUE, segments |-> s].segments = s
  OBVIOUS
<1>2. \A s : EncodedPath([rooted |-> TRUE, segments |-> s])
        = [rooted |-> TRUE, segments |-> EncodedAll(s)]
  BY <1>0, <1>1 DEF EncodedPath
<1>3. CASE path = NoPath
  <2>1. EncodedAll(<<"">>) = <<"">> /\ "%zz" \notin ToSet(<<"">>)
    <3>1. Encoded("") = ""
      BY DEF Encoded
    <3>2. <<"">> = [i \in DOMAIN <<"">> |-> <<"">>[i]] /\ DOMAIN <<"">> = {1} /\ <<"">>[1] = ""
      OBVIOUS
    <3>3. \A t : DOMAIN t = {1} /\ t[1] = "" /\ t = [i \in DOMAIN t |-> t[i]] =>
                    EncodedAll(t) = t /\ "%zz" \notin ToSet(t)
      BY <3>1 DEF EncodedAll, ToSet
    <3> QED BY <3>2, <3>3
  <2>2. PathMade(path) = [rooted |-> TRUE, segments |-> <<"">>]
    BY <1>3 DEF PathMade, Root
  <2> QED BY <1>0, <1>2, <2>1, <2>2 DEF PathDone
<1>4. CASE path # NoPath
  <2>1. path = [rooted |-> TRUE, segments |-> path.segments]
    BY <1>4 DEF PathFits
  <2>2. PathMade(path) = [rooted |-> TRUE, segments |-> EncodedAll(path.segments)]
    BY <1>2, <1>4, <2>1 DEF PathMade
  <2>3. "%zz" \notin ToSet(EncodedAll(path.segments))
    BY EscapesStay
  <2> QED BY <1>0, <1>2, <2>2, <2>3, EncodedOnce DEF PathDone
<1> QED BY <1>3, <1>4

\* A path that is kept is made of itself.
LEMMA DoneIsMade ==
  ASSUME NEW path, PathDone(path)
  PROVE  PathMade(path) = path /\ path # NoPath /\ PathFits(path)
<1>1. \A s : [rooted |-> TRUE, segments |-> s].rooted = TRUE
  OBVIOUS
<1>2. NoPath.rooted = FALSE
  BY DEF NoPath
<1>3. path # NoPath
  BY <1>1, <1>2 DEF PathDone
<1> QED BY <1>3 DEF PathDone, PathMade, PathFits

\* A Url whose texts are those of its parts, none of which would change if made again.
PortDone(port, scheme) == port = DefaultPort(scheme) \/ (port \in Nat /\ port <= MaxPort)
Canonical(u) ==
  /\ u = Made(u.scheme, u.host, u.port, u.user, u.path, u.query, u.fragment)
  /\ u.scheme \in {"http", "https"}
  /\ HostDone(u.host) /\ PortDone(u.port, u.scheme)
  /\ UserDone(u.user) /\ PathDone(u.path)
  /\ EncodedAll(u.query) = u.query /\ EncodedAll(u.fragment) = u.fragment

LEMMA MadeIsCanonical ==
  ASSUME NEW scheme \in {"http", "https"}, NEW host, HostDone(host),
         NEW port, PortDone(port, scheme),
         NEW user, UserDone(user), NEW path, PathDone(path), NEW query, EncodedAll(query) = query,
         NEW fragment, EncodedAll(fragment) = fragment
  PROVE  Canonical(Made(scheme, host, port, user, path, query, fragment))
<1> DEFINE u == Made(scheme, host, port, user, path, query, fragment)
<1> HIDE DEF u
<1>1. u = Made(scheme, host, port, user, path, query, fragment)
  BY DEF u
<1>2. /\ u.scheme = scheme /\ u.host = host /\ u.port = port /\ u.user = user
      /\ u.path = path /\ u.query = query /\ u.fragment = fragment
  BY <1>1, MadeFields
<1>3. Canonical(u)
  BY <1>1, <1>2 DEF Canonical
<1> QED BY <1>3 DEF u

\* What Parse and ResolveAgainst are given and give: beside a host, a path is rooted.
TextFits(text) ==
  /\ text.host = None \/ text.host \in [kind : HostKinds, name : Seq(STRING)]
  /\ text.port \in Nat \union {-1, None}
  /\ text.host # None => PathFits(text.path)
  /\ text.userinfo \in Seq(STRING) \union {None} /\ text.userinfo # <<>>

LEMMA LowerSchemes == Lower("http") = "http" /\ Lower("https") = "https"
<1>1. Lower("http") = "http"
  BY DEF Lower
<1>2. Lower("https") = "https"
  BY DEF Lower
<1> QED BY <1>1, <1>2

\* When a text is a Url's, and what is kept then.
LEMMA NoErrors ==
  ASSUME NEW text
  PROVE  ParseErrors(text) = {} <=>
           /\ IriErrors(text) = {} /\ Lower(text.scheme) \in {"http", "https"}
           /\ text.host # None /\ text.host.name # <<>> /\ ~ IsFailed(NormalizeHost(text.host))
           /\ text.port = None \/ ~ (text.port > MaxPort)
BY DEF ParseErrors

LEMMA NoIriErrors ==
  ASSUME NEW text
  PROVE  IriErrors(text) = {} <=>
           /\ text.host # None => text.host.kind # "notV6"
           /\ "%zz" \notin ToSet(text.path.segments)
BY DEF IriErrors

LEMMA ParsedIsCanonical ==
  ASSUME LettersOK, NoneIsNoText, MaxPort \in Nat, NEW text, TextFits(text), ParseErrors(text) = {}
  PROVE  Canonical(Parse(text))
<1> DEFINE scheme == Lower(text.scheme)
           port == PortOf(text, scheme)
           u == Parse(text)
<1>1. /\ IriErrors(text) = {} /\ scheme \in {"http", "https"}
      /\ text.host # None /\ text.host.name # <<>> /\ ~ IsFailed(NormalizeHost(text.host))
      /\ text.port = None \/ ~ (text.port > MaxPort)
      /\ text.host.kind # "notV6" /\ "%zz" \notin ToSet(text.path.segments)
  BY NoErrors, NoIriErrors
<1>2. HostDone(NormalizeHost(text.host))
  BY <1>1, HostIsDone DEF TextFits
<1>3. PortDone(port, scheme)
  BY <1>1 DEF PortDone, PortOf, TextFits
<1>4. UserDone(Userinfo(EncodedAll(text.userinfo)))
  BY UserIsDone DEF TextFits
<1>5. PathDone(PathMade(text.path))
  BY <1>1, PathIsDone DEF TextFits
<1>6. u = Made(scheme, NormalizeHost(text.host), port, Userinfo(EncodedAll(text.userinfo)),
               PathMade(text.path), EncodedAll(text.query), EncodedAll(text.fragment))
  BY ParseMakes
<1> HIDE DEF u, port, scheme
<1>7. Canonical(u)
  BY <1>1, <1>2, <1>3, <1>4, <1>5, <1>6, EncodedOnce, MadeIsCanonical
<1> QED BY <1>7 DEF u

\* The text of a Url, whatever is said of user, path, query and fragment in it, is
\* an error for its path only, and has the Url's origin otherwise.
LEMMA ReadBack ==
  ASSUME NoneIsNoText, MaxPort \in Nat, NEW u, Canonical(u),
         NEW userinfo, NEW path, NEW query, NEW fragment, NEW text,
         text = Written(u.scheme, userinfo, u.host, ShownPort(u.port, u.scheme), path, query,
           fragment)
  PROVE  /\ "%zz" \notin ToSet(path.segments) => ParseErrors(text) = {}
         /\ ParseErrors(text) = {} =>
              Parse(text) = Made(u.scheme, u.host, u.port, Userinfo(EncodedAll(userinfo)),
                                 PathMade(path), EncodedAll(query), EncodedAll(fragment))
<1>1. /\ text.scheme = u.scheme /\ text.userinfo = userinfo /\ text.host = u.host
      /\ text.port = ShownPort(u.port, u.scheme) /\ text.path = path
      /\ text.query = query /\ text.fragment = fragment
  BY DEF Written
<1>2. Lower(u.scheme) = u.scheme /\ u.scheme \in {"http", "https"}
  BY LowerSchemes DEF Canonical
<1>3. /\ NormalizeHost(u.host) = u.host /\ u.host # None /\ ~ IsFailed(u.host)
      /\ u.host.name # <<>> /\ u.host.kind # "notV6"
  BY HostStands DEF Canonical, HostDone
<1>4. PortOf(text, u.scheme) = u.port /\ (text.port = None \/ ~ (text.port > MaxPort))
  <2>1. DefaultPort(u.scheme) \in Nat
    BY DEF DefaultPort
  <2>2. u.port = DefaultPort(u.scheme) \/ (u.port \in Nat /\ u.port <= MaxPort)
    BY DEF Canonical, PortDone
  <2> HIDE DEF DefaultPort
  <2> QED BY <1>1, <2>1, <2>2 DEF PortOf, ShownPort, NoneIsNoText
<1>5. "%zz" \notin ToSet(path.segments) => ParseErrors(text) = {}
  <2>1. "%zz" \notin ToSet(path.segments) => IriErrors(text) = {}
    BY <1>1, <1>3, NoIriErrors
  <2> QED BY <1>1, <1>2, <1>3, <1>4, <2>1, NoErrors
<1>6. ParseErrors(text) = {} =>
        Parse(text) = Made(u.scheme, u.host, u.port, Userinfo(EncodedAll(userinfo)),
                           PathMade(path), EncodedAll(query), EncodedAll(fragment))
  BY <1>1, <1>2, <1>3, <1>4, ParseMakes
<1> QED BY <1>5, <1>6

\* Userinfo, the query and the fragment are no cause of an error.
LEMMA SameErrors ==
  ASSUME NEW s, NEW t, s.scheme = t.scheme, s.host = t.host, s.port = t.port, s.path = t.path
  PROVE  ParseErrors(s) = ParseErrors(t) /\ IriErrors(s) = IriErrors(t)
BY DEF ParseErrors, IriErrors

\* An error is never taken for a Url.
LEMMA ParseFails ==
  ASSUME NEW text, ParseErrors(text) # {}
  PROVE  IsFailed(Parse(text))
BY DEF Parse, Failed, IsFailed

LEMMA CanonicalStands ==
  ASSUME NEW u, Canonical(u)
  PROVE  ~ IsFailed(u)
BY MadeFields DEF Canonical

-----------------------------------------------------------------------------
(* What a reference makes of a text.                                         *)

LEMMA DotsRemoved ==
  ASSUME NEW path, PathFits(path)
  PROVE  PathFits(RemoveDotSegments(path))
<1>1. CASE path = NoPath
  BY <1>1 DEF RemoveDotSegments
<1>2. CASE path # NoPath
  <2>1. PICK s : path = [rooted |-> TRUE, segments |-> s]
    BY <1>2 DEF PathFits
  <2>2. \E t : RemoveDotSegments(path) = [path EXCEPT !.segments = t]
    BY <1>2 DEF RemoveDotSegments
  <2>3. PICK t : RemoveDotSegments(path) = [path EXCEPT !.segments = t]
    BY <2>2
  <2>4. \A r, x, y : [[rooted |-> r, segments |-> x] EXCEPT !.segments = y]
          = [rooted |-> r, segments |-> y]
    OBVIOUS
  <2>5. RemoveDotSegments(path) = [rooted |-> TRUE, segments |-> t]
    BY <2>1, <2>3, <2>4
  <2>6. \A x : [rooted |-> TRUE, segments |-> x].segments = x
    OBVIOUS
  <2> QED BY <2>5, <2>6 DEF PathFits
<1> QED BY <1>1, <1>2

\* What a change of some parts makes of a text.
SayUser(t, userinfo) == [t EXCEPT !.userinfo = userinfo]
SayFragment(t, fragment) == [t EXCEPT !.fragment = fragment]
SayPath(t, path) == [t EXCEPT !.path = path]
SayAway(t, scheme, path) == [t EXCEPT !.scheme = scheme, !.path = path]
SayHere(t, path, query, fragment) ==
  [t EXCEPT !.path = path, !.query = query, !.fragment = fragment]

LEMMA UserSaid ==
  ASSUME NEW scheme, NEW userinfo, NEW host, NEW port, NEW path, NEW query, NEW fragment, NEW t,
         t = Written(scheme, userinfo, host, port, path, query, fragment), NEW a
  PROVE  SayUser(t, a) = Written(scheme, a, host, port, path, query, fragment)
BY DEF Written, SayUser

LEMMA FragmentSaid ==
  ASSUME NEW scheme, NEW userinfo, NEW host, NEW port, NEW path, NEW query, NEW fragment, NEW t,
         t = Written(scheme, userinfo, host, port, path, query, fragment), NEW a
  PROVE  SayFragment(t, a) = Written(scheme, userinfo, host, port, path, query, a)
BY DEF Written, SayFragment

LEMMA PathSaid ==
  ASSUME NEW scheme, NEW userinfo, NEW host, NEW port, NEW path, NEW query, NEW fragment, NEW t,
         t = Written(scheme, userinfo, host, port, path, query, fragment), NEW a
  PROVE  SayPath(t, a) = Written(scheme, userinfo, host, port, a, query, fragment)
BY DEF Written, SayPath

LEMMA AwaySaid ==
  ASSUME NEW scheme, NEW userinfo, NEW host, NEW port, NEW path, NEW query, NEW fragment, NEW t,
         t = Written(scheme, userinfo, host, port, path, query, fragment), NEW a, NEW b
  PROVE  SayAway(t, a, b) = Written(a, userinfo, host, port, b, query, fragment)
<1>1. [t EXCEPT !.scheme = a] = Written(a, userinfo, host, port, path, query, fragment)
  BY DEF Written
<1>2. [Written(a, userinfo, host, port, path, query, fragment) EXCEPT !.path = b]
        = Written(a, userinfo, host, port, b, query, fragment)
  BY DEF Written
<1> QED BY <1>1, <1>2 DEF SayAway

LEMMA HereSaid ==
  ASSUME NEW scheme, NEW userinfo, NEW host, NEW port, NEW path, NEW query, NEW fragment, NEW t,
         t = Written(scheme, userinfo, host, port, path, query, fragment), NEW a, NEW b, NEW c
  PROVE  SayHere(t, a, b, c) = Written(scheme, userinfo, host, port, a, b, c)
<1>1. [t EXCEPT !.path = a] = Written(scheme, userinfo, host, port, a, query, fragment)
  BY DEF Written
<1>2. [Written(scheme, userinfo, host, port, a, query, fragment) EXCEPT !.query = b]
        = Written(scheme, userinfo, host, port, a, b, fragment)
  BY DEF Written
<1>3. [Written(scheme, userinfo, host, port, a, b, fragment) EXCEPT !.fragment = c]
        = Written(scheme, userinfo, host, port, a, b, c)
  BY DEF Written
<1> QED BY <1>1, <1>2, <1>3 DEF SayHere

\* What a reference of a path, a query and a fragment makes of a Url's text.
NewQuery(query, ref) == IF ref.path = NoPath /\ ref.query = None THEN query ELSE ref.query
NewPath(path, ref) ==
  IF ref.path = NoPath THEN path
  ELSE RemoveDotSegments(IF ref.path.rooted THEN ref.path ELSE Merge(path, ref.path))

LEMMA ResolvesHere ==
  ASSUME NEW scheme, NEW userinfo, NEW host, NEW port, NEW path, NEW query, NEW fragment, NEW t,
         t = Written(scheme, userinfo, host, port, path, query, fragment),
         NEW ref, ref.scheme = None, ref.host = None
  PROVE  ResolveAgainst(ref, t) = Written(scheme, userinfo, host, port, NewPath(path, ref),
                                   NewQuery(query, ref), ref.fragment)
<1>1. t.path = path /\ t.query = query
  BY DEF Written
<1>2. ResolveAgainst(ref, t) = SayHere(t, NewPath(path, ref), NewQuery(query, ref), ref.fragment)
  BY <1>1 DEF ResolveAgainst, NewPath, NewQuery, SayHere
<1> QED BY <1>2, HereSaid

LEMMA NewPathFits ==
  ASSUME NEW path, PathDone(path), NEW ref, TextOK(ref), ref.path # NoPath
  PROVE  PathFits(NewPath(path, ref))
<1>1. ref.path \in [rooted : BOOLEAN, segments : Seq(STRING)]
  BY DEF TextOK
<1>2. CASE ref.path.rooted
  <2>1. ref.path = [rooted |-> TRUE, segments |-> ref.path.segments]
    BY <1>1, <1>2
  <2> QED BY <1>2, <2>1, DotsRemoved DEF NewPath, PathFits
<1>3. CASE ~ ref.path.rooted
  <2>1. PathFits(Merge(path, ref.path))
    <3>1. \A s : [rooted |-> TRUE, segments |-> s].segments = s
      OBVIOUS
    <3> QED BY <3>1 DEF Merge, PathFits
  <2> QED BY <1>3, <2>1, DotsRemoved DEF NewPath
<1> QED BY <1>2, <1>3

\* A reference of its own authority keeps all but its path, and its scheme if it has none.
LEMMA ResolvesAway ==
  ASSUME NEW base, NEW ref, TextOK(ref), ~ InheritsUserinfo(ref)
  PROVE  ResolveAgainst(ref, base) =
           Written(IF ref.scheme = None THEN base.scheme ELSE ref.scheme, ref.userinfo, ref.host,
                   ref.port, RemoveDotSegments(ref.path), ref.query, ref.fragment)
<1>1. PICK scheme, userinfo, host, port, path, query, fragment :
        ref = Written(scheme, userinfo, host, port, path, query, fragment)
  <2>1. ref = Written(ref.scheme, ref.userinfo, ref.host, ref.port, ref.path, ref.query,
          ref.fragment)
    BY DEF TextOK, Written
  <2> QED BY <2>1
<1>4. /\ ref.scheme = scheme /\ ref.userinfo = userinfo /\ ref.host = host /\ ref.port = port
      /\ ref.path = path /\ ref.query = query /\ ref.fragment = fragment
  BY <1>1 DEF Written
<1>2. CASE ref.scheme # None
  <2>1. ResolveAgainst(ref, base) = SayPath(ref, RemoveDotSegments(ref.path))
    BY <1>2 DEF ResolveAgainst, SayPath
  <2>2. SayPath(ref, RemoveDotSegments(path))
          = Written(scheme, userinfo, host, port, RemoveDotSegments(path), query, fragment)
    BY <1>1, PathSaid
  <2> QED BY <1>2, <1>4, <2>1, <2>2
<1>3. CASE ref.scheme = None /\ ref.host # None
  <2>1. ResolveAgainst(ref, base) = SayAway(ref, base.scheme, RemoveDotSegments(ref.path))
    BY <1>3 DEF ResolveAgainst, SayAway
  <2>2. SayAway(ref, base.scheme, RemoveDotSegments(path))
          = Written(base.scheme, userinfo, host, port, RemoveDotSegments(path), query, fragment)
    BY <1>1, AwaySaid
  <2> QED BY <1>3, <1>4, <2>1, <2>2
<1> QED BY <1>2, <1>3 DEF InheritsUserinfo

-----------------------------------------------------------------------------
(* join.                                                                     *)

\* The text that join works on, and the one that it is to be understood of.
BaseText(u) == [u.serialized EXCEPT !.fragment = None]
WholeText(u) == [FullText(u) EXCEPT !.fragment = None]

LEMMA BaseTexts ==
  ASSUME NEW u, Canonical(u)
  PROVE  /\ BaseText(u)
              = Written(u.scheme, None, u.host, ShownPort(u.port, u.scheme), u.path, u.query, None)
         /\ WholeText(u) = Written(u.scheme, Shown(u.user), u.host, ShownPort(u.port, u.scheme),
                                   u.path, u.query, None)
<1> DEFINE port == ShownPort(u.port, u.scheme)
<1>1. u.serialized = Written(u.scheme, None, u.host, port, u.path, u.query, u.fragment)
  <2>1. PICK scheme, host, p, user, path, query, fragment :
          u = Made(scheme, host, p, user, path, query, fragment)
    BY DEF Canonical
  <2>2. u.serialized = Written(scheme, None, host, ShownPort(p, scheme), path, query, fragment)
    BY <2>1, MadeTexts
  <2>3. /\ u.scheme = scheme /\ u.host = host /\ u.port = p
        /\ u.path = path /\ u.query = query /\ u.fragment = fragment
    BY <2>1, MadeFields
  <2> QED BY <2>2, <2>3
<1> HIDE DEF port
<1>2. BaseText(u) = SayFragment(u.serialized, None)
  BY DEF BaseText, SayFragment
<1>3. FullText(u) = SayUser(u.serialized, Shown(u.user))
  BY DEF FullText, SayUser, Shown
<1>4. FullText(u) = Written(u.scheme, Shown(u.user), u.host, port, u.path, u.query, u.fragment)
  BY <1>1, <1>3, UserSaid
<1>5. WholeText(u) = SayFragment(FullText(u), None)
  BY DEF WholeText, SayFragment
<1> QED BY <1>1, <1>2, <1>4, <1>5, FragmentSaid DEF port

\* A reference of a query and a fragment at most, of a path, or of an authority.
LEMMA JoinsHere ==
  ASSUME NoneIsNoText, MaxPort \in Nat, NEW u, Canonical(u), NEW ref, TextOK(ref),
         IriErrors(ref) = {}, InheritsUserinfo(ref), ref.path = NoPath
  PROVE  /\ Join(u, ref) = Parse(ResolveAgainst(ref, WholeText(u)))
         /\ Join(u, ref) = Made(u.scheme, u.host, u.port, u.user, u.path,
                                EncodedAll(NewQuery(u.query, ref)), EncodedAll(ref.fragment))
<1> DEFINE query == EncodedAll(NewQuery(u.query, ref))
           fragment == EncodedAll(ref.fragment)
           port == ShownPort(u.port, u.scheme)
<1>1. ref.scheme = None /\ ref.host = None
  BY DEF InheritsUserinfo
<1>2. /\ NewPath(u.path, ref) = u.path /\ PathMade(u.path) = u.path
      /\ "%zz" \notin ToSet(u.path.segments)
  BY DoneIsMade DEF NewPath, Canonical, PathDone
<1>3. query = IF ref.query = None THEN u.query ELSE EncodedAll(ref.query)
  BY DEF NewQuery, Canonical
<1>4. Parse(ResolveAgainst(ref, WholeText(u)))
        = Made(u.scheme, u.host, u.port, u.user, u.path, query, fragment)
  <2>1. ResolveAgainst(ref, WholeText(u))
          = Written(u.scheme, Shown(u.user), u.host, port, u.path, NewQuery(u.query, ref),
            ref.fragment)
    BY <1>1, <1>2, BaseTexts, ResolvesHere
  <2>2. Userinfo(EncodedAll(Shown(u.user))) = u.user
    BY DEF Canonical, UserDone
  <2> QED BY <1>2, <2>1, <2>2, ReadBack
<1>5. Join(u, ref) = JoinHere(u, ref)
  BY DEF Join
<1>6. JoinHere(u, ref) = RebuildSerialized(WithFragment(WithQuery(u, query), fragment))
  BY <1>3 DEF JoinHere, WithQuery, WithFragment
<1> HIDE DEF query, fragment
<1>7. RebuildSerialized(WithFragment(WithQuery(u, query), fragment))
        = Made(u.scheme, u.host, u.port, u.user, u.path, query, fragment)
  <2>1. PICK scheme, host, p, user, path, q, f : u = Made(scheme, host, p, user, path, q, f)
    BY DEF Canonical
  <2> QED BY <2>1, MadeChanges, MadeFields
<1> QED BY <1>4, <1>5, <1>6, <1>7 DEF query, fragment

LEMMA JoinsBelow ==
  ASSUME NoneIsNoText, MaxPort \in Nat, NEW u, Canonical(u), NEW ref, TextOK(ref),
         IriErrors(ref) = {}, InheritsUserinfo(ref), ref.path # NoPath
  PROVE  /\ Join(u, ref) = Parse(ResolveAgainst(ref, WholeText(u)))
         /\ IsFailed(Join(u, ref))
            \/ \E path, query : /\ PathDone(path) /\ EncodedAll(query) = query
                               /\ Join(u, ref) = Made(u.scheme, u.host, u.port, u.user, path, query,
                                                      EncodedAll(ref.fragment))
<1> DEFINE port == ShownPort(u.port, u.scheme)
           path == NewPath(u.path, ref)
           query == NewQuery(u.query, ref)
           short == ResolveAgainst(ref, BaseText(u))
           long == ResolveAgainst(ref, WholeText(u))
<1>1. ref.scheme = None /\ ref.host = None
  BY DEF InheritsUserinfo
<1>2. /\ short = Written(u.scheme, None, u.host, port, path, query, ref.fragment)
      /\ long = Written(u.scheme, Shown(u.user), u.host, port, path, query, ref.fragment)
  BY <1>1, BaseTexts, ResolvesHere
<1>3. Join(u, ref) = IF IsFailed(Parse(short)) THEN Parse(short) ELSE WithUser(Parse(short), u.user)
  BY DEF Join, BaseText, WithUser
<1>4. PathFits(path)
  BY NewPathFits DEF Canonical
<1> HIDE DEF path, query, short, long
<1>8. ASSUME NEW userinfo, NEW text, ParseErrors(text) = {},
             text = Written(u.scheme, userinfo, u.host, port, path, query, ref.fragment)
      PROVE  Parse(text)
               = Made(u.scheme, u.host, u.port, Userinfo(EncodedAll(userinfo)), PathMade(path),
                                EncodedAll(query), EncodedAll(ref.fragment))
  BY <1>8, ReadBack
<1> HIDE DEF port
<1>5. /\ ParseErrors(short) = ParseErrors(long)
      /\ short.path = path
  <2>1. /\ short.scheme = long.scheme /\ short.host = long.host /\ short.port = long.port
        /\ short.path = long.path /\ short.path = path
    BY <1>2 DEF Written
  <2> QED BY <2>1, SameErrors
<1>6. CASE ParseErrors(short) # {}
  <2>1. Parse(short) = Parse(long)
    BY <1>5, <1>6 DEF Parse
  <2> QED BY <1>3, <1>6, <2>1, ParseFails DEF long
<1>7. CASE ParseErrors(short) = {}
  <2> DEFINE m == Made(u.scheme, u.host, u.port, u.user, PathMade(path), EncodedAll(query),
                       EncodedAll(ref.fragment))
  <2>1. PathDone(PathMade(path))
    BY <1>4, <1>5, <1>7, NoErrors, NoIriErrors, PathIsDone
  <2>2. Parse(long) = m
    <3>1. Userinfo(EncodedAll(Shown(u.user))) = u.user
      BY DEF Canonical, UserDone
    <3> QED BY <1>2, <1>5, <1>7, <1>8, <3>1
  <2>3. PICK user : Parse(short)
               = Made(u.scheme, u.host, u.port, user, PathMade(path), EncodedAll(query),
                                        EncodedAll(ref.fragment))
    BY <1>2, <1>7, <1>8
  <2>4. ~ IsFailed(Parse(short)) /\ WithUser(Parse(short), u.user) = m
    BY <2>3, MadeFields, MadeChanges
  <2> QED BY <1>3, <2>1, <2>2, <2>4, EncodedOnce DEF long
<1> QED BY <1>6, <1>7

\* A reference's text with the scheme it is of, and where it puts its userinfo.
Absolute(ref, scheme) == [ref EXCEPT !.scheme = IF @ = None THEN scheme ELSE @]
At(u) == [user |-> u.user, origin |-> UrlOrigin(u)]

LEMMA JoinsAway ==
  ASSUME LettersOK, NoneIsNoText, MaxPort \in Nat, NEW u, Canonical(u), NEW ref, TextOK(ref),
         IriErrors(ref) = {}, ~ InheritsUserinfo(ref)
  PROVE  /\ Join(u, ref) = Parse(ResolveAgainst(ref, WholeText(u)))
         /\ \/ IsFailed(Join(u, ref))
            \/ /\ Canonical(Join(u, ref)) /\ ref.host # None
               /\ At(Join(u, ref)) \in WrittenIn(Absolute(ref, u.scheme))
<1> DEFINE scheme == IF ref.scheme = None THEN u.scheme ELSE ref.scheme
           path == RemoveDotSegments(ref.path)
           whole == Absolute(ref, u.scheme)
           meant == Written(scheme, ref.userinfo, ref.host, ref.port, path, ref.query, ref.fragment)
<1>1. BaseText(u).scheme = u.scheme /\ WholeText(u).scheme = u.scheme
  BY BaseTexts DEF Written
<1>2. ResolveAgainst(ref, BaseText(u)) = meant /\ ResolveAgainst(ref, WholeText(u)) = meant
  BY <1>1, ResolvesAway
<1>3. Join(u, ref) = Parse(meant)
  BY <1>2 DEF Join, BaseText
<1>4. /\ whole.scheme = scheme /\ whole.userinfo = ref.userinfo /\ whole.host = ref.host
      /\ whole.port = ref.port /\ whole.path = ref.path
  BY DEF TextOK, Absolute
<1>5. /\ meant.scheme = scheme /\ meant.userinfo = ref.userinfo /\ meant.host = ref.host
      /\ meant.port = ref.port /\ meant.path = path
  BY DEF Written
<1>6. CASE ParseErrors(meant) # {}
  BY <1>2, <1>3, <1>6, ParseFails
<1>7. CASE ParseErrors(meant) = {}
  <2> HIDE DEF meant, whole, path, scheme
  <2>1. ref.host # None
    BY <1>5, <1>7, NoErrors
  <2>2. TextFits(meant)
    <3>1. PathFits(ref.path)
      <4>1. /\ ref.path \in [rooted : BOOLEAN, segments : Seq(STRING)]
            /\ ref.path = NoPath \/ ref.path.rooted
        BY <2>1 DEF TextOK
      <4> QED BY <4>1 DEF PathFits
    <3>2. PathFits(path)
      BY <3>1, DotsRemoved DEF path
    <3>3. /\ ref.host = None \/ ref.host \in [kind : HostKinds, name : Seq(STRING)]
          /\ ref.port \in Nat \union {-1, None}
          /\ ref.userinfo \in Seq(STRING) \union {None} /\ ref.userinfo # <<>>
      BY DEF TextOK
    <3> QED BY <1>5, <3>2, <3>3 DEF TextFits
  <2>3. Canonical(Parse(meant))
    BY <1>7, <2>2, ParsedIsCanonical
  <2>4. ParseErrors(whole) = {}
    <3>1. IriErrors(whole) = {}
      BY <1>4, NoIriErrors
    <3> QED BY <1>4, <1>5, <1>7, <3>1, NoErrors
  <2>5. At(Parse(whole)) = At(Parse(meant)) /\ ~ IsFailed(Parse(whole))
    <3> DEFINE s == Lower(scheme)
               host == NormalizeHost(ref.host)
               port == PortOf(meant, s)
               user == Userinfo(EncodedAll(ref.userinfo))
    <3>1. PortOf(whole, s) = port
      BY <1>4, <1>5 DEF PortOf
    <3> HIDE DEF s, host, port, user
    <3>2. \E p, q, f : Parse(whole) = Made(s, host, port, user, p, q, f)
      BY <1>4, <2>4, <3>1, ParseMakes DEF s, host, user
    <3>3. \E p, q, f : Parse(meant) = Made(s, host, port, user, p, q, f)
      BY <1>5, <1>7, ParseMakes DEF s, host, port, user
    <3>4. ASSUME NEW v, \E p, q, f : v = Made(s, host, port, user, p, q, f)
          PROVE  v.scheme = s /\ v.host = host /\ v.port = port /\ v.user = user /\ ~ IsFailed(v)
      BY <3>4, MadeFields
    <3> QED BY <3>2, <3>3, <3>4 DEF At, UrlOrigin
  <2>6. At(Parse(whole)) \in WrittenIn(whole)
    BY <2>5 DEF WrittenIn, At
  <2> QED BY <1>2, <1>3, <2>1, <2>3, <2>5, <2>6 DEF whole
<1> QED BY <1>6, <1>7

-----------------------------------------------------------------------------
(* The operations.                                                           *)

\* A text that is given fits.
LEMMA GivenFits ==
  ASSUME NEW text, TextOK(text)
  PROVE  TextFits(text)
<1>1. /\ text.host = None \/ text.host \in [kind : HostKinds, name : Seq(STRING)]
      /\ text.port \in Nat \union {-1, None}
      /\ text.userinfo \in Seq(STRING) \union {None} /\ text.userinfo # <<>>
      /\ text.path \in [rooted : BOOLEAN, segments : Seq(STRING)]
      /\ text.host # None => text.path = NoPath \/ text.path.rooted
  BY DEF TextOK
<1>2. text.host # None => PathFits(text.path)
  BY <1>1 DEF PathFits
<1> QED BY <1>1, <1>2 DEF TextFits

\* A parse gives a Url that is canonical, or an error.
LEMMA ParseIsCanonical ==
  ASSUME LettersOK, NoneIsNoText, MaxPort \in Nat, NEW text, TextFits(text)
  PROVE  IsFailed(Parse(text)) \/ Canonical(Parse(text))
BY ParsedIsCanonical, ParseFails

\* A Url with other userinfo, another query or no fragment is a Url.
LEMMA NoUserDone ==
  UserDone(NoUser) /\ Userinfo(EncodedAll(None)) = NoUser /\ EncodedAll(None) = None
BY DEF UserDone, Shown, EncodedAll, Userinfo

LEMMA CanonicalChanges ==
  ASSUME NEW u, Canonical(u), NEW query, EncodedAll(query) = query
  PROVE  /\ Canonical(RebuildSerialized(WithQuery(u, query)))
         /\ At(RebuildSerialized(WithQuery(u, query))) = At(u)
         /\ Canonical(WithUser(u, NoUser)) /\ WithUser(u, NoUser).user = NoUser
         /\ WithUser(u, NoUser)
              = Made(u.scheme, u.host, u.port, NoUser, u.path, u.query, u.fragment)
         /\ RebuildSerialized(WithFragment(WithUser(u, NoUser), None))
              = Made(u.scheme, u.host, u.port, NoUser, u.path, u.query, None)
<1>1. PICK scheme, host, port, user, path, q, f : u = Made(scheme, host, port, user, path, q, f)
  BY DEF Canonical
<1>2. /\ u.scheme = scheme /\ u.host = host /\ u.port = port /\ u.user = user
      /\ u.path = path /\ u.query = q /\ u.fragment = f
  BY <1>1, MadeFields
<1>3. /\ WithUser(u, NoUser) = Made(scheme, host, port, NoUser, path, q, f)
      /\ RebuildSerialized(WithQuery(u, query)) = Made(scheme, host, port, user, path, query, f)
      /\ RebuildSerialized(WithFragment(WithUser(u, NoUser), None))
           = Made(scheme, host, port, NoUser, path, q, None)
  BY <1>1, MadeChanges
<1>4. /\ Canonical(Made(scheme, host, port, NoUser, path, q, f))
      /\ Canonical(Made(scheme, host, port, user, path, query, f))
  <2>1. /\ scheme \in {"http", "https"} /\ HostDone(host) /\ PortDone(port, scheme)
        /\ UserDone(user)
        /\ PathDone(path) /\ EncodedAll(q) = q /\ EncodedAll(f) = f
    BY <1>2 DEF Canonical
  <2>2. UserDone(NoUser)
    BY NoUserDone
  <2> QED BY <2>1, <2>2, MadeIsCanonical
<1>5. Made(scheme, host, port, NoUser, path, q, f).user = NoUser
  BY MadeFields
<1>6. At(Made(scheme, host, port, user, path, query, f)) = At(u)
  <2> DEFINE v == Made(scheme, host, port, user, path, query, f)
  <2> HIDE DEF v
  <2>1. v.scheme = scheme /\ v.host = host /\ v.port = port /\ v.user = user
    BY MadeFields DEF v
  <2>2. At(v) = At(u)
    BY <1>2, <2>1 DEF At, UrlOrigin
  <2> QED BY <2>2 DEF v
<1> QED BY <1>2, <1>3, <1>4, <1>5, <1>6

\* There and back by an http::Uri.
LEMMA BackFromUri ==
  ASSUME NoneIsNoText, MaxPort \in Nat, NEW u, Canonical(u)
  PROVE  /\ Parse(HttpUri(u)) = Made(u.scheme, u.host, u.port, NoUser, u.path, u.query, None)
         /\ Canonical(Parse(HttpUri(u))) /\ Parse(HttpUri(u)).user = NoUser
<1>1. HttpUri(u) = Written(u.scheme, None, u.host, ShownPort(u.port, u.scheme),
                           u.path, u.query, None)
  <2>1. PICK scheme, host, port, user, path, q, f : u = Made(scheme, host, port, user, path, q, f)
    BY DEF Canonical
  <2>2. u.pathAndQuery.path = path /\ u.pathAndQuery.query = q /\ Port(u) = ShownPort(port, scheme)
    BY <2>1, MadeTexts
  <2>3. u.scheme = scheme /\ u.host = host /\ u.port = port /\ u.path = path /\ u.query = q
    BY <2>1, MadeFields
  <2> QED BY <2>2, <2>3 DEF HttpUri, Written
<1>2. /\ PathMade(u.path) = u.path /\ "%zz" \notin ToSet(u.path.segments)
      /\ EncodedAll(u.query) = u.query
  BY DoneIsMade DEF Canonical, PathDone
<1>3. Parse(HttpUri(u)) = Made(u.scheme, u.host, u.port, NoUser, u.path, u.query, None)
  <2>1. Parse(HttpUri(u))
          = Made(u.scheme, u.host, u.port, Userinfo(EncodedAll(None)), PathMade(u.path),
                                 EncodedAll(u.query), EncodedAll(None))
    <3>1. ASSUME NEW text, NEW userinfo, NEW f,
                 text = Written(u.scheme, userinfo, u.host, ShownPort(u.port, u.scheme), u.path,
                   u.query, f)
          PROVE  Parse(text) = Made(u.scheme, u.host, u.port, Userinfo(EncodedAll(userinfo)),
                                    PathMade(u.path), EncodedAll(u.query), EncodedAll(f))
      <4>1. ParseErrors(text) = {}
        BY <1>2, <3>1, ReadBack
      <4> QED BY <3>1, <4>1, ReadBack
    <3> QED BY <1>1, <3>1
  <2> QED BY <1>2, <2>1, NoUserDone
<1>4. Canonical(Made(u.scheme, u.host, u.port, NoUser, u.path, u.query, None))
  <2>1. /\ u.scheme \in {"http", "https"} /\ HostDone(u.host) /\ PortDone(u.port, u.scheme)
        /\ PathDone(u.path) /\ EncodedAll(u.query) = u.query
    BY DEF Canonical
  <2>2. UserDone(NoUser) /\ EncodedAll(None) = None
    BY NoUserDone
  <2> QED BY <2>1, <2>2, MadeIsCanonical
<1>5. Made(u.scheme, u.host, u.port, NoUser, u.path, u.query, None).user = NoUser
  BY MadeFields
<1> QED BY <1>3, <1>4, <1>5

\* Whatever was done to it, a Url is canonical, and its userinfo is where it was written.
UrlInv ==
  /\ IsFailed(url) \/ Canonical(url)
  /\ JoinResolves
  /\ CredentialsStay

LEMMA UrlInvInit ==
  ASSUME UrlConstantsOK, UrlInit
  PROVE  UrlInv
<1>1. LettersOK /\ NoneIsNoText /\ MaxPort \in Nat
  BY DEF UrlConstantsOK
<1>2. PICK text \in Texts :
        /\ url = Parse(text)
        /\ last = [op |-> "parse", of |-> text, with |-> None, is |-> Parse(text)]
        /\ written = WrittenIn(text)
  BY DEF UrlInit
<1>3. IsFailed(url) \/ Canonical(url)
  BY <1>1, <1>2, GivenFits, ParseIsCanonical DEF UrlConstantsOK
<1>4. last.op = "parse"
  BY <1>2
<1>5. ~ IsFailed(url) => [user |-> url.user, origin |-> UrlOrigin(url)] \in written
  BY <1>2 DEF WrittenIn
<1> QED BY <1>3, <1>4, <1>5 DEF UrlInv, JoinResolves, CredentialsStay

\* The three kinds of join together.
LEMMA Joins ==
  ASSUME UrlConstantsOK, NEW u, Canonical(u), NEW ref \in Refs
  PROVE  /\ IriErrors(ref) = {} => Join(u, ref) = Parse(ResolveAgainst(ref, WholeText(u)))
         /\ \/ IsFailed(Join(u, ref))
            \/ /\ Canonical(Join(u, ref))
               /\ \/ At(Join(u, ref)) = At(u)
                  \/ ref.host # None /\ At(Join(u, ref)) \in WrittenIn(Absolute(ref, u.scheme))
<1>1. LettersOK /\ NoneIsNoText /\ MaxPort \in Nat /\ TextOK(ref)
  BY DEF UrlConstantsOK
<1>2. CASE IriErrors(ref) # {}
  BY <1>2 DEF Join, Failed, IsFailed
<1>3. CASE IriErrors(ref) = {} /\ ~ InheritsUserinfo(ref)
  BY <1>1, <1>3, JoinsAway
<1>4. ASSUME NEW path, PathDone(path), NEW query, EncodedAll(query) = query,
             NEW fragment, EncodedAll(fragment) = fragment,
             NEW v, v = Made(u.scheme, u.host, u.port, u.user, path, query, fragment)
      PROVE  Canonical(v) /\ At(v) = At(u)
  <2>1. v.scheme = u.scheme /\ v.host = u.host /\ v.port = u.port /\ v.user = u.user
    BY <1>4, MadeFields
  <2>2. /\ u.scheme \in {"http", "https"} /\ HostDone(u.host) /\ PortDone(u.port, u.scheme)
        /\ UserDone(u.user)
    BY DEF Canonical
  <2> QED BY <1>4, <2>1, <2>2, MadeIsCanonical DEF At, UrlOrigin
<1>5. CASE IriErrors(ref) = {} /\ InheritsUserinfo(ref) /\ ref.path = NoPath
  <2>1. /\ Join(u, ref) = Parse(ResolveAgainst(ref, WholeText(u)))
        /\ Join(u, ref) = Made(u.scheme, u.host, u.port, u.user, u.path,
                               EncodedAll(NewQuery(u.query, ref)), EncodedAll(ref.fragment))
    BY <1>1, <1>5, JoinsHere
  <2>2. PathDone(u.path)
    BY DEF Canonical
  <2> QED BY <1>4, <2>1, <2>2, EncodedOnce
<1>6. CASE IriErrors(ref) = {} /\ InheritsUserinfo(ref) /\ ref.path # NoPath
  <2>1. /\ Join(u, ref) = Parse(ResolveAgainst(ref, WholeText(u)))
        /\ IsFailed(Join(u, ref))
           \/ \E path, query : /\ PathDone(path) /\ EncodedAll(query) = query
                              /\ Join(u, ref) = Made(u.scheme, u.host, u.port, u.user, path, query,
                                                     EncodedAll(ref.fragment))
    BY <1>1, <1>6, JoinsBelow
  <2> QED BY <1>4, <2>1, EncodedOnce
<1> QED BY <1>2, <1>3, <1>5, <1>6

\* What an operation records of itself.
LEMMA Recorded ==
  ASSUME NEW op, NEW with, NEW outcome, NEW then, Operation(op, with, outcome, then)
  PROVE  /\ ~ IsFailed(url) /\ url' = then
         /\ last'.op = op /\ last'.of = url /\ last'.with = with /\ last'.is = outcome
BY DEF Operation

LEMMA UrlInvJoin ==
  ASSUME UrlConstantsOK, UrlInv, NEW ref \in Refs, JoinRef(ref)
  PROVE  UrlInv'
<1> DEFINE joined == Join(url, ref)
<1>1. /\ ~ IsFailed(url) /\ url' = IF IsFailed(joined) THEN url ELSE joined
      /\ last'.op = "join" /\ last'.of = url /\ last'.with = ref /\ last'.is = joined
  BY Recorded DEF JoinRef
<1>2. /\ written \subseteq written'
      /\ ref.host # None => WrittenIn(Absolute(ref, url.scheme)) \subseteq written'
  BY DEF JoinRef, Absolute
<1>3. Canonical(url)
  BY <1>1 DEF UrlInv
<1>4. /\ IriErrors(ref) = {} => joined = Parse(ResolveAgainst(ref, WholeText(url)))
      /\ \/ IsFailed(joined)
         \/ /\ Canonical(joined)
            /\ \/ At(joined) = At(url)
               \/ ref.host # None /\ At(joined) \in WrittenIn(Absolute(ref, url.scheme))
  BY <1>3, Joins
<1>5. url.user # NoUser => At(url) \in written
  BY <1>1 DEF UrlInv, CredentialsStay, At
<1> HIDE DEF joined
<1>6. Canonical(url')
  BY <1>1, <1>3, <1>4
<1>7. url'.user # NoUser => At(url') \in written'
  <2>1. At(joined) = At(url) => joined.user = url.user
    BY DEF At
  <2> QED BY <1>1, <1>2, <1>4, <1>5, <2>1
<1>8. JoinResolves'
  BY <1>1, <1>4 DEF JoinResolves, WholeText
<1>9. CredentialsStay'
  BY <1>1, <1>7 DEF CredentialsStay, At, UrlOrigin
<1> QED BY <1>6, <1>8, <1>9 DEF UrlInv

LEMMA UrlInvStep ==
  ASSUME UrlConstantsOK, UrlInv, UrlNext
  PROVE  UrlInv'
<1>1. ASSUME NEW ref \in Refs, JoinRef(ref) PROVE UrlInv'
  BY <1>1, UrlInvJoin
<1>2. ~ IsFailed(url) => Canonical(url) /\ (url.user # NoUser => At(url) \in written)
  BY DEF UrlInv, CredentialsStay, At
<1>3. ASSUME NEW query \in Queries, SetQuery(query) PROVE UrlInv'
  <2>1. /\ ~ IsFailed(url) /\ url' = RebuildSerialized(WithQuery(url, query))
        /\ last'.op = "set_query" /\ written' = written
    BY <1>3, Recorded DEF SetQuery, WithQuery
  <2>2. EncodedAll(query) = query
    BY DEF UrlConstantsOK
  <2>3. Canonical(url') /\ At(url') = At(url)
    BY <1>2, <2>1, <2>2, CanonicalChanges
  <2>4. url'.user = url.user /\ [user |-> url'.user, origin |-> UrlOrigin(url')] = At(url)
    BY <2>3 DEF At
  <2> QED BY <1>2, <2>1, <2>3, <2>4 DEF UrlInv, JoinResolves, CredentialsStay
<1>4. CASE TakeUserinfo
  <2>1. ~ IsFailed(url) /\ url' = WithUser(url, NoUser) /\ last'.op = "take"
    BY <1>4, Recorded DEF TakeUserinfo, WithUser
  <2>2. Canonical(url') /\ url'.user = NoUser
    BY <1>2, <2>1, NoUserDone, CanonicalChanges
  <2> QED BY <2>1, <2>2 DEF UrlInv, JoinResolves, CredentialsStay
<1>5. CASE ThroughHttpUri
  <2>1. /\ ~ IsFailed(url) /\ url' = Parse(HttpUri(url))
        /\ last'.op = "http_uri" /\ last'.of = url /\ last'.is = Parse(HttpUri(url))
    BY <1>5, Recorded DEF ThroughHttpUri
  <2>2. LettersOK /\ NoneIsNoText /\ MaxPort \in Nat
    BY DEF UrlConstantsOK
  <2>3. /\ Canonical(url') /\ url'.user = NoUser
        /\ url' = RebuildSerialized(WithFragment(WithUser(url, NoUser), None))
    BY <1>2, <2>1, <2>2, BackFromUri, CanonicalChanges, NoUserDone
  <2>4. JoinResolves'
    BY <2>1, <2>3 DEF JoinResolves, WithFragment, WithUser, WithoutUserinfo
  <2> QED BY <2>1, <2>3, <2>4 DEF UrlInv, CredentialsStay
<1> QED BY <1>1, <1>3, <1>4, <1>5 DEF UrlNext

LEMMA UrlInvKeeps ==
  ASSUME UrlConstantsOK, UrlInv, UrlNext \/ UNCHANGED urlVars
  PROVE  UrlInv'
<1>1. CASE UNCHANGED urlVars
  <2>1. url' = url /\ last' = last /\ written' = written
    BY <1>1 DEF urlVars
  <2> QED BY <2>1 DEF UrlInv, JoinResolves, CredentialsStay
<1> QED BY <1>1, UrlInvStep

\* The texts of a canonical Url are those of its fields.
LEMMA CanonicalTexts ==
  ASSUME UrlConstantsOK, UrlInv
  PROVE  TextsAgree
<1> SUFFICES ASSUME ~ IsFailed(url)
             PROVE  /\ Parse(url.serialized) = WithoutUserinfo(url)
                    /\ url.pathAndQuery
                         = [path |-> url.serialized.path, query |-> url.serialized.query]
  BY DEF TextsAgree
<1>1. Canonical(url) /\ NoneIsNoText /\ MaxPort \in Nat
  BY DEF UrlInv, UrlConstantsOK
<1>2. /\ url.serialized
           = Written(url.scheme, None, url.host, ShownPort(url.port, url.scheme), url.path,
                                   url.query, url.fragment)
      /\ url.pathAndQuery = PathAndQuery(url)
  <2>1. PICK scheme, host, port, user, path, q, f : url = Made(scheme, host, port, user, path, q, f)
    BY <1>1 DEF Canonical
  <2>2. /\ url.serialized = Written(scheme, None, host, ShownPort(port, scheme), path, q, f)
        /\ url.pathAndQuery = PathAndQuery(url)
    BY <2>1, MadeTexts
  <2>3. /\ url.scheme = scheme /\ url.host = host /\ url.port = port /\ url.path = path
        /\ url.query = q /\ url.fragment = f
    BY <2>1, MadeFields
  <2> QED BY <2>2, <2>3
<1>3. url.serialized.path = url.path /\ url.serialized.query = url.query
  BY <1>2 DEF Written
<1>4. PathMade(url.path) = url.path /\ "%zz" \notin ToSet(url.path.segments)
      /\ EncodedAll(url.query) = url.query /\ EncodedAll(url.fragment) = url.fragment
  BY <1>1, DoneIsMade DEF Canonical, PathDone
<1>5. ParseErrors(url.serialized) = {}
  BY <1>1, <1>2, <1>4, ReadBack
<1>6. Parse(url.serialized) = Made(url.scheme, url.host, url.port, Userinfo(EncodedAll(None)),
        PathMade(url.path), EncodedAll(url.query), EncodedAll(url.fragment))
  BY <1>1, <1>2, <1>5, ReadBack
<1>7. WithUser(url, NoUser)
        = Made(url.scheme, url.host, url.port, NoUser, url.path, url.query, url.fragment)
  BY <1>1, NoUserDone, CanonicalChanges
<1>8. Parse(url.serialized) = WithoutUserinfo(url)
  BY <1>4, <1>6, <1>7, NoUserDone DEF WithUser, WithoutUserinfo
<1> QED BY <1>2, <1>3, <1>8 DEF PathAndQuery

-----------------------------------------------------------------------------
(* Decoding a text.                                                          *)

\* A number below which a set of numbers is empty: its least one.
LEMMA LeastNumber ==
  ASSUME NEW S \in SUBSET Nat, S # {}
  PROVE  \E m \in S : \A k \in S : m <= k
<1>1. PICK n \in S : TRUE
  OBVIOUS
<1> DEFINE Small == {1..k : k \in {j \in S : j <= n}}
<1>2. IsFiniteSet(1..n) /\ n \in Nat
  BY FS_Interval
<1>3. Small \subseteq SUBSET (1..n) /\ Small # {}
  <2>1. \A k \in S : k <= n => 1..k \subseteq 1..n
    OBVIOUS
  <2>2. 1..n \in Small
    BY <1>2
  <2> QED BY <2>1, <2>2
<1>4. PICK least \in Small :
        \A other \in Small : ~ (<<other, least>> \in StrictSubsetOrdering(1..n))
  <2>1. Small \subseteq FiniteSubsetsOf(1..n)
    BY <1>2, <1>3, FS_FiniteSubsetsOfFinite
  <2> HIDE DEF Small
  <2> QED BY <2>1, <1>3, FS_StrictSubsetOrderingWellFounded, WFMin
<1>5. PICK m \in S : m <= n /\ least = 1..m
  OBVIOUS
<1>6. ASSUME NEW k \in S, ~ (m <= k) PROVE FALSE
  <2>1. k \in Nat /\ m \in Nat /\ k < m /\ k <= n
    <3> HIDE DEF Small
    <3> QED BY <1>2, <1>5, <1>6
  <2>2. 1..k \in Small
    BY <2>1
  <2>3. 1..k \subseteq 1..m /\ m \in 1..m /\ m \notin 1..k
    BY <2>1
  <2>4. <<1..k, least>> \in StrictSubsetOrdering(1..n)
    BY <1>3, <1>5, <2>2, <2>3 DEF StrictSubsetOrdering
  <2> QED BY <1>4, <2>2, <2>4
<1> QED BY <1>6

\* What FlattenSeq's recursion makes of the first n of some sequences.
Flattens(seqs, n, f) ==
  f = [i \in 1..n |-> IF i = 1 THEN seqs[i] ELSE f[i - 1] \o seqs[i]]

LEMMA FlattenMore ==
  ASSUME NEW seqs, NEW n \in Nat, NEW f, Flattens(seqs, n, f)
  PROVE  \E g : Flattens(seqs, n + 1, g)
<1> DEFINE value == IF n = 0 THEN seqs[1] ELSE f[n] \o seqs[n + 1]
           g == [i \in 1..(n + 1) |-> IF i = n + 1 THEN value ELSE f[i]]
           h == [i \in 1..(n + 1) |-> IF i = 1 THEN seqs[i] ELSE g[i - 1] \o seqs[i]]
<1>1. ASSUME NEW i \in 1..(n + 1) PROVE g[i] = h[i]
  <2>1. CASE i = n + 1 /\ n = 0
    BY <2>1
  <2>2. CASE i = n + 1 /\ n # 0
    <3>1. n \in 1..(n + 1) /\ n + 1 \in 1..(n + 1) /\ n # n + 1 /\ n + 1 # 1
          /\ (n + 1) - 1 = n
      BY <2>2
    <3>2. g[n] = f[n] /\ g[n + 1] = value
      BY <3>1
    <3> HIDE DEF g
    <3>3. h[n + 1] = g[n] \o seqs[n + 1]
      BY <3>1
    <3> QED BY <2>2, <3>2, <3>3
  <2>3. CASE i # n + 1
    <3>1. i \in 1..n /\ g[i] = f[i] /\ (i # 1 => i - 1 \in 1..n /\ g[i - 1] = f[i - 1])
      BY <2>3
    <3>2. f[i] = IF i = 1 THEN seqs[i] ELSE f[i - 1] \o seqs[i]
      BY <3>1 DEF Flattens
    <3> HIDE DEF g
    <3>3. h[i] = IF i = 1 THEN seqs[i] ELSE g[i - 1] \o seqs[i]
      OBVIOUS
    <3> QED BY <3>1, <3>2, <3>3
  <2> QED BY <2>1, <2>2, <2>3
<1>2. g = h
  <2> HIDE DEF value
  <2>1. DOMAIN g = 1..(n + 1) /\ DOMAIN h = 1..(n + 1)
    OBVIOUS
  <2>2. g = [i \in 1..(n + 1) |-> g[i]] /\ h = [i \in 1..(n + 1) |-> h[i]]
    OBVIOUS
  <2> HIDE DEF g, h
  <2> QED BY <1>1, <2>2
<1>3. Flattens(seqs, n + 1, g)
  <2> HIDE DEF g
  <2> QED BY <1>2 DEF Flattens
<1> QED BY <1>3

LEMMA FlattensAt ==
  ASSUME NEW seqs, NEW n \in Nat, NEW f, Flattens(seqs, n, f), NEW i \in 1..n
  PROVE  f[i] = IF i = 1 THEN seqs[i] ELSE f[i - 1] \o seqs[i]
BY DEF Flattens

LEMMA FlattenExists ==
  ASSUME NEW seqs, NEW n \in Nat
  PROVE  \E f : Flattens(seqs, n, f)
<1> DEFINE Without == {k \in Nat : ~ \E f : Flattens(seqs, k, f)}
<1>1. CASE Without # {}
  <2>1. PICK m \in Without : \A k \in Without : m <= k
    <3>1. Without \in SUBSET Nat
      OBVIOUS
    <3> HIDE DEF Without
    <3> QED BY <1>1, <3>1, LeastNumber
  <2>2. Flattens(seqs, 0, [i \in {} |-> seqs])
    BY DEF Flattens
  <2>3. m \in Nat /\ m # 0 /\ m - 1 \in Nat /\ (m - 1) + 1 = m
    BY <2>2
  <2>4. \E f : Flattens(seqs, m - 1, f)
    BY <2>1, <2>3
  <2>5. \E f : Flattens(seqs, m, f)
    BY <2>3, <2>4, FlattenMore
  <2> QED BY <2>5
<1>2. CASE Without = {}
  BY <1>2
<1> QED BY <1>1, <1>2

\* It only depends on those n.
LEMMA FlattenSame ==
  ASSUME NEW s, NEW t, NEW n \in Nat, NEW m \in Nat, n <= m, NEW f, NEW g,
         Flattens(s, n, f), Flattens(t, m, g), \A i \in 1..n : s[i] = t[i]
  PROVE  \A i \in 1..n : f[i] = g[i]
<1> DEFINE Differ == {i \in 1..n : f[i] # g[i]}
<1>1. ASSUME Differ # {} PROVE FALSE
  <2>1. PICK i \in Differ : \A k \in Differ : i <= k
    <3>1. Differ \in SUBSET Nat
      OBVIOUS
    <3> HIDE DEF Differ
    <3> QED BY <1>1, <3>1, LeastNumber
  <2>2. i \in 1..n /\ i \in 1..m /\ f[i] # g[i]
    OBVIOUS
  <2>3. /\ f[i] = IF i = 1 THEN s[i] ELSE f[i - 1] \o s[i]
        /\ g[i] = IF i = 1 THEN t[i] ELSE g[i - 1] \o t[i]
    BY <2>2 DEF Flattens
  <2>4. i # 1
    BY <2>2, <2>3
  <2>5. i - 1 \in 1..n /\ i - 1 < i
    BY <2>2, <2>4
  <2>6. f[i - 1] = g[i - 1]
    BY <2>1, <2>5
  <2> QED BY <2>2, <2>3, <2>4, <2>6
<1> QED BY <1>1

LEMMA FlattenIs ==
  ASSUME NEW X, NEW seqs \in Seq(X), seqs # <<>>
  PROVE  \E f : Flattens(seqs, Len(seqs), f) /\ FlattenSeq(seqs) = f[Len(seqs)]
<1> DEFINE Recursion(f) == f = [i \in 1..Len(seqs) |->
                             IF i = 1 THEN seqs[i] ELSE f[i - 1] \o seqs[i]]
           flatten == CHOOSE f : Recursion(f)
<1>1. Len(seqs) \in Nat /\ Len(seqs) # 0
  OBVIOUS
<1>2. FlattenSeq(seqs) = flatten[Len(seqs)]
  BY <1>1 DEF FlattenSeq
<1>3. \E f : Flattens(seqs, Len(seqs), f)
  BY <1>1, FlattenExists
<1>4. Flattens(seqs, Len(seqs), flatten)
  <2>1. \E f : Recursion(f)
    BY <1>3 DEF Flattens
  <2>2. Recursion(flatten)
    <3> HIDE DEF Recursion
    <3> QED BY <2>1
  <2> QED BY <2>2 DEF Flattens
<1> QED BY <1>2, <1>4

LEMMA AppendMore ==
  ASSUME NEW X, NEW s \in Seq(X), NEW x \in X
  PROVE  /\ Append(s, x) \in Seq(X) /\ Append(s, x) # <<>>
         /\ Len(Append(s, x)) = Len(s) + 1 /\ Len(s) \in Nat
         /\ Append(s, x)[Len(s) + 1] = x /\ \A i \in 1..Len(s) : s[i] = Append(s, x)[i]
OBVIOUS

\* One more sequence comes at the end.
LEMMA FlattenAppend ==
  ASSUME NEW X, NEW seqs \in Seq(Seq(X)), NEW x \in Seq(X)
  PROVE  FlattenSeq(Append(seqs, x)) = FlattenSeq(seqs) \o x
<1> DEFINE more == Append(seqs, x)
           n == Len(seqs)
<1>1. /\ more \in Seq(Seq(X)) /\ more # <<>> /\ Len(more) = n + 1 /\ n \in Nat
      /\ more[n + 1] = x /\ \A i \in 1..n : seqs[i] = more[i]
  BY AppendMore
<1>2. PICK g : Flattens(more, n + 1, g) /\ FlattenSeq(more) = g[n + 1]
  <2> HIDE DEF more, n
  <2> QED BY <1>1, FlattenIs
<1>3. g[n + 1] = IF n = 0 THEN x ELSE g[n] \o x
  <2> HIDE DEF more, n
  <2>1. g[n + 1] = IF n + 1 = 1 THEN more[n + 1] ELSE g[(n + 1) - 1] \o more[n + 1]
    <3>1. n + 1 \in Nat /\ n + 1 \in 1..(n + 1)
      BY <1>1
    <3> QED BY <1>2, <3>1, FlattensAt
  <2> QED BY <1>1, <2>1
<1>4. CASE n = 0
  <2>1. FlattenSeq(seqs) = <<>> /\ <<>> \o x = x
    BY <1>4 DEF FlattenSeq
  <2> QED BY <1>2, <1>3, <1>4, <2>1
<1>5. CASE n # 0
  <2>1. PICK f : Flattens(seqs, n, f) /\ FlattenSeq(seqs) = f[n]
    BY <1>5, FlattenIs
  <2>2. f[n] = g[n]
    <3> DEFINE m == n + 1
    <3> HIDE DEF more, n
    <3>1. n \in Nat /\ m \in Nat /\ n \in 1..n /\ n <= m
      BY <1>1, <1>5
    <3>2. \A i \in 1..n : seqs[i] = more[i]
      BY <1>1
    <3>3. Flattens(more, m, g)
      BY <1>2
    <3> HIDE DEF m
    <3>4. \A i \in 1..n : f[i] = g[i]
      BY <2>1, <3>1, <3>2, <3>3, FlattenSame
    <3> QED BY <3>1, <3>4
  <2> QED BY <1>2, <1>3, <1>5, <2>1, <2>2
<1> QED BY <1>4, <1>5

LEMMA FlattenType ==
  ASSUME NEW X, NEW seqs \in Seq(Seq(X))
  PROVE  FlattenSeq(seqs) \in Seq(X)
<1> DEFINE n == Len(seqs)
<1>1. n \in Nat /\ \A i \in 1..n : seqs[i] \in Seq(X)
  OBVIOUS
<1>2. CASE n = 0
  BY <1>2 DEF FlattenSeq
<1>3. CASE n # 0
  <2>1. PICK f : Flattens(seqs, n, f) /\ FlattenSeq(seqs) = f[n]
    BY <1>3, FlattenIs
  <2> DEFINE Odd == {i \in 1..n : f[i] \notin Seq(X)}
  <2>2. ASSUME Odd # {} PROVE FALSE
    <3>1. PICK i \in Odd : \A k \in Odd : i <= k
      <4>1. Odd \in SUBSET Nat
        OBVIOUS
      <4> HIDE DEF Odd
      <4> QED BY <2>2, <4>1, LeastNumber
    <3>2. i \in 1..n /\ f[i] \notin Seq(X)
      OBVIOUS
    <3> HIDE DEF n
    <3>3. f[i] = IF i = 1 THEN seqs[i] ELSE f[i - 1] \o seqs[i]
      BY <1>1, <2>1, <3>2, FlattensAt
    <3>4. i # 1 /\ i - 1 \in 1..n /\ i - 1 < i
      BY <1>1, <3>2, <3>3
    <3>5. f[i - 1] \in Seq(X)
      BY <3>1, <3>2, <3>4
    <3>6. seqs[i] \in Seq(X)
      BY <1>1, <3>2
    <3>7. f[i - 1] \o seqs[i] \in Seq(X)
      BY <3>5, <3>6
    <3> QED BY <3>2, <3>3, <3>4, <3>7
  <2>3. n \in 1..n
    BY <1>1, <1>3
  <2> QED BY <2>1, <2>2, <2>3
<1> QED BY <1>2, <1>3

-----------------------------------------------------------------------------
(* Which decoder a charset has.                                              *)

LEMMA RequiredAre ==
  \A cp : cp \in IcuRequired <=> cp \in {28600, 28604, 51932}
BY DEF IcuRequired, RequiredConverters

LEMMA PreferredAre ==
  \A cp : cp \in IcuPreferred <=>
           cp \in {28593, 28596, 28597, 28598, 38598, 10000, 1253, 1257, 10017,
                   936, 54936, 950, 51949, 874, 50220}
BY DEF IcuPreferred, PreferredConverters

LEMMA SpecialIs == Special = {0, -1, 28606}
BY DEF Special, Codepage

LEMMA CodepagesAre ==
  /\ \A e \in {"x_user_defined", "replacement", "iso_8859_16"} : Codepage[e] \in {0, -1, 28606}
  /\ \A e \in {"iso_8859_10", "iso_8859_14", "euc_jp"} : Codepage[e] \in {28600, 28604, 51932}
  /\ \A e \in {"iso_8859_3", "iso_8859_6", "iso_8859_7", "iso_8859_8", "iso_8859_8_i",
               "macintosh", "windows_1253", "windows_1257", "x_mac_cyrillic", "gbk",
               "gb18030", "big5", "euc_kr", "windows_874", "iso_2022_jp"} :
       Codepage[e] \in {28593, 28596, 28597, 28598, 38598, 10000, 1253, 1257, 10017,
                        936, 54936, 950, 51949, 874, 50220}
  /\ \A e \in {"ibm866", "iso_8859_2", "iso_8859_4", "iso_8859_5", "iso_8859_13",
               "iso_8859_15", "koi8_r", "koi8_u", "windows_1250", "windows_1251",
               "windows_1252", "windows_1254", "windows_1255", "windows_1256",
               "windows_1258", "shift_jis"} : Codepage[e] \in Nls
BY DEF Codepage, Nls

SelfDecoded == {"utf_8", "utf_16le", "utf_16be"}

LEMMA DecoderIs ==
  ASSUME Unknown \notin DOMAIN Codepage, NEW e \in DOMAIN Codepage \ SelfDecoded, NEW data
  PROVE  ByCodepage(Codepage[e], data) =
           IF e = "replacement" THEN Text("rust", <<Replacement>>)
           ELSE IF e = "x_user_defined" THEN Text("rust", UserDefined(data))
           ELSE Handed(Decoder(e), data)
<1> DEFINE cp == Codepage[e]
           special == e \in {"x_user_defined", "replacement", "iso_8859_16"}
           rare == e \in Rare
           preferred == e \in IcuProvided
           nls == e \in {"ibm866", "iso_8859_2", "iso_8859_4", "iso_8859_5", "iso_8859_13",
             "iso_8859_15", "koi8_r", "koi8_u", "windows_1250", "windows_1251",
             "windows_1252", "windows_1254", "windows_1255", "windows_1256",
             "windows_1258", "shift_jis"}
<1>1. special \/ preferred \/ nls \/ rare
  BY DEF Codepage, SelfDecoded, Rare, IcuProvided
<1>2. e # Unknown /\ e # "utf_8"
  BY DEF SelfDecoded
<1>3. Codepage.replacement = -1 /\ Codepage.x_user_defined = 0
      /\ Codepage.iso_8859_16 = 28606
      /\ \A x : x \in Special <=> x \in {0, -1, 28606}
  BY SpecialIs DEF Codepage
<1>4. rare => cp \in IcuRequired
  <2>1. rare => cp \in {28600, 28604, 51932}
    BY CodepagesAre DEF Rare
  <2> QED BY <2>1, RequiredAre
<1>5. preferred => cp \in IcuPreferred
  <2>1. preferred => cp \in {28593, 28596, 28597, 28598, 38598, 10000, 1253, 1257, 10017,
                              936, 54936, 950, 51949, 874, 50220}
    BY CodepagesAre DEF IcuProvided
  <2> QED BY <2>1, PreferredAre
<1>6. nls => cp \in Nls
  BY CodepagesAre
<1>7. /\ cp \in Special => cp \notin IcuRequired /\ cp \notin IcuPreferred /\ cp \notin Nls
      /\ cp \in IcuRequired => cp \notin IcuPreferred /\ cp \notin Nls
      /\ cp \in IcuPreferred => cp \notin Nls
  <2> HIDE DEF cp
  <2> QED BY <1>3, RequiredAre, PreferredAre DEF Nls
<1>8. /\ rare => Decoder(e) = IF icu THEN "icu" ELSE "error"
      /\ preferred => Decoder(e) = IF icu THEN "icu" ELSE "nls"
      /\ nls => Decoder(e) = "nls"
      /\ e = "iso_8859_16" => Decoder(e) = "rust"
  BY <1>2 DEF Decoder, InRust, Rare, IcuProvided
<1>9. rare \/ preferred \/ nls => e # "replacement" /\ e # "x_user_defined"
  BY DEF Rare, IcuProvided
<1> HIDE DEF cp, rare, preferred, nls
<1>10. CASE special
  <2>1. CASE e = "replacement"
    BY <1>3, <2>1 DEF ByCodepage, cp
  <2>2. CASE e = "x_user_defined"
    BY <1>3, <2>2 DEF ByCodepage, cp
  <2>3. CASE e = "iso_8859_16"
    <3>1. cp = 28606
      BY <1>3, <2>3 DEF cp
    <3>2. cp # -1 /\ cp # 0 /\ cp \in Special
      BY <1>3, <3>1
    <3>3. ByCodepage(cp, data) = Handed("rust", data)
      BY <1>3, <3>2 DEF ByCodepage
    <3> QED BY <1>8, <2>3, <3>3 DEF cp
  <2> QED BY <1>10, <2>1, <2>2, <2>3
<1>11. cp \notin Special => cp # -1 /\ cp # 0
  BY <1>3
<1>12. CASE rare
  <2>1. cp \in IcuRequired /\ cp \notin Special
    BY <1>4, <1>7, <1>12
  <2>2. ByCodepage(cp, data) = Handed(IF icu THEN "icu" ELSE "error", data)
    BY <1>3, <1>11, <2>1 DEF ByCodepage
  <2> QED BY <1>8, <1>9, <1>12, <2>2 DEF cp
<1>13. CASE preferred
  <2>1. cp \in IcuPreferred /\ cp \notin Special /\ cp \notin IcuRequired
    BY <1>5, <1>7, <1>13
  <2>2. ByCodepage(cp, data) = Handed(IF icu THEN "icu" ELSE "nls", data)
    BY <1>3, <1>11, <2>1 DEF ByCodepage
  <2> QED BY <1>8, <1>9, <1>13, <2>2 DEF cp
<1>14. CASE nls
  <2>1. cp \in Nls /\ cp \notin IcuPreferred /\ cp \notin Special /\ cp \notin IcuRequired
    BY <1>6, <1>7, <1>14
  <2>2. ByCodepage(cp, data) = Handed("nls", data)
    BY <1>3, <1>11, <2>1 DEF ByCodepage
  <2> QED BY <1>8, <1>9, <1>14, <2>2 DEF cp
<1> QED BY <1>1, <1>10, <1>12, <1>13, <1>14

LEMMA SameSeq ==
  ASSUME NEW X, NEW s \in Seq(X), NEW t \in Seq(X), Len(s) = Len(t),
         \A i \in 1..Len(s) : s[i] = t[i]
  PROVE  s = t
OBVIOUS

\* The characters String::from_utf16_lossy makes of a unit, and which come out
\* before it is known what follows a high surrogate at the end.
Paired(words, i) ==
  i \in 1..(Len(words) - 1) /\ IsHigh(words[i]) /\ IsLow(words[i + 1])
CharAt(words, i) ==
  IF Paired(words, i) THEN <<Scalar(words[i], words[i + 1])>>
  ELSE IF Paired(words, i - 1) THEN <<>>
  ELSE IF IsHigh(words[i]) \/ IsLow(words[i]) THEN <<Replacement>>
  ELSE <<words[i]>>
CharsOf(words) == [i \in DOMAIN words |-> CharAt(words, i)]
Waiting(words) == words # <<>> /\ IsHigh(words[Len(words)])
Kept(words) ==
  [i \in 1..(IF Waiting(words) THEN Len(words) - 1 ELSE Len(words)) |-> CharAt(words, i)]

LEMMA LossyIs == \A words : Lossy(words) = FlattenSeq(CharsOf(words))
BY DEF Lossy, CharsOf, CharAt, Paired

\* A unit is one kind of thing.
LEMMA UnitKinds ==
  /\ \A u \in Int : ~ (IsHigh(u) /\ IsLow(u))
  /\ \A h, l \in Int : Scalar(h, l) \in Int
  /\ Replacement \in Int
BY DEF IsHigh, IsLow, Scalar, Replacement

LEMMA OneChar ==
  ASSUME NEW X
  PROVE  <<>> \in Seq(X) /\ \A x \in X : <<x>> \in Seq(X)
OBVIOUS

LEMMA CharIs ==
  ASSUME NEW words \in Seq(Int), NEW i \in 1..Len(words)
  PROVE  CharAt(words, i) \in Seq(Int)
<1>1. words[i] \in Int /\ (i \in 1..(Len(words) - 1) => words[i + 1] \in Int)
  OBVIOUS
<1>2. CASE Paired(words, i)
  <2>1. Scalar(words[i], words[i + 1]) \in Int
    BY <1>1, <1>2, UnitKinds DEF Paired
  <2> QED BY <1>2, <2>1 DEF CharAt
<1>3. CASE ~ Paired(words, i)
  <2>1. CharAt(words, i) \in {<<>>, <<Replacement>>, <<words[i]>>}
    BY <1>3 DEF CharAt
  <2>2. Replacement \in Int /\ words[i] \in Int
    BY <1>1, UnitKinds
  <2>3. <<>> \in Seq(Int) /\ <<Replacement>> \in Seq(Int) /\ <<words[i]>> \in Seq(Int)
    BY <2>2, OneChar
  <2> QED BY <2>1, <2>3, Zenon
<1> QED BY <1>2, <1>3

LEMMA KeptIs ==
  ASSUME NEW words \in Seq(Int)
  PROVE  /\ Kept(words) \in Seq(Seq(Int))
         /\ Len(Kept(words)) = IF Waiting(words) THEN Len(words) - 1 ELSE Len(words)
         /\ \A i \in 1..Len(Kept(words)) : Kept(words)[i] = CharAt(words, i)
<1> DEFINE n == IF Waiting(words) THEN Len(words) - 1 ELSE Len(words)
<1>1. n \in Nat /\ 1..n \subseteq 1..Len(words)
  BY DEF Waiting
<1>2. \A i \in 1..n : CharAt(words, i) \in Seq(Int)
  BY <1>1, CharIs
<1> HIDE DEF n
<1>3. [i \in 1..n |-> CharAt(words, i)] \in Seq(Seq(Int))
  BY <1>1, <1>2
<1> QED BY <1>1, <1>3 DEF Kept, n

\* At the end of the words a waiting high surrogate is an error.
LEMMA LossyEnds ==
  ASSUME NEW words \in Seq(Int)
  PROVE  Lossy(words) = FlattenSeq(Kept(words))
                        \o IF Waiting(words) THEN <<Replacement>> ELSE <<>>
<1> DEFINE n == Len(words)
<1>1. n \in Nat /\ DOMAIN words = 1..n
  OBVIOUS
<1>2. CASE ~ Waiting(words)
  <2>1. CharsOf(words) = Kept(words)
    BY <1>1, <1>2 DEF CharsOf, Kept
  <2>2. FlattenSeq(Kept(words)) \o <<>> = FlattenSeq(Kept(words))
    <3>1. Kept(words) \in Seq(Seq(Int))
      BY KeptIs
    <3>2. FlattenSeq(Kept(words)) \in Seq(Int)
      BY <3>1, FlattenType
    <3>3. \A text \in Seq(Int) : text \o <<>> = text
      OBVIOUS
    <3> QED BY <3>2, <3>3
  <2> QED BY <1>2, <2>1, <2>2, LossyIs
<1>3. CASE Waiting(words)
  <2>1. n # 0 /\ n \in 1..n /\ words[n] \in Int /\ IsHigh(words[n])
    BY <1>1, <1>3 DEF Waiting
  <2>2. CharAt(words, n) = <<Replacement>>
    <3>1. ~ IsLow(words[n])
      BY <2>1, UnitKinds
    <3>2. ~ Paired(words, n) /\ ~ Paired(words, n - 1)
      BY <1>1, <3>1 DEF Paired
    <3> QED BY <2>1, <3>2 DEF CharAt
  <2>3. CharsOf(words) = Append(Kept(words), <<Replacement>>)
    <3>1. /\ Append(Kept(words), <<Replacement>>) \in Seq(Seq(Int))
          /\ Len(Append(Kept(words), <<Replacement>>)) = n
          /\ Append(Kept(words), <<Replacement>>)[n] = <<Replacement>>
          /\ \A i \in 1..(n - 1) : Append(Kept(words), <<Replacement>>)[i] = CharAt(words, i)
      <4>1. <<Replacement>> \in Seq(Int)
        BY UnitKinds
      <4>2. /\ Kept(words) \in Seq(Seq(Int)) /\ Len(Kept(words)) = n - 1
            /\ \A i \in 1..(n - 1) : Kept(words)[i] = CharAt(words, i)
        BY <1>3, KeptIs
      <4>3. (n - 1) + 1 = n
        BY <1>1
      <4> HIDE DEF n
      <4> QED BY <4>1, <4>2, <4>3, AppendMore
    <3>2. CharsOf(words) \in Seq(Seq(Int)) /\ Len(CharsOf(words)) = n
      BY <1>1, CharIs DEF CharsOf
    <3>3. \A i \in 1..n : CharsOf(words)[i] = CharAt(words, i)
      BY <1>1 DEF CharsOf
    <3> HIDE DEF n
    <3>4. \A i \in 1..n : i = n \/ i \in 1..(n - 1)
      BY <1>1
    <3> QED BY <2>2, <3>1, <3>2, <3>3, <3>4, SameSeq
  <2>4. <<Replacement>> \in Seq(Int)
    BY UnitKinds
  <2> QED BY <1>3, <2>3, <2>4, LossyIs, KeptIs, FlattenAppend
<1> QED BY <1>2, <1>3

\* One more unit only touches the character before it.
LEMMA CharsStay ==
  ASSUME NEW words \in Seq(Int), NEW u \in Int, NEW more, more = Append(words, u)
  PROVE  /\ \A i \in 1..Len(words) :
              i # Len(words) \/ ~ Waiting(words) \/ ~ IsLow(u) =>
                CharAt(more, i) = CharAt(words, i)
         /\ Waiting(words) => CharAt(words, Len(words)) = <<Replacement>>
         /\ Waiting(words) /\ IsLow(u) =>
              /\ CharAt(more, Len(words)) = <<Scalar(words[Len(words)], u)>>
              /\ CharAt(more, Len(words) + 1) = <<>>
         /\ ~ Waiting(words) \/ ~ IsLow(u) =>
              CharAt(more, Len(words) + 1) =
                IF IsHigh(u) \/ IsLow(u) THEN <<Replacement>> ELSE <<u>>
<1> DEFINE n == Len(words)
<1>1. /\ n \in Nat /\ Len(more) = n + 1 /\ more[n + 1] = u
      /\ \A i \in 1..n : words[i] = more[i] /\ words[i] \in Int
  BY AppendMore
<1>2. Waiting(words) <=> n # 0 /\ IsHigh(words[n])
  BY DEF Waiting
<1> HIDE DEF n
<1>3. \A i \in 1..(n - 1) :
        i \in 1..n /\ i + 1 \in 1..n /\ i \in 1..((n + 1) - 1)
  BY <1>1
<1>4. \A i \in 1..(n - 1) : Paired(more, i) <=> Paired(words, i)
  BY <1>1, <1>3 DEF Paired, n
<1>5. Paired(more, n) <=> Waiting(words) /\ IsLow(u)
  <2>1. n \in 1..((n + 1) - 1) <=> n # 0
    BY <1>1
  <2>2. n # 0 => n \in 1..n
    BY <1>1
  <2> QED BY <1>1, <1>2, <2>1, <2>2 DEF Paired
<1>6. ~ Paired(words, n) /\ ~ Paired(more, n + 1)
      /\ ~ Paired(words, 0) /\ ~ Paired(more, 0)
  BY <1>1 DEF Paired, n
<1>7. ASSUME Waiting(words) PROVE ~ Paired(words, n - 1) /\ CharAt(words, n) = <<Replacement>>
  <2>1. n \in 1..n /\ (n - 1) + 1 = n /\ IsHigh(words[n]) /\ ~ IsLow(words[n])
    <3>1. n # 0 /\ IsHigh(words[n])
      BY <1>2, <1>7
    <3>2. n \in 1..n /\ (n - 1) + 1 = n
      BY <1>1, <3>1
    <3> QED BY <1>1, <3>1, <3>2, UnitKinds
  <2>2. ~ Paired(words, n - 1)
    BY <2>1 DEF Paired
  <2> QED BY <1>6, <2>1, <2>2 DEF CharAt
<1>8. ASSUME NEW i \in 1..n, i # n \/ ~ Waiting(words) \/ ~ IsLow(u)
      PROVE  CharAt(more, i) = CharAt(words, i)
  <2>1. /\ i = n \/ i \in 1..(n - 1)
        /\ i - 1 = 0 \/ i - 1 \in 1..(n - 1)
    BY <1>1
  <2>2. Paired(more, i) <=> Paired(words, i)
    BY <1>4, <1>5, <1>6, <1>8, <2>1
  <2>3. Paired(more, i - 1) <=> Paired(words, i - 1)
    BY <1>4, <1>6, <2>1
  <2>4. more[i] = words[i] /\ (Paired(words, i) => more[i + 1] = words[i + 1])
    <3>1. Paired(words, i) => i + 1 \in 1..n
      BY <1>3 DEF Paired, n
    <3> QED BY <1>1, <3>1
  <2> QED BY <2>2, <2>3, <2>4 DEF CharAt
<1>9. (n + 1) - 1 = n
  BY <1>1
<1>10. ASSUME Waiting(words), IsLow(u)
       PROVE  CharAt(more, n) = <<Scalar(words[n], u)>> /\ CharAt(more, n + 1) = <<>>
  <2>1. n \in 1..n /\ more[n] = words[n] /\ more[n + 1] = u
    BY <1>1, <1>2, <1>10
  <2>2. Paired(more, n) /\ ~ Paired(more, n + 1)
    BY <1>5, <1>6, <1>10
  <2> QED BY <1>9, <2>1, <2>2 DEF CharAt
<1>11. ASSUME ~ Waiting(words) \/ ~ IsLow(u)
       PROVE  CharAt(more, n + 1) = IF IsHigh(u) \/ IsLow(u) THEN <<Replacement>> ELSE <<u>>
  BY <1>1, <1>5, <1>6, <1>9, <1>11 DEF CharAt
<1> QED BY <1>7, <1>8, <1>10, <1>11 DEF n

\* What a unit adds to the characters that are out.
LEMMA KeptMore ==
  ASSUME NEW words \in Seq(Int), NEW u \in Int
  PROVE  LET more == Kept(Append(words, u))
             kept == Kept(words)
             broken == Append(kept, <<Replacement>>)
         IN  /\ Waiting(words) /\ IsLow(u) =>
                  more = Append(Append(kept, <<Scalar(words[Len(words)], u)>>), <<>>)
             /\ Waiting(words) /\ IsHigh(u) => more = broken
             /\ Waiting(words) /\ ~ IsHigh(u) /\ ~ IsLow(u) => more = Append(broken, <<u>>)
             /\ ~ Waiting(words) /\ IsLow(u) => more = broken
             /\ ~ Waiting(words) /\ IsHigh(u) => more = kept
             /\ ~ Waiting(words) /\ ~ IsHigh(u) /\ ~ IsLow(u) => more = Append(kept, <<u>>)
<1> DEFINE n == Len(words)
           W == Append(words, u)
           more == Kept(W)
           kept == Kept(words)
           broken == Append(kept, <<Replacement>>)
           pair == <<Scalar(words[n], u)>>
<1>1. W \in Seq(Int) /\ Len(W) = n + 1 /\ n \in Nat /\ W[n + 1] = u /\ W # <<>>
  BY AppendMore
<1>2. Waiting(W) <=> IsHigh(u)
  BY <1>1 DEF Waiting
<1>3. /\ more \in Seq(Seq(Int)) /\ Len(more) = IF IsHigh(u) THEN n ELSE n + 1
      /\ \A i \in 1..Len(more) : more[i] = CharAt(W, i)
  <2> HIDE DEF W
  <2>1. (n + 1) - 1 = n
    BY <1>1
  <2> QED BY <1>1, <1>2, <2>1, KeptIs
<1>4. /\ kept \in Seq(Seq(Int)) /\ Len(kept) = IF Waiting(words) THEN n - 1 ELSE n
      /\ \A i \in 1..Len(kept) : kept[i] = CharAt(words, i)
  BY KeptIs
<1>5. Waiting(words) => n # 0 /\ words[n] \in Int
  BY DEF Waiting
<1>6. /\ \A i \in 1..n : i # n \/ ~ Waiting(words) \/ ~ IsLow(u) =>
              CharAt(W, i) = CharAt(words, i)
      /\ Waiting(words) => CharAt(words, n) = <<Replacement>>
      /\ Waiting(words) /\ IsLow(u) => CharAt(W, n) = pair /\ CharAt(W, n + 1) = <<>>
      /\ ~ Waiting(words) \/ ~ IsLow(u) =>
           CharAt(W, n + 1) = IF IsHigh(u) \/ IsLow(u) THEN <<Replacement>> ELSE <<u>>
  <2>1. W = Append(words, u)
    OBVIOUS
  <2> HIDE DEF W
  <2> QED BY <2>1, CharsStay
<1>7. <<>> \in Seq(Int) /\ <<Replacement>> \in Seq(Int) /\ <<u>> \in Seq(Int)
      /\ (Waiting(words) => pair \in Seq(Int))
  BY <1>5, UnitKinds, OneChar
<1>8. ~ (IsHigh(u) /\ IsLow(u))
  BY UnitKinds
<1> HIDE DEF n, W, kept, more, pair
<1>9. /\ broken \in Seq(Seq(Int)) /\ Len(broken) = Len(kept) + 1
      /\ broken[Len(kept) + 1] = <<Replacement>>
      /\ \A i \in 1..Len(kept) : broken[i] = CharAt(words, i)
  BY <1>4, <1>7, AppendMore
<1> HIDE DEF broken
<1>10. ASSUME Waiting(words) /\ IsLow(u) PROVE more = Append(Append(kept, pair), <<>>)
  <2> DEFINE one == Append(kept, pair)
             two == Append(one, <<>>)
  <2>1. /\ one \in Seq(Seq(Int)) /\ Len(one) = n /\ one[n] = pair
        /\ \A i \in 1..(n - 1) : one[i] = CharAt(words, i)
    BY <1>1, <1>4, <1>7, <1>10, AppendMore
  <2> HIDE DEF one
  <2>2. /\ two \in Seq(Seq(Int)) /\ Len(two) = n + 1 /\ two[n + 1] = <<>>
        /\ two[n] = pair /\ \A i \in 1..(n - 1) : two[i] = CharAt(words, i)
    <3>1. \A i \in 1..n : two[i] = one[i]
      BY <1>7, <2>1, AppendMore
    <3>2. n \in 1..n /\ \A i \in 1..(n - 1) : i \in 1..n
      BY <1>1, <1>5, <1>10
    <3> QED BY <1>7, <2>1, <3>1, <3>2, AppendMore
  <2> HIDE DEF two
  <2>3. \A i \in 1..(n + 1) : i = n + 1 \/ i = n \/ (i \in 1..(n - 1) /\ i \in 1..n /\ i # n)
    BY <1>1
  <2>4. Len(more) = n + 1
    BY <1>3, <1>8, <1>10
  <2>5. \A i \in 1..(n + 1) : more[i] = two[i]
    BY <1>3, <1>6, <1>10, <2>2, <2>3, <2>4
  <2>6. more = two
    BY <1>3, <2>2, <2>4, <2>5, SameSeq
  <2> QED BY <2>6 DEF two, one
<1>11. ASSUME Waiting(words) /\ IsHigh(u) PROVE more = broken
  <2>1. Len(more) = n /\ Len(broken) = n /\ broken[n] = <<Replacement>>
    BY <1>1, <1>3, <1>4, <1>9, <1>11
  <2>2. \A i \in 1..n : (i = n \/ i \in 1..Len(kept)) /\ ~ IsLow(u)
    BY <1>1, <1>4, <1>8, <1>11
  <2>3. \A i \in 1..n : more[i] = broken[i]
    BY <1>3, <1>6, <1>9, <1>11, <2>1, <2>2
  <2>4. more = broken
    BY <1>3, <1>9, <2>1, <2>3, SameSeq
  <2> QED BY <2>4
<1>12. ASSUME Waiting(words) /\ ~ IsHigh(u) /\ ~ IsLow(u) PROVE more = Append(broken, <<u>>)
  <2> DEFINE two == Append(broken, <<u>>)
  <2>1. Len(more) = n + 1 /\ Len(broken) = n /\ broken[n] = <<Replacement>>
    BY <1>1, <1>3, <1>4, <1>9, <1>12
  <2>2. /\ two \in Seq(Seq(Int)) /\ Len(two) = n + 1 /\ two[n + 1] = <<u>>
        /\ \A i \in 1..n : two[i] = broken[i]
    BY <1>7, <1>9, <2>1, AppendMore
  <2> HIDE DEF two
  <2>3. \A i \in 1..(n + 1) : i = n + 1 \/ (i \in 1..n /\ (i = n \/ i \in 1..Len(kept)))
    <3>1. Len(kept) = n - 1
      BY <1>4, <1>12
    <3> QED BY <1>1, <3>1
  <2>4. \A i \in 1..(n + 1) : more[i] = two[i]
    BY <1>3, <1>6, <1>9, <1>12, <2>1, <2>2, <2>3
  <2>5. more = two
    BY <1>3, <2>1, <2>2, <2>4, SameSeq
  <2> QED BY <2>5 DEF two
<1>13. ASSUME ~ Waiting(words) /\ IsLow(u) PROVE more = broken
  <2>1. Len(more) = n + 1 /\ Len(kept) = n /\ Len(broken) = n + 1
    BY <1>3, <1>4, <1>8, <1>9, <1>13
  <2>2. \A i \in 1..(n + 1) : i = n + 1 \/ i \in 1..n
    BY <1>1
  <2>3. \A i \in 1..(n + 1) : more[i] = broken[i]
    BY <1>3, <1>6, <1>9, <1>13, <2>1, <2>2
  <2>4. more = broken
    BY <1>3, <1>9, <2>1, <2>3, SameSeq
  <2> QED BY <2>4
<1>14. ASSUME ~ Waiting(words) /\ IsHigh(u) PROVE more = kept
  <2>1. Len(more) = n /\ Len(kept) = n
    BY <1>3, <1>4, <1>14
  <2>2. \A i \in 1..n : more[i] = kept[i]
    BY <1>3, <1>4, <1>6, <1>14, <2>1
  <2>3. more = kept
    BY <1>3, <1>4, <2>1, <2>2, SameSeq
  <2> QED BY <2>3
<1>15. ASSUME ~ Waiting(words) /\ ~ IsHigh(u) /\ ~ IsLow(u) PROVE more = Append(kept, <<u>>)
  <2> DEFINE one == Append(kept, <<u>>)
  <2>1. Len(more) = n + 1 /\ Len(kept) = n
    BY <1>3, <1>4, <1>15
  <2>2. /\ one \in Seq(Seq(Int)) /\ Len(one) = n + 1 /\ one[n + 1] = <<u>>
        /\ \A i \in 1..n : one[i] = kept[i]
    BY <1>4, <1>7, <2>1, AppendMore
  <2> HIDE DEF one
  <2>3. \A i \in 1..(n + 1) : i = n + 1 \/ i \in 1..n
    BY <1>1
  <2>4. \A i \in 1..(n + 1) : more[i] = one[i]
    BY <1>3, <1>4, <1>6, <1>15, <2>1, <2>2, <2>3
  <2>5. more = one
    BY <1>3, <2>1, <2>2, <2>4, SameSeq
  <2> QED BY <2>5 DEF one
<1> QED
  BY <1>10, <1>11, <1>12, <1>13, <1>14, <1>15 DEF more, kept, W, n, pair, broken

-----------------------------------------------------------------------------
(* The WHATWG decoder follows.                                               *)

LEMMA UnitIs ==
  ASSUME NEW order, NEW b1 \in Int, NEW b2 \in Int
  PROVE  CodeUnit(order, b1, b2) \in Int
BY DEF CodeUnit

LEMMA UnitsAre ==
  ASSUME NEW order, NEW data \in Seq(Int)
  PROVE  Units(order, data) \in Seq(Int) /\ Len(Units(order, data)) = Len(data) \div 2
<1> DEFINE n == Len(data) \div 2
           unit(i) == CodeUnit(order, data[2 * i - 1], data[2 * i])
<1>1. n \in Nat /\ \A i \in 1..n : 2 * i - 1 \in 1..Len(data) /\ 2 * i \in 1..Len(data)
  <2>1. Len(data) \in Nat
    OBVIOUS
  <2> HIDE DEF n
  <2>2. n \in Nat /\ 2 * n <= Len(data)
    BY <2>1 DEF n
  <2> QED BY <2>1, <2>2
<1>2. \A i \in 1..n : unit(i) \in Int
  <2> HIDE DEF n
  <2>1. \A j \in 1..Len(data) : data[j] \in Int
    OBVIOUS
  <2> QED BY <1>1, <2>1, UnitIs
<1> HIDE DEF n, unit
<1>3. [i \in 1..n |-> unit(i)] \in Seq(Int) /\ Len([i \in 1..n |-> unit(i)]) = n
  BY <1>1, <1>2
<1> QED BY <1>3 DEF Units, n, unit

LEMMA Halves ==
  ASSUME NEW n \in Nat
  PROVE  /\ n % 2 \in {0, 1} /\ (n + 1) % 2 = 1 - (n % 2)
         /\ n % 2 = 0 => (n + 1) \div 2 = n \div 2
         /\ n % 2 = 1 => (n + 1) \div 2 = n \div 2 + 1
                         /\ 2 * (n \div 2 + 1) - 1 = n /\ 2 * (n \div 2 + 1) = n + 1
         /\ n \div 2 \in Nat
         /\ \A i \in 1..(n \div 2) : 2 * i - 1 \in 1..n /\ 2 * i \in 1..n
OBVIOUS

\* Every second byte makes a unit.
LEMMA UnitsMore ==
  ASSUME NEW order, NEW data \in Seq(Int), NEW byte \in Int
  PROVE  /\ Len(data) % 2 = 0 => Units(order, Append(data, byte)) = Units(order, data)
         /\ Len(data) % 2 = 1 =>
              Units(order, Append(data, byte)) =
                Append(Units(order, data), CodeUnit(order, data[Len(data)], byte))
<1> DEFINE n == Len(data)
           h == n \div 2
           more == Append(data, byte)
           words == Units(order, data)
           unit(d, i) == CodeUnit(order, d[2 * i - 1], d[2 * i])
<1>1. /\ more \in Seq(Int) /\ Len(more) = n + 1 /\ n \in Nat /\ more[n + 1] = byte
      /\ \A j \in 1..n : more[j] = data[j]
  BY AppendMore
<1>2. /\ words \in Seq(Int) /\ Len(words) = h
      /\ Units(order, more) \in Seq(Int) /\ Len(Units(order, more)) = (n + 1) \div 2
  <2> HIDE DEF more
  <2> QED BY <1>1, UnitsAre
<1>3. /\ \A i \in 1..h : words[i] = unit(data, i)
      /\ \A i \in 1..((n + 1) \div 2) : Units(order, more)[i] = unit(more, i)
  <2> HIDE DEF more
  <2> QED BY <1>1 DEF Units
<1> HIDE DEF more, words, n
<1>4. h \in Nat /\ \A i \in 1..h : 2 * i - 1 \in 1..n /\ 2 * i \in 1..n
  BY <1>1, Halves
<1>5. \A i \in 1..h : unit(more, i) = unit(data, i)
  BY <1>1, <1>4
<1>6. ASSUME n % 2 = 0 PROVE Units(order, more) = words
  <2>1. (n + 1) \div 2 = h
    BY <1>1, <1>6, Halves
  <2> HIDE DEF h, unit
  <2> QED BY <1>2, <1>3, <1>5, <2>1, SameSeq
<1>7. ASSUME n % 2 = 1 PROVE Units(order, more) = Append(words, CodeUnit(order, data[n], byte))
  <2> DEFINE final == CodeUnit(order, data[n], byte)
             longer == Append(words, final)
  <2>1. (n + 1) \div 2 = h + 1 /\ 2 * (h + 1) - 1 = n /\ 2 * (h + 1) = n + 1 /\ n \in 1..n
    BY <1>1, <1>7, Halves
  <2>2. unit(more, h + 1) = final
    BY <1>1, <2>1
  <2>3. final \in Int
    BY <2>1, UnitIs DEF n
  <2> HIDE DEF h, unit, final
  <2>4. /\ longer \in Seq(Int) /\ Len(longer) = h + 1 /\ longer[h + 1] = final
        /\ \A i \in 1..h : longer[i] = words[i]
    BY <1>2, <2>3, AppendMore
  <2> HIDE DEF longer
  <2>5. \A i \in 1..(h + 1) : i = h + 1 \/ i \in 1..h
    BY <1>4
  <2>6. Len(Units(order, more)) = h + 1
    BY <1>2, <2>1 DEF h
  <2>7. \A i \in 1..(h + 1) : Units(order, more)[i] = longer[i]
    BY <1>3, <1>5, <2>1, <2>2, <2>4, <2>5 DEF h
  <2>8. Units(order, more) = longer
    BY <1>2, <2>4, <2>6, <2>7, SameSeq
  <2> QED BY <2>8 DEF longer, final
<1> QED BY <1>6, <1>7 DEF more, words, n

\* The state of the decoder after some bytes.
Follows(order, data, r) ==
  LET words == Units(order, data)
  IN  /\ r = [lead |-> r.lead, surrogate |-> r.surrogate, out |-> r.out]
      /\ r.lead = IF Len(data) % 2 = 1 THEN data[Len(data)] ELSE None
      /\ r.surrogate = IF Waiting(words) THEN words[Len(words)] ELSE None
      /\ r.out = FlattenSeq(Kept(words))

LEMMA NoWords == Kept(<<>>) = <<>> /\ FlattenSeq(Kept(<<>>)) = <<>>
<1>1. <<>> \in Seq(Int) /\ Len(<<>>) = 0 /\ ~ Waiting(<<>>)
  BY DEF Waiting
<1>2. Kept(<<>>) \in Seq(Seq(Int)) /\ Len(Kept(<<>>)) = 0
  BY <1>1, KeptIs
<1> QED BY <1>1, <1>2 DEF FlattenSeq

LEMMA NoBytes ==
  ASSUME NEW order
  PROVE  Follows(order, <<>>, Fresh)
<1>1. <<>> \in Seq(Int) /\ Len(<<>>) = 0 /\ Len(<<>>) % 2 = 0 /\ Len(<<>>) \div 2 = 0
  OBVIOUS
<1>2. Units(order, <<>>) = <<>>
  <2>1. Units(order, <<>>) \in Seq(Int) /\ Len(Units(order, <<>>)) = 0
    BY <1>1, UnitsAre
  <2> QED BY <2>1
<1>3. ~ Waiting(<<>>)
  BY DEF Waiting
<1> QED BY <1>1, <1>2, <1>3, NoWords DEF Follows, Fresh

DecoderState(lead, surrogate, out) == [lead |-> lead, surrogate |-> surrogate, out |-> out]

Broken(surrogate) == IF surrogate = None THEN <<>> ELSE <<Replacement>>

\* What the decoder does with a byte, by what was pending.
FedBy(order, lead, surrogate, out, byte) ==
  LET fed == Fed(order, DecoderState(lead, surrogate, out), byte)
      unit == CodeUnit(order, lead, byte)
      broken == Broken(surrogate)
  IN  /\ lead = None => fed = DecoderState(byte, surrogate, out)
      /\ lead # None /\ surrogate # None /\ IsLow(unit) =>
           fed = DecoderState(None, None, out \o <<Scalar(surrogate, unit)>>)
      /\ lead # None /\ IsHigh(unit) /\ ~ IsLow(unit) =>
           fed = DecoderState(None, unit, out \o broken)
      /\ lead # None /\ surrogate = None /\ IsLow(unit) /\ ~ IsHigh(unit) =>
           fed = DecoderState(None, None, out \o (broken \o <<Replacement>>))
      /\ lead # None /\ ~ IsHigh(unit) /\ ~ IsLow(unit) =>
           fed = DecoderState(None, None, out \o (broken \o <<unit>>))

LEMMA FedIs ==
  ASSUME NEW order, NEW lead, NEW surrogate, NEW out, NEW byte
  PROVE  FedBy(order, lead, surrogate, out, byte)
<1> DEFINE r == DecoderState(lead, surrogate, out)
           unit == CodeUnit(order, lead, byte)
           broken == Broken(surrogate)
           Emit(chars) == [lead |-> None, surrogate |-> None, out |-> out \o chars]
<1>1. r.lead = lead /\ r.surrogate = surrogate /\ r.out = out
  BY DEF DecoderState
<1>2. [r EXCEPT !.lead = byte] = DecoderState(byte, surrogate, out)
  BY DEF DecoderState
<1>3. \A chars : [Emit(chars) EXCEPT !.surrogate = unit] = DecoderState(None, unit, out \o chars)
  <2> SUFFICES ASSUME NEW chars
               PROVE  [Emit(chars) EXCEPT !.surrogate = unit] =
                        DecoderState(None, unit, out \o chars)
    OBVIOUS
  <2> DEFINE text == out \o chars
  <2> HIDE DEF text, unit
  <2>1. [[lead |-> None, surrogate |-> None, out |-> text] EXCEPT !.surrogate = unit] =
          [lead |-> None, surrogate |-> unit, out |-> text]
    OBVIOUS
  <2> QED BY <2>1 DEF DecoderState, text
<1>4. \A chars : Emit(chars) = DecoderState(None, None, out \o chars)
  BY DEF DecoderState
<1>5. Fed(order, r, byte) =
        IF lead = None THEN [r EXCEPT !.lead = byte]
        ELSE IF surrogate # None /\ IsLow(unit) THEN Emit(<<Scalar(surrogate, unit)>>)
        ELSE IF IsHigh(unit) THEN [Emit(broken) EXCEPT !.surrogate = unit]
        ELSE IF IsLow(unit) THEN Emit(broken \o <<Replacement>>)
        ELSE Emit(broken \o <<unit>>)
  BY <1>1 DEF Fed, Broken
<1> HIDE DEF Emit, r, broken, unit
<1> DEFINE fed == Fed(order, r, byte)
<1>6. /\ lead = None => fed = DecoderState(byte, surrogate, out)
      /\ lead # None /\ surrogate # None /\ IsLow(unit) =>
           fed = DecoderState(None, None, out \o <<Scalar(surrogate, unit)>>)
      /\ lead # None /\ IsHigh(unit) /\ ~ IsLow(unit) =>
           fed = DecoderState(None, unit, out \o broken)
      /\ lead # None /\ surrogate = None /\ IsLow(unit) /\ ~ IsHigh(unit) =>
           fed = DecoderState(None, None, out \o (broken \o <<Replacement>>))
      /\ lead # None /\ ~ IsHigh(unit) /\ ~ IsLow(unit) =>
           fed = DecoderState(None, None, out \o (broken \o <<unit>>))
  BY <1>2, <1>3, <1>4, <1>5
<1> QED BY <1>6 DEF FedBy, r, broken, unit

\* Flattened, what KeptMore says.
LEMMA OutMore ==
  ASSUME NEW words \in Seq(Int), NEW u \in Int
  PROVE  LET more == FlattenSeq(Kept(Append(words, u)))
             out == FlattenSeq(Kept(words))
         IN  /\ Waiting(words) /\ IsLow(u) =>
                  more = out \o <<Scalar(words[Len(words)], u)>>
             /\ Waiting(words) /\ IsHigh(u) => more = out \o <<Replacement>>
             /\ Waiting(words) /\ ~ IsHigh(u) /\ ~ IsLow(u) =>
                  more = out \o (<<Replacement>> \o <<u>>)
             /\ ~ Waiting(words) /\ IsLow(u) => more = out \o (<<>> \o <<Replacement>>)
             /\ ~ Waiting(words) /\ IsHigh(u) => more = out \o <<>>
             /\ ~ Waiting(words) /\ ~ IsHigh(u) /\ ~ IsLow(u) => more = out \o (<<>> \o <<u>>)
<1> DEFINE kept == Kept(words)
           out == FlattenSeq(kept)
           more == Kept(Append(words, u))
           pair == <<Scalar(words[Len(words)], u)>>
           broken == Append(kept, <<Replacement>>)
<1>1. kept \in Seq(Seq(Int)) /\ <<>> \in Seq(Int) /\ <<Replacement>> \in Seq(Int)
      /\ <<u>> \in Seq(Int)
  BY KeptIs, UnitKinds, OneChar
<1>2. Waiting(words) => pair \in Seq(Int)
  <2>1. ASSUME Waiting(words) PROVE words[Len(words)] \in Int
    BY <2>1 DEF Waiting
  <2> QED BY <2>1, UnitKinds, OneChar
<1>3. /\ Waiting(words) /\ IsLow(u) => more = Append(Append(kept, pair), <<>>)
      /\ Waiting(words) /\ IsHigh(u) => more = broken
      /\ Waiting(words) /\ ~ IsHigh(u) /\ ~ IsLow(u) => more = Append(broken, <<u>>)
      /\ ~ Waiting(words) /\ IsLow(u) => more = broken
      /\ ~ Waiting(words) /\ IsHigh(u) => more = kept
      /\ ~ Waiting(words) /\ ~ IsHigh(u) /\ ~ IsLow(u) => more = Append(kept, <<u>>)
  BY KeptMore
<1>4. out \in Seq(Int)
  BY <1>1, FlattenType
<1>5. \A x \in Seq(Int) :
        /\ Append(kept, x) \in Seq(Seq(Int))
        /\ FlattenSeq(Append(kept, x)) = out \o x
        /\ \A y \in Seq(Int) : FlattenSeq(Append(Append(kept, x), y)) = (out \o x) \o y
  <2> SUFFICES ASSUME NEW x \in Seq(Int), NEW y \in Seq(Int)
               PROVE  /\ Append(kept, x) \in Seq(Seq(Int))
                      /\ FlattenSeq(Append(kept, x)) = out \o x
                      /\ FlattenSeq(Append(Append(kept, x), y)) = (out \o x) \o y
    BY <1>1
  <2> DEFINE longer == Append(kept, x)
  <2>1. longer \in Seq(Seq(Int))
    BY <1>1, AppendMore
  <2>2. FlattenSeq(longer) = out \o x
    BY <1>1, FlattenAppend
  <2>3. FlattenSeq(Append(longer, y)) = FlattenSeq(longer) \o y
    <3> HIDE DEF longer
    <3> QED BY <2>1, FlattenAppend
  <2> QED BY <2>1, <2>2, <2>3
<1>6. \A x, y \in Seq(Int) : (out \o x) \o y = out \o (x \o y)
  <2> HIDE DEF out
  <2> QED BY <1>4
<1>7. \A x \in Seq(Int) : x \o <<>> = x /\ <<>> \o x = x
  OBVIOUS
<1> HIDE DEF kept, out, more, pair
<1>8. /\ Waiting(words) /\ IsLow(u) => FlattenSeq(more) = out \o pair
      /\ Waiting(words) /\ IsHigh(u) => FlattenSeq(more) = out \o <<Replacement>>
      /\ Waiting(words) /\ ~ IsHigh(u) /\ ~ IsLow(u) =>
           FlattenSeq(more) = out \o (<<Replacement>> \o <<u>>)
      /\ ~ Waiting(words) /\ IsLow(u) => FlattenSeq(more) = out \o (<<>> \o <<Replacement>>)
      /\ ~ Waiting(words) /\ IsHigh(u) => FlattenSeq(more) = out \o <<>>
      /\ ~ Waiting(words) /\ ~ IsHigh(u) /\ ~ IsLow(u) =>
           FlattenSeq(more) = out \o (<<>> \o <<u>>)
  <2>1. out \o <<>> = out /\ FlattenSeq(kept) = out
    BY <1>4, <1>7 DEF out
  <2>2. ASSUME Waiting(words), IsLow(u) PROVE FlattenSeq(more) = out \o pair
    <3>1. FlattenSeq(more) = (out \o pair) \o <<>>
      BY <1>1, <1>2, <1>3, <1>5, <2>2
    <3>2. pair \o <<>> = pair
      BY <1>2, <1>7, <2>2
    <3> QED BY <1>1, <1>2, <1>6, <2>2, <3>1, <3>2
  <2>3. ASSUME Waiting(words), ~ IsHigh(u), ~ IsLow(u)
        PROVE  FlattenSeq(more) = out \o (<<Replacement>> \o <<u>>)
    <3>1. FlattenSeq(more) = (out \o <<Replacement>>) \o <<u>>
      BY <1>1, <1>3, <1>5, <2>3
    <3> QED BY <1>1, <1>6, <3>1
  <2>4. <<>> \o <<Replacement>> = <<Replacement>> /\ <<>> \o <<u>> = <<u>>
    BY <1>1, <1>7
  <2>5. FlattenSeq(broken) = out \o <<Replacement>> /\ FlattenSeq(Append(kept, <<u>>))
          = out \o <<u>>
    BY <1>1, <1>5
  <2> HIDE DEF broken
  <2> QED BY <1>3, <2>1, <2>2, <2>3, <2>4, <2>5
<1> QED BY <1>8 DEF out, more, pair, kept

\* A byte is read the same way by both.
LEMMA FedFollows ==
  ASSUME NEW order, NEW data \in Seq(Int), NEW byte \in Int, None \notin Int, NEW r,
         Follows(order, data, r)
  PROVE  Follows(order, Append(data, byte), Fed(order, r, byte))
<1> DEFINE n == Len(data)
           more == Append(data, byte)
           words == Units(order, data)
           lead == IF n % 2 = 1 THEN data[n] ELSE None
           surrogate == IF Waiting(words) THEN words[Len(words)] ELSE None
           out == FlattenSeq(Kept(words))
           u == CodeUnit(order, data[n], byte)
           fed == Fed(order, r, byte)
           words2 == Units(order, more)
           lead2 == IF (n + 1) % 2 = 1 THEN byte ELSE None
           surrogate2 == IF Waiting(words2) THEN words2[Len(words2)] ELSE None
           out2 == FlattenSeq(Kept(words2))
<1>1. r = DecoderState(lead, surrogate, out) /\ FedBy(order, lead, surrogate, out, byte)
  BY FedIs DEF Follows, DecoderState
<1>2. /\ Len(more) = n + 1 /\ more[n + 1] = byte /\ n \in Nat
      /\ n % 2 \in {0, 1} /\ (n + 1) % 2 = 1 - (n % 2)
  BY AppendMore, Halves
<1>3. /\ n % 2 = 0 => words2 = words
      /\ n % 2 = 1 => words2 = Append(words, u)
  BY UnitsMore
<1>4. words \in Seq(Int)
  BY UnitsAre
<1>5. n % 2 = 1 => lead \in Int /\ u \in Int /\ lead # None
  <2>1. ASSUME n % 2 = 1 PROVE data[n] \in Int
    <3>1. n # 0
      BY <2>1
    <3> QED BY <3>1
  <2> HIDE DEF n
  <2> QED BY <2>1, UnitIs
<1>6. Waiting(words) => surrogate \in Int /\ surrogate # None
  <2> HIDE DEF words
  <2>1. ASSUME Waiting(words) PROVE words[Len(words)] \in Int
    BY <1>4, <2>1 DEF Waiting
  <2> QED BY <2>1
<1>7. ASSUME fed = DecoderState(lead2, surrogate2, out2)
      PROVE  Follows(order, more, fed)
  <2> HIDE DEF fed, more, lead2, surrogate2, out2
  <2>1. fed.lead = lead2 /\ fed.surrogate = surrogate2 /\ fed.out = out2
    BY <1>7 DEF DecoderState
  <2>2. fed = [lead |-> fed.lead, surrogate |-> fed.surrogate, out |-> fed.out]
    BY <1>7 DEF DecoderState
  <2>3. lead2 = IF Len(more) % 2 = 1 THEN more[Len(more)] ELSE None
    BY <1>2 DEF lead2
  <2> QED BY <2>1, <2>2, <2>3 DEF Follows, surrogate2, out2
<1>8. ASSUME n % 2 = 0 PROVE fed = DecoderState(lead2, surrogate2, out2)
  <2>1. fed = DecoderState(byte, surrogate, out)
    <3>1. lead = None
      BY <1>8
    <3>2. fed = Fed(order, DecoderState(lead, surrogate, out), byte)
      BY <1>1
    <3> HIDE DEF fed, lead, surrogate, out
    <3> QED BY <1>1, <3>1, <3>2 DEF FedBy
  <2>2. lead2 = byte
    BY <1>2, <1>8
  <2>3. words2 = words
    BY <1>3, <1>8
  <2>4. surrogate2 = surrogate /\ out2 = out
    <3> HIDE DEF words2, words
    <3> QED BY <2>3
  <2> HIDE DEF fed, lead2, surrogate2, out2, lead, surrogate, out
  <2> QED BY <2>1, <2>2, <2>4
<1>9. ASSUME n % 2 = 1 PROVE fed = DecoderState(lead2, surrogate2, out2)
  <2>1. lead2 = None
    BY <1>2, <1>9
  <2>2. words2 = Append(words, u) /\ u \in Int /\ lead # None
    BY <1>3, <1>5, <1>9
  <2> DEFINE longer == Append(words, u)
             broken == Broken(surrogate)
  <2>3. /\ Waiting(longer) <=> IsHigh(u)
        /\ longer[Len(longer)] = u
    BY <1>4, <2>2, AppendMore DEF Waiting
  <2>4. ~ (IsHigh(u) /\ IsLow(u))
    BY <2>2, UnitKinds
  <2>5. /\ surrogate2 = IF IsHigh(u) THEN u ELSE None
        /\ out2 = FlattenSeq(Kept(longer))
    <3>1. words2 = longer
      BY <2>2
    <3> HIDE DEF words2, longer, u
    <3> QED BY <2>3, <3>1
  <2>6. CodeUnit(order, lead, byte) = u
    BY <1>9
  <2>7. Waiting(words) <=> surrogate # None
    BY <1>6
  <2>8. /\ Waiting(words) => surrogate = words[Len(words)] /\ broken = <<Replacement>>
        /\ ~ Waiting(words) => broken = <<>>
    BY <1>6 DEF Broken
  <2>9. /\ surrogate # None /\ IsLow(u) =>
             fed = DecoderState(None, None, out \o <<Scalar(surrogate, u)>>)
        /\ IsHigh(u) /\ ~ IsLow(u) => fed = DecoderState(None, u, out \o broken)
        /\ surrogate = None /\ IsLow(u) /\ ~ IsHigh(u) =>
             fed = DecoderState(None, None, out \o (broken \o <<Replacement>>))
        /\ ~ IsHigh(u) /\ ~ IsLow(u) =>
             fed = DecoderState(None, None, out \o (broken \o <<u>>))
    <3>1. fed = Fed(order, DecoderState(lead, surrogate, out), byte)
      BY <1>1
    <3> HIDE DEF fed, lead, surrogate, out, u
    <3> QED BY <1>1, <2>2, <2>6, <3>1 DEF FedBy
  <2> HIDE DEF fed, more, n, words, lead, u, lead2, surrogate2, out2
  <2>10. /\ Waiting(words) /\ IsLow(u) =>
              FlattenSeq(Kept(longer)) = out \o <<Scalar(words[Len(words)], u)>>
         /\ Waiting(words) /\ IsHigh(u) => FlattenSeq(Kept(longer)) = out \o <<Replacement>>
         /\ Waiting(words) /\ ~ IsHigh(u) /\ ~ IsLow(u) =>
              FlattenSeq(Kept(longer)) = out \o (<<Replacement>> \o <<u>>)
         /\ ~ Waiting(words) /\ IsLow(u) =>
              FlattenSeq(Kept(longer)) = out \o (<<>> \o <<Replacement>>)
         /\ ~ Waiting(words) /\ IsHigh(u) => FlattenSeq(Kept(longer)) = out \o <<>>
         /\ ~ Waiting(words) /\ ~ IsHigh(u) /\ ~ IsLow(u) =>
              FlattenSeq(Kept(longer)) = out \o (<<>> \o <<u>>)
    BY <1>4, <2>2, OutMore
  <2> HIDE DEF longer, surrogate, out, broken
  <2>11. CASE Waiting(words) /\ IsLow(u)
    <3>1. fed = DecoderState(None, None, FlattenSeq(Kept(longer)))
      BY <2>7, <2>8, <2>9, <2>10, <2>11
    <3>2. surrogate2 = None
      BY <2>4, <2>5, <2>11
    <3> QED BY <2>1, <2>5, <3>1, <3>2
  <2>12. CASE ~ Waiting(words) /\ IsLow(u)
    <3>1. fed = DecoderState(None, None, FlattenSeq(Kept(longer)))
      BY <2>4, <2>7, <2>8, <2>9, <2>10, <2>12
    <3>2. surrogate2 = None
      BY <2>4, <2>5, <2>12
    <3> QED BY <2>1, <2>5, <3>1, <3>2
  <2>13. CASE IsHigh(u)
    <3>1. fed = DecoderState(None, u, FlattenSeq(Kept(longer)))
      BY <2>4, <2>8, <2>9, <2>10, <2>13
    <3>2. surrogate2 = u
      BY <2>5, <2>13
    <3> QED BY <2>1, <2>5, <3>1, <3>2
  <2>14. CASE ~ IsHigh(u) /\ ~ IsLow(u)
    <3>1. fed = DecoderState(None, None, FlattenSeq(Kept(longer)))
      BY <2>8, <2>9, <2>10, <2>14
    <3>2. surrogate2 = None
      BY <2>5, <2>14
    <3> QED BY <2>1, <2>5, <3>1, <3>2
  <2> QED BY <2>11, <2>12, <2>13, <2>14
<1>10. n % 2 = 0 \/ n % 2 = 1
  BY <1>2
<1>11. fed = DecoderState(lead2, surrogate2, out2)
  BY <1>8, <1>9, <1>10
<1> QED BY <1>7, <1>11

\* At the end of the bytes both say the same.
LEMMA EndedIs ==
  ASSUME NEW order, NEW data \in Seq(Int), None \notin Int, NEW r, Follows(order, data, r)
  PROVE  Ended(r) = DecodeUtf16(order, data) /\ r.out \in Seq(Int)
<1> DEFINE words == Units(order, data)
           odd == Len(data) % 2 = 1
           broken == Waiting(words)
           out == FlattenSeq(Kept(words))
           error == <<Replacement>>
<1>1. words \in Seq(Int) /\ Len(words) \in Nat
  BY UnitsAre
<1>2. out \in Seq(Int) /\ error \in Seq(Int) /\ <<>> \in Seq(Int)
  <2> HIDE DEF words
  <2> QED BY <1>1, KeptIs, FlattenType, UnitKinds, OneChar
<1>3. Lossy(words) = out \o IF broken THEN error ELSE <<>>
  <2> HIDE DEF words
  <2> QED BY <1>1, LossyEnds
<1>4. Trailing(words, odd) <=> odd /\ ~ broken
  <2>1. Last(words) = words[Len(words)]
    BY DEF Last
  <2> QED BY <2>1 DEF Trailing, Waiting
<1>5. r.lead = None <=> ~ odd
  <2>1. odd => Len(data) # 0 /\ data[Len(data)] \in Int
    OBVIOUS
  <2> QED BY <2>1 DEF Follows
<1>6. r.surrogate = None <=> ~ broken
  <2> HIDE DEF words
  <2>1. Waiting(words) => words[Len(words)] \in Int
    BY <1>1 DEF Waiting
  <2>2. r.surrogate = IF Waiting(words) THEN words[Len(words)] ELSE None
    BY DEF Follows, words
  <2> QED BY <2>1, <2>2
<1>7. r.out = out
  BY DEF Follows
<1> HIDE DEF words, odd, broken, out
<1>8. /\ Append(out, Replacement) = out \o error
      /\ out \o <<>> = out /\ (out \o error) \o <<>> = out \o error
  BY <1>2
<1>9. DecodeUtf16(order, data) = Lossy(words) \o IF odd /\ ~ broken THEN error ELSE <<>>
  BY <1>4 DEF DecodeUtf16, words, odd
<1>10. Ended(r) = IF ~ odd /\ ~ broken THEN out ELSE out \o error
  BY <1>5, <1>6, <1>7, <1>8 DEF Ended
<1>11. Ended(r) = DecodeUtf16(order, data)
  <2> HIDE DEF error
  <2>1. CASE broken
    BY <1>3, <1>8, <1>9, <1>10, <2>1
  <2>2. CASE ~ broken /\ odd
    BY <1>3, <1>8, <1>9, <1>10, <2>2
  <2>3. CASE ~ broken /\ ~ odd
    BY <1>3, <1>8, <1>9, <1>10, <2>3
  <2> QED BY <2>1, <2>2, <2>3
<1> QED BY <1>2, <1>7, <1>11

-----------------------------------------------------------------------------
(* Byte order marks.                                                         *)

Mark(order) == IF order = "le" THEN <<255, 254>> ELSE <<254, 255>>
Rest(data) == SubSeq(data, 3, Len(data))

\* The decoder's state without the mark, which it has as its first character.
Cut(r) == DecoderState(r.lead, r.surrogate, Tail(r.out))

AddsAlways(order, lead, surrogate, byte, lead2, surrogate2) ==
  \E more \in Seq(Int) : \A out \in Seq(Int) :
    Fed(order, DecoderState(lead, surrogate, out), byte) =
      DecoderState(lead2, surrogate2, out \o more)

\* What a byte adds does not depend on what is out.
LEMMA FedAdds ==
  ASSUME NEW order, NEW lead \in Int \union {None}, NEW surrogate \in Int \union {None},
         NEW byte \in Int, None \notin Int
  PROVE  \E lead2, surrogate2 : AddsAlways(order, lead, surrogate, byte, lead2, surrogate2)
<1> DEFINE unit == CodeUnit(order, lead, byte)
           broken == Broken(surrogate)
           fed(out) == Fed(order, DecoderState(lead, surrogate, out), byte)
           Adds(lead2, surrogate2, more) ==
             more \in Seq(Int) /\ \A out \in Seq(Int) : fed(out)
               = DecoderState(lead2, surrogate2, out \o more)
<1>1. ASSUME NEW out \in Seq(Int)
      PROVE  /\ lead = None => fed(out) = DecoderState(byte, surrogate, out)
             /\ lead # None /\ surrogate # None /\ IsLow(unit) =>
                  fed(out) = DecoderState(None, None, out \o <<Scalar(surrogate, unit)>>)
             /\ lead # None /\ IsHigh(unit) /\ ~ IsLow(unit) =>
                  fed(out) = DecoderState(None, unit, out \o broken)
             /\ lead # None /\ surrogate = None /\ IsLow(unit) /\ ~ IsHigh(unit) =>
                  fed(out) = DecoderState(None, None, out \o (broken \o <<Replacement>>))
             /\ lead # None /\ ~ IsHigh(unit) /\ ~ IsLow(unit) =>
                  fed(out) = DecoderState(None, None, out \o (broken \o <<unit>>))
  <2>1. FedBy(order, lead, surrogate, out, byte)
    BY FedIs
  <2> QED BY <2>1 DEF FedBy
<1>2. lead # None => unit \in Int /\ ~ (IsHigh(unit) /\ IsLow(unit)) /\ <<unit>> \in Seq(Int)
  BY UnitIs, UnitKinds, OneChar
<1>3. broken \in Seq(Int) /\ <<Replacement>> \in Seq(Int) /\ <<>> \in Seq(Int)
  BY UnitKinds, OneChar DEF Broken
<1>4. \A x, y \in Seq(Int) : x \o y \in Seq(Int) /\ x \o <<>> = x
  OBVIOUS
<1> HIDE DEF unit, broken, fed
<1>5. CASE lead = None
  <2>1. Adds(byte, surrogate, <<>>)
    BY <1>1, <1>3, <1>4, <1>5
  <2> QED BY <2>1 DEF fed, AddsAlways
<1>6. CASE lead # None /\ surrogate # None /\ IsLow(unit)
  <2>1. <<Scalar(surrogate, unit)>> \in Seq(Int)
    BY <1>2, <1>6, UnitKinds, OneChar
  <2>2. Adds(None, None, <<Scalar(surrogate, unit)>>)
    BY <1>1, <1>6, <2>1
  <2> QED BY <2>2 DEF fed, AddsAlways
<1>7. CASE lead # None /\ IsHigh(unit)
  <2>1. Adds(None, unit, broken)
    BY <1>1, <1>2, <1>3, <1>7
  <2> QED BY <2>1 DEF fed, AddsAlways
<1>8. CASE lead # None /\ surrogate = None /\ IsLow(unit)
  <2>1. Adds(None, None, broken \o <<Replacement>>)
    BY <1>1, <1>2, <1>3, <1>4, <1>8
  <2> QED BY <2>1 DEF fed, AddsAlways
<1>9. CASE lead # None /\ ~ IsHigh(unit) /\ ~ IsLow(unit)
  <2>1. Adds(None, None, broken \o <<unit>>)
    BY <1>1, <1>2, <1>3, <1>4, <1>9
  <2> QED BY <2>1 DEF fed, AddsAlways
<1> QED BY <1>5, <1>6, <1>7, <1>8, <1>9

LEMMA FollowingIs ==
  ASSUME NEW order, NEW data \in Seq(Int), NEW r, Follows(order, data, r)
  PROVE  /\ r = DecoderState(r.lead, r.surrogate, r.out)
         /\ r.lead \in Int \union {None} /\ r.surrogate \in Int \union {None}
         /\ r.out \in Seq(Int)
<1> DEFINE words == Units(order, data)
<1>1. words \in Seq(Int)
  BY UnitsAre
<1>2. r.lead = IF Len(data) % 2 = 1 THEN data[Len(data)] ELSE None
  BY DEF Follows
<1>3. Len(data) % 2 = 1 => data[Len(data)] \in Int
  <2>1. Len(data) % 2 = 1 => Len(data) # 0
    OBVIOUS
  <2> QED BY <2>1
<1>4. r = DecoderState(r.lead, r.surrogate, r.out) /\ r.out = FlattenSeq(Kept(words))
      /\ r.surrogate = IF Waiting(words) THEN words[Len(words)] ELSE None
  BY DEF Follows, DecoderState
<1> HIDE DEF words
<1>5. Waiting(words) => words[Len(words)] \in Int
  BY <1>1 DEF Waiting
<1>6. FlattenSeq(Kept(words)) \in Seq(Int)
  BY <1>1, KeptIs, FlattenType
<1> QED BY <1>2, <1>3, <1>4, <1>5, <1>6

LEMMA TailMore ==
  ASSUME NEW X, NEW s \in Seq(X), s # <<>>, NEW t \in Seq(X)
  PROVE  Tail(s \o t) = Tail(s) \o t /\ s \o t # <<>> /\ Tail(s) \in Seq(X)
<1>1. /\ Tail(s \o t) \in Seq(X) /\ Tail(s) \o t \in Seq(X) /\ s \o t # <<>>
      /\ Len(Tail(s \o t)) = Len(Tail(s) \o t)
      /\ \A i \in 1..Len(Tail(s \o t)) : Tail(s \o t)[i] = (Tail(s) \o t)[i]
  OBVIOUS
<1> QED BY <1>1, SameSeq

\* Feeding a byte and leaving the first character away commute.
LEMMA FedCut ==
  ASSUME NEW order, NEW data \in Seq(Int), NEW byte \in Int, None \notin Int, NEW r,
         Follows(order, data, r), r.out # <<>>
  PROVE  /\ Fed(order, Cut(r), byte) = Cut(Fed(order, r, byte))
         /\ Fed(order, r, byte).out # <<>>
<1>1. /\ r = DecoderState(r.lead, r.surrogate, r.out)
      /\ r.lead \in Int \union {None} /\ r.surrogate \in Int \union {None}
      /\ r.out \in Seq(Int)
  BY FollowingIs
<1>2. PICK lead2, surrogate2 :
        AddsAlways(order, r.lead, r.surrogate, byte, lead2, surrogate2)
  BY <1>1, FedAdds
<1>3. PICK more \in Seq(Int) : \A out \in Seq(Int) :
        Fed(order, DecoderState(r.lead, r.surrogate, out), byte) =
          DecoderState(lead2, surrogate2, out \o more)
  BY <1>2 DEF AddsAlways
<1>4. Tail(r.out \o more) = Tail(r.out) \o more /\ r.out \o more # <<>> /\ Tail(r.out) \in Seq(Int)
  BY <1>1, TailMore
<1>5. Fed(order, r, byte) = DecoderState(lead2, surrogate2, r.out \o more)
  BY <1>1, <1>3
<1>6. Fed(order, Cut(r), byte) = DecoderState(lead2, surrogate2, Tail(r.out) \o more)
  BY <1>3, <1>4 DEF Cut
<1> DEFINE longer == r.out \o more
           fed == Fed(order, r, byte)
<1>8. Cut(fed) = DecoderState(lead2, surrogate2, Tail(longer)) /\ fed.out = longer
  <2>1. fed = DecoderState(lead2, surrogate2, longer)
    BY <1>5
  <2> HIDE DEF fed, longer
  <2>2. fed.lead = lead2 /\ fed.surrogate = surrogate2 /\ fed.out = longer
    BY <2>1 DEF DecoderState
  <2> QED BY <2>2 DEF Cut
<1> QED BY <1>4, <1>6, <1>8

LEMMA AppendIs ==
  ASSUME NEW X, NEW s \in Seq(X), NEW x \in X
  PROVE  Append(s, x) = s \o <<x>>
OBVIOUS

LEMMA EndedCut ==
  ASSUME NEW r, r.out \in Seq(Int), r.out # <<>>
  PROVE  Ended(Cut(r)) = Tail(Ended(r))
<1>1. Cut(r).lead = r.lead /\ Cut(r).surrogate = r.surrogate /\ Cut(r).out = Tail(r.out)
  BY DEF Cut, DecoderState
<1>2. Append(r.out, Replacement) = r.out \o <<Replacement>>
      /\ Append(Tail(r.out), Replacement) = Tail(r.out) \o <<Replacement>>
      /\ <<Replacement>> \in Seq(Int)
  <2>1. Tail(r.out) \in Seq(Int) /\ Replacement \in Int
    BY UnitKinds
  <2> QED BY <2>1, AppendIs, OneChar
<1>3. Tail(r.out \o <<Replacement>>) = Tail(r.out) \o <<Replacement>>
  BY <1>2, TailMore
<1> QED BY <1>1, <1>2, <1>3 DEF Ended

\* A mark is one character, and nothing is pending after it.
LEMMA MarkIs ==
  ASSUME NEW order \in Orders, None \notin Int, NEW r, Follows(order, Mark(order), r)
  PROVE  r.out # <<>> /\ Cut(r) = Fresh
<1> DEFINE bom == Mark(order)
           u == 65279
<1>1. bom \in Seq(Int) /\ Len(bom) = 2 /\ Len(bom) % 2 = 0 /\ Len(bom) \div 2 = 1
  BY DEF Mark
<1>2. CodeUnit(order, bom[1], bom[2]) = u
  BY DEF Mark, CodeUnit, Orders
<1>3. Units(order, bom) = Append(<<>>, u)
  <2>1. Units(order, bom) \in Seq(Int) /\ Len(Units(order, bom)) = 1
    BY <1>1, UnitsAre
  <2>2. Units(order, bom)[1] = u
    <3> HIDE DEF bom
    <3> QED BY <1>1, <1>2 DEF Units
  <2> HIDE DEF bom
  <2> QED BY <2>1, <2>2
<1>4. ~ IsHigh(u) /\ ~ IsLow(u)
  BY DEF IsHigh, IsLow
<1>5. ~ Waiting(<<>>) /\ FlattenSeq(Kept(<<>>)) = <<>>
  BY NoWords DEF Waiting
<1>6. FlattenSeq(Kept(Append(<<>>, u))) = <<u>>
  <2>1. <<>> \in Seq(Int) /\ u \in Int /\ <<>> \o (<<>> \o <<u>>) = <<u>>
    OBVIOUS
  <2> HIDE DEF u
  <2>2. FlattenSeq(Kept(Append(<<>>, u))) = FlattenSeq(Kept(<<>>)) \o (<<>> \o <<u>>)
    BY <1>4, <1>5, <2>1, OutMore
  <2> QED BY <1>5, <2>1, <2>2
<1>7. ~ Waiting(Append(<<>>, u))
  BY <1>4 DEF Waiting
<1>8. r.lead = None /\ r.surrogate = None /\ r.out = <<u>>
  BY <1>1, <1>3, <1>6, <1>7 DEF Follows
<1> QED BY <1>8 DEF Cut, DecoderState, Fresh

LEMMA FirstTwo ==
  ASSUME NEW X, NEW s \in Seq(X), Len(s) >= 2
  PROVE  SubSeq(s, 1, 2) = <<s[1], s[2]>>
<1>1. Len(s) \in Nat /\ s[1] \in X /\ s[2] \in X
  OBVIOUS
<1>2. SubSeq(s, 1, 2) \in Seq(X) /\ Len(SubSeq(s, 1, 2)) = 2
      /\ SubSeq(s, 1, 2)[1] = s[1] /\ SubSeq(s, 1, 2)[2] = s[2]
  BY <1>1
<1>3. <<s[1], s[2]>> \in Seq(X) /\ Len(<<s[1], s[2]>>) = 2
  BY <1>1
<1>4. \A i \in 1..2 : i = 1 \/ i = 2
  OBVIOUS
<1>5. \A i \in 1..2 : SubSeq(s, 1, 2)[i] = <<s[1], s[2]>>[i]
  BY <1>2, <1>4
<1> QED BY <1>2, <1>3, <1>5, SameSeq

LEMMA RestIs ==
  ASSUME NEW X, NEW s \in Seq(X), Len(s) >= 2
  PROVE  /\ Rest(s) \in Seq(X) /\ Len(Rest(s)) = Len(s) - 2
         /\ \A i \in 1..(Len(s) - 2) : Rest(s)[i] = s[i + 2]
<1> DEFINE n == Len(s)
           rest == SubSeq(s, 3, n)
<1>1. n \in Nat /\ n >= 2
  OBVIOUS
<1>2. rest \in Seq(X) /\ Len(rest) = n - 2
  <2>1. rest \in Seq(X)
    <3>1. \A i \in 3..n : s[i] \in X
      OBVIOUS
    <3> QED BY <1>1, <3>1
  <2>2. Len(rest) = n - 2
    <3>1. CASE n >= 3
      BY <1>1, <3>1
    <3>2. CASE n = 2
      BY <3>2
    <3>3. n >= 3 \/ n = 2
      <4> HIDE DEF n
      <4> QED BY <1>1
    <3> QED BY <3>1, <3>2, <3>3
  <2> QED BY <2>1, <2>2
<1>3. ASSUME NEW i \in 1..(n - 2) PROVE rest[i] = s[i + 2]
  <2>1. i \in 1..((n - 3) + 1) /\ (3 + i) - 1 = i + 2
    BY <1>1
  <2>2. rest[i] = s[(3 + i) - 1]
    BY <1>1, <2>1
  <2> QED BY <2>1, <2>2
<1> QED BY <1>2, <1>3 DEF Rest

Marked(order, data) == IsPrefix(Mark(order), data)

LEMMA MarkedIs ==
  ASSUME NEW order, NEW data \in Seq(Int)
  PROVE  /\ Marked(order, data) <=>
              Len(data) >= 2 /\ data[1] = Mark(order)[1] /\ data[2] = Mark(order)[2]
         /\ Mark(order) \in Seq(Int) /\ Len(Mark(order)) = 2
<1>1. Mark(order) \in Seq(Int) /\ Len(Mark(order)) = 2 /\ Len(data) \in Nat
  BY DEF Mark
<1>2. SubSeq(Mark(order), 1, 2) = <<Mark(order)[1], Mark(order)[2]>>
  <2> HIDE DEF Mark
  <2>1. Len(Mark(order)) >= 2
    BY <1>1
  <2> QED BY <1>1, <2>1, FirstTwo
<1>3. Len(data) >= 2 => SubSeq(data, 1, 2) = <<data[1], data[2]>>
  BY FirstTwo
<1> HIDE DEF Mark
<1>4. Marked(order, data) <=>
        Len(data) >= 2 /\ <<Mark(order)[1], Mark(order)[2]>> = <<data[1], data[2]>>
  BY <1>1, <1>2, <1>3 DEF Marked, IsPrefix
<1> QED BY <1>1, <1>4

\* Behind its mark the decoder follows the rest of the text.
MarkSkipped(order, data, r) ==
  Marked(order, data) => r.out # <<>> /\ Follows(order, Rest(data), Cut(r))

LEMMA MarkFollows ==
  ASSUME NEW order \in Orders, NEW data \in Seq(Int), NEW byte \in Int, None \notin Int, NEW r,
         Follows(order, data, r), MarkSkipped(order, data, r)
  PROVE  MarkSkipped(order, Append(data, byte), Fed(order, r, byte))
<1> DEFINE more == Append(data, byte)
           fed == Fed(order, r, byte)
           n == Len(data)
<1>1. /\ more \in Seq(Int) /\ Len(more) = n + 1 /\ n \in Nat /\ more[n + 1] = byte
      /\ \A i \in 1..n : more[i] = data[i]
  BY AppendMore
<1>2. Follows(order, more, fed)
  BY FedFollows
<1>3. SUFFICES ASSUME Marked(order, more)
               PROVE  fed.out # <<>> /\ Follows(order, Rest(more), Cut(fed))
  BY DEF MarkSkipped
<1>4. n + 1 >= 2 /\ more[1] = Mark(order)[1] /\ more[2] = Mark(order)[2]
  <2> HIDE DEF more
  <2> QED BY <1>1, <1>3, MarkedIs
<1>5. CASE n = 1
  <2>1. more = Mark(order)
    <3>1. \A i \in 1..2 : i = 1 \/ i = 2
      OBVIOUS
    <3> HIDE DEF more
    <3>2. Len(more) = 2
      BY <1>1, <1>5
    <3> QED BY <1>1, <1>4, <3>1, <3>2, MarkedIs, SameSeq
  <2>2. Rest(more) = <<>>
    <3> HIDE DEF more
    <3> QED BY <1>1, <1>5 DEF Rest
  <2>3. fed.out # <<>> /\ Cut(fed) = Fresh
    <3> HIDE DEF more, fed
    <3> QED BY <1>2, <2>1, MarkIs
  <2> HIDE DEF more, fed
  <2> QED BY <2>2, <2>3, NoBytes
<1>6. CASE n # 1
  <2>1. n >= 2
    <3> HIDE DEF n, more
    <3> QED BY <1>1, <1>4, <1>6
  <2>2. Marked(order, data)
    <3>1. 1 \in 1..n /\ 2 \in 1..n
      BY <1>1, <2>1
    <3>2. data[1] = Mark(order)[1] /\ data[2] = Mark(order)[2]
      <4> HIDE DEF more, n
      <4> QED BY <1>1, <1>4, <3>1
    <3> QED BY <2>1, <3>2, MarkedIs
  <2>3. r.out # <<>> /\ Follows(order, Rest(data), Cut(r))
    BY <2>2 DEF MarkSkipped
  <2>4. Rest(data) \in Seq(Int) /\ Rest(more) = Append(Rest(data), byte)
    <3>1. /\ Rest(data) \in Seq(Int) /\ Len(Rest(data)) = n - 2
          /\ \A i \in 1..(n - 2) : Rest(data)[i] = data[i + 2]
      BY <2>1, RestIs
    <3>2. /\ Rest(more) \in Seq(Int) /\ Len(Rest(more)) = n - 1
          /\ \A i \in 1..(n - 1) : Rest(more)[i] = more[i + 2]
      <4> HIDE DEF more, n
      <4>1. (n + 1) - 2 = n - 1 /\ Len(more) >= 2
        BY <1>1, <2>1
      <4>2. Len(Rest(more)) = (n + 1) - 2
            /\ \A i \in 1..((n + 1) - 2) : Rest(more)[i] = more[i + 2]
        BY <1>1, <4>1, RestIs
      <4>3. Rest(more) \in Seq(Int)
        BY <1>1, <4>1, RestIs
      <4> QED BY <4>1, <4>2, <4>3
    <3> DEFINE longer == Append(Rest(data), byte)
    <3>3. /\ longer \in Seq(Int) /\ Len(longer) = (n - 2) + 1 /\ longer[(n - 2) + 1] = byte
          /\ \A i \in 1..(n - 2) : longer[i] = Rest(data)[i]
      <4> DEFINE rest == Rest(data)
      <4> HIDE DEF rest, n
      <4>1. Append(rest, byte) \in Seq(Int) /\ Len(Append(rest, byte)) = Len(rest) + 1
            /\ Append(rest, byte)[Len(rest) + 1] = byte
            /\ \A i \in 1..Len(rest) : Append(rest, byte)[i] = rest[i]
        BY <3>1, AppendMore DEF rest
      <4> QED BY <3>1, <4>1 DEF rest
    <3> HIDE DEF more, n, longer
    <3>4. (n - 2) + 1 = n - 1 /\ (n - 1) + 2 = n + 1
          /\ \A i \in 1..(n - 1) : i = n - 1 \/ (i \in 1..(n - 2) /\ i + 2 \in 1..n)
      BY <1>1, <2>1
    <3>5. \A i \in 1..(n - 1) : Rest(more)[i] = longer[i]
      BY <1>1, <3>1, <3>2, <3>3, <3>4
    <3>6. Rest(more) = longer
      BY <3>2, <3>3, <3>4, <3>5, SameSeq
    <3> QED BY <3>1, <3>6 DEF longer
  <2>5. Fed(order, Cut(r), byte) = Cut(fed) /\ fed.out # <<>>
    BY <2>3, FedCut
  <2>6. Follows(order, Append(Rest(data), byte), Fed(order, Cut(r), byte))
    BY <2>3, <2>4, FedFollows
  <2> HIDE DEF more, fed
  <2> QED BY <2>4, <2>5, <2>6
<1> QED BY <1>5, <1>6

-----------------------------------------------------------------------------
(* The text of a response.                                                   *)

TextInv ==
  /\ charset \in Charsets /\ body \in Seq(Int)
  /\ \A order \in Orders :
       Follows(order, body, reader[order]) /\ MarkSkipped(order, body, reader[order])

LEMMA TextInvInit ==
  ASSUME TextConstantsOK, TextInit
  PROVE  TextInv
<1>1. charset \in Charsets
  <2>1. PICK declared \in Charsets \union {None}, default \in Fallbacks :
          charset = IF declared = None THEN default ELSE declared
    BY DEF TextInit
  <2> QED BY <2>1 DEF TextConstantsOK
<1>2. body = <<>> /\ \A order \in Orders : reader[order] = Fresh
  BY DEF TextInit
<1>3. body \in Seq(Int) /\ Len(body) = 0
  BY <1>2
<1>4. \A order : ~ Marked(order, body)
  <2>1. ASSUME NEW order, Marked(order, body) PROVE FALSE
    <3>1. Len(body) >= 2
      BY <1>3, <2>1, MarkedIs
    <3> QED BY <1>3, <3>1
  <2> QED BY <2>1
<1>5. \A order \in Orders : Follows(order, body, reader[order])
  BY <1>2, NoBytes
<1> QED BY <1>1, <1>3, <1>4, <1>5 DEF TextInv, MarkSkipped

LEMMA TextKeeps ==
  ASSUME TextConstantsOK, TextInv, TextNext \/ UNCHANGED textVars
  PROVE  TextInv'
<1>1. None \notin Int
  BY DEF TextConstantsOK
<1>2. ASSUME NEW byte \in 0..255, Chunk(byte) PROVE TextInv'
  <2>1. byte \in Int
    OBVIOUS
  <2>2. body' = Append(body, byte) /\ charset' = charset
        /\ \A order \in Orders : reader'[order] = Fed(order, reader[order], byte)
    BY <1>2 DEF Chunk
  <2>3. body' \in Seq(Int)
    BY <2>1, <2>2 DEF TextInv
  <2>4. ASSUME NEW order \in Orders
        PROVE  /\ Follows(order, body', reader'[order])
               /\ MarkSkipped(order, body', reader'[order])
    <3>1. /\ body \in Seq(Int) /\ Follows(order, body, reader[order])
          /\ MarkSkipped(order, body, reader[order])
      BY DEF TextInv
    <3> QED BY <1>1, <2>1, <2>2, <3>1, FedFollows, MarkFollows
  <2> QED BY <2>2, <2>3, <2>4 DEF TextInv, Charsets
<1>3. ASSUME UNCHANGED <<charset, body, reader>> PROVE TextInv'
  BY <1>3 DEF TextInv
<1> QED BY <1>2, <1>3 DEF TextNext, ChunkFails, textVars

\* What has been read so far is decoded as the reference has it.
LEMMA DecodedSoFar ==
  ASSUME TextConstantsOK, TextInv, NEW order \in Orders
  PROVE  /\ DecodeUtf16(order, body) = Ended(reader[order])
         /\ Marked(order, body) => DecodeUtf16(order, Rest(body)) = Tail(Ended(reader[order]))
<1> DEFINE r == reader[order]
<1>1. /\ None \notin Int /\ body \in Seq(Int) /\ Follows(order, body, r)
      /\ MarkSkipped(order, body, r)
  BY DEF TextInv, TextConstantsOK
<1> HIDE DEF r
<1>2. Ended(r) = DecodeUtf16(order, body) /\ r.out \in Seq(Int)
  BY <1>1, EndedIs
<1>3. ASSUME Marked(order, body) PROVE DecodeUtf16(order, Rest(body)) = Tail(Ended(r))
  <2>1. r.out # <<>> /\ Follows(order, Rest(body), Cut(r))
    BY <1>1, <1>3 DEF MarkSkipped
  <2>2. Rest(body) \in Seq(Int)
    BY <1>1, <1>3, MarkedIs DEF Rest
  <2>3. Ended(Cut(r)) = DecodeUtf16(order, Rest(body))
    BY <1>1, <2>1, <2>2, EndedIs
  <2> QED BY <1>2, <2>1, <2>3, EndedCut
<1> QED BY <1>2, <1>3 DEF r

\* The encoding a mark or else the charset names.
Encoding == IF BomOf(body) = None THEN charset ELSE BomOf(body)

LEMMA Marks ==
  ASSUME TextConstantsOK, TextInv
  PROVE  /\ BomOf(body) \in {None, "utf_8", "utf_16le", "utf_16be"}
         /\ "utf_8" # None /\ "utf_16le" # None /\ "utf_16be" # None
         /\ BomOf(body) = "utf_16le" => Marked("le", body)
         /\ BomOf(body) = "utf_16be" => Marked("be", body)
         /\ BomOf(body) = None => ~ Marked("le", body) /\ ~ Marked("be", body)
<1>1. {"utf_8", "utf_16le", "utf_16be"} \subseteq DOMAIN Codepage
  BY DEF Codepage
<1>2. "utf_8" # None /\ "utf_16le" # None /\ "utf_16be" # None
  BY <1>1 DEF TextConstantsOK, Charsets
<1> QED BY <1>2 DEF BomOf, Marked, Mark

\* In what remains of a body its text is as documented.
LEMMA TextRead ==
  ASSUME TextConstantsOK, TextInv, body # <<>>, NEW order \in Orders,
         NEW label, label = (IF order = "le" THEN "utf_16le" ELSE "utf_16be"),
         Encoding = label
  PROVE  DecodeBody(body, charset) =
           Text("rust", IF BomOf(body) = None THEN Ended(reader[order])
                        ELSE Tail(Ended(reader[order])))
<1> DEFINE bom == BomOf(body)
           rest == SubSeq(body, BomLength(bom) + 1, Len(body))
<1>1. (order = "le" /\ label = "utf_16le") \/ (order = "be" /\ label = "utf_16be")
  BY DEF Orders
<1>2. label \notin {"utf_8", Unknown}
  <2>1. {"utf_16le", "utf_16be"} \subseteq DOMAIN Codepage
    BY DEF Codepage
  <2> QED BY <1>1, <2>1 DEF TextConstantsOK
<1>3. DecodeBody(body, charset) = Text("rust", DecodeUtf16(order, rest))
  BY <1>1, <1>2 DEF DecodeBody, Encoding
<1>4. CASE bom = None
  <2>1. BomLength(bom) + 1 = 1
    BY <1>4 DEF BomLength
  <2>2. rest = body
    <3>1. body \in Seq(Int)
      BY DEF TextInv
    <3>2. SubSeq(body, 1, Len(body)) = body
      BY <3>1
    <3> QED BY <2>1, <3>2
  <2> QED BY <1>3, <1>4, <2>2, DecodedSoFar
<1>5. CASE bom # None
  <2>1. bom = label /\ bom # "utf_8"
    BY <1>1, <1>5 DEF Encoding
  <2>2. BomLength(bom) + 1 = 3
    BY <1>5, <2>1 DEF BomLength
  <2>3. rest = Rest(body) /\ Marked(order, body)
    BY <1>1, <2>1, <2>2, Marks DEF Rest
  <2> QED BY <1>3, <1>5, <2>3, DecodedSoFar
<1> QED BY <1>4, <1>5

\* A text with its mark is the mark and the rest.
LEMMA MarkAndRest ==
  ASSUME NEW mark \in Seq(Int), NEW s \in Seq(Int), IsPrefix(mark, s)
  PROVE  s = mark \o SubSeq(s, Len(mark) + 1, Len(s))
<1> DEFINE k == Len(mark)
           n == Len(s)
           rest == SubSeq(s, k + 1, n)
<1>1. k \in Nat /\ n \in Nat /\ k <= n /\ SubSeq(mark, 1, k) = SubSeq(s, 1, k)
  BY DEF IsPrefix
<1>2. \A i \in 1..k : mark[i] = s[i]
  <2>1. ASSUME NEW i \in 1..k PROVE mark[i] = s[i]
    <3>1. SubSeq(mark, 1, k)[i] = mark[i]
      OBVIOUS
    <3>2. SubSeq(s, 1, k)[i] = s[i]
      BY <1>1
    <3> QED BY <1>1, <3>1, <3>2
  <2> QED BY <2>1
<1>3. rest \in Seq(Int) /\ Len(rest) = n - k
  <2>1. CASE k = n
    BY <1>1, <2>1
  <2>2. CASE k < n
    BY <1>1, <2>2
  <2> HIDE DEF k, n, rest
  <2> QED BY <1>1, <2>1, <2>2
<1>4. \A i \in 1..(n - k) : rest[i] = s[i + k]
  <2>1. ASSUME NEW i \in 1..(n - k) PROVE rest[i] = s[i + k]
    <3>1. i \in 1..((n - (k + 1)) + 1) /\ ((k + 1) + i) - 1 = i + k
      BY <1>1
    <3>2. rest[i] = s[((k + 1) + i) - 1]
      BY <1>1, <3>1
    <3> QED BY <3>1, <3>2
  <2> QED BY <2>1
<1> DEFINE all == mark \o rest
<1>5. all \in Seq(Int) /\ Len(all) = n
  <2>1. all \in Seq(Int) /\ Len(all) = k + Len(rest)
    <3> HIDE DEF rest
    <3> QED BY <1>3
  <2> HIDE DEF all, k, n, rest
  <2> QED BY <1>1, <1>3, <2>1
<1>6. \A i \in 1..n : s[i] = all[i]
  <2>1. ASSUME NEW i \in 1..n, i <= k PROVE s[i] = all[i]
    <3>1. i \in 1..k
      BY <1>1, <2>1
    <3>2. all[i] = mark[i]
      <4> HIDE DEF rest
      <4> QED BY <1>3, <3>1
    <3> QED BY <1>2, <3>1, <3>2
  <2>2. ASSUME NEW i \in 1..n, ~ (i <= k) PROVE s[i] = all[i]
    <3>1. i - k \in 1..(n - k) /\ (i - k) + k = i /\ i \in (k + 1)..(k + (n - k))
      <4> HIDE DEF k, n
      <4> QED BY <1>1, <2>2
    <3>2. all[i] = rest[i - k]
      <4> HIDE DEF rest
      <4> QED BY <1>1, <1>3, <2>2, <3>1
    <3> QED BY <1>4, <3>1, <3>2
  <2> QED BY <2>1, <2>2
<1> HIDE DEF all, n, rest
<1>7. s = all
  BY <1>5, <1>6, SameSeq DEF n
<1> QED BY <1>7 DEF all, rest, n

\* What a body that is not UTF-16 becomes.
LEMMA DecodedBy ==
  ASSUME TextConstantsOK, TextInv, body # <<>>, Encoding \notin {"utf_16le", "utf_16be"},
         NEW rest, rest = SubSeq(body, BomLength(BomOf(body)) + 1, Len(body))
  PROVE  DecodeBody(body, charset) =
           IF Encoding = "replacement" THEN Text("rust", <<Replacement>>)
           ELSE IF Encoding = "x_user_defined" THEN Text("rust", UserDefined(rest))
           ELSE Handed(Decoder(Encoding), rest)
<1>1. Unknown \notin DOMAIN Codepage
  BY DEF TextConstantsOK
<1>2. CASE Encoding \in {"utf_8", Unknown}
  <2>1. DecodeBody(body, charset) = Handed("rust", rest)
    BY <1>2 DEF DecodeBody, Encoding
  <2>2. Decoder(Encoding) = "rust"
    BY <1>2 DEF Decoder, InRust
  <2>3. Encoding # "replacement" /\ Encoding # "x_user_defined"
    <3>1. {"replacement", "x_user_defined"} \subseteq DOMAIN Codepage
      BY DEF Codepage
    <3> QED BY <1>1, <1>2, <3>1
  <2> QED BY <2>1, <2>2, <2>3
<1>3. CASE Encoding \notin {"utf_8", Unknown}
  <2>1. Encoding \in DOMAIN Codepage
    <3>1. charset \in DOMAIN Codepage \union {Unknown}
      BY DEF TextInv, Charsets
    <3> QED BY <1>3, <3>1, Marks DEF Encoding
  <2>2. DecodeBody(body, charset) = ByCodepage(Codepage[Encoding], rest)
    BY <1>3 DEF DecodeBody, Encoding
  <2>3. Encoding \in DOMAIN Codepage \ SelfDecoded
    BY <1>3, <2>1 DEF SelfDecoded
  <2> QED BY <1>1, <2>2, <2>3, DecoderIs
<1> QED BY <1>2, <1>3

\* And of what: all of it, or what follows the mark of UTF-8.
LEMMA RestOfBody ==
  ASSUME TextConstantsOK, TextInv, Encoding \notin {"utf_16le", "utf_16be"},
         NEW rest, rest = SubSeq(body, BomLength(BomOf(body)) + 1, Len(body))
  PROVE  /\ body = (IF IsPrefix(Marks8, body) THEN Marks8 ELSE <<>>) \o rest
         /\ Encoding # "utf_8" => rest = body
<1>1. body \in Seq(Int)
  BY DEF TextInv
<1>2. CASE BomOf(body) = "utf_8"
  <2>1. IsPrefix(Marks8, body)
    BY <1>2, Marks DEF BomOf, Marks8
  <2>2. BomLength(BomOf(body)) = 3 /\ Marks8 \in Seq(Int) /\ Len(Marks8) = 3
    BY <1>2, Marks DEF BomLength, Marks8
  <2>3. body = Marks8 \o SubSeq(body, Len(Marks8) + 1, Len(body))
    BY <1>1, <2>1, <2>2, MarkAndRest
  <2>4. Encoding = "utf_8"
    BY <1>2, Marks DEF Encoding
  <2>5. body = Marks8 \o rest
    BY <2>2, <2>3
  <2> QED BY <2>1, <2>4, <2>5
<1>3. CASE BomOf(body) # "utf_8"
  <2>1. BomOf(body) = None
    BY <1>3, Marks DEF Encoding
  <2>2. ~ IsPrefix(Marks8, body)
    BY <2>1, Marks DEF BomOf, Marks8
  <2>3. rest = body
    <3>1. BomLength(BomOf(body)) + 1 = 1
      BY <2>1 DEF BomLength
    <3>2. SubSeq(body, 1, Len(body)) = body
      BY <1>1
    <3> QED BY <3>1, <3>2
  <2>4. body = <<>> \o body
    BY <1>1
  <2> QED BY <2>2, <2>3, <2>4
<1> QED BY <1>2, <1>3

LEMMA TextFollows ==
  ASSUME TextConstantsOK, TextInv
  PROVE  DecodedAsDocumented
<1> DEFINE text == DecodeBody(body, charset)
           rest == SubSeq(body, BomLength(BomOf(body)) + 1, Len(body))
<1>1. Decides = Encoding
  BY Marks DEF Decides, Encoding, BomOf, Marks8, Marks16
<1>2. ASSUME NEW order \in Orders, body # <<>>,
             Decides = IF order = "le" THEN "utf_16le" ELSE "utf_16be"
      PROVE  text = Text("rust", ReadAs(order))
  <2>1. Marks16[order] = Mark(order)
    BY DEF Marks16, Mark, Orders
  <2>2. ~ Marked(order, body) <=> BomOf(body) = None
    <3>1. order = "le" \/ order = "be"
      BY DEF Orders
    <3>2. BomOf(body) # None => BomOf(body) = Decides
      BY <1>1 DEF Encoding
    <3> QED BY <1>2, <3>1, <3>2, Marks
  <2>3. text = Text("rust", IF BomOf(body) = None THEN Ended(reader[order])
                            ELSE Tail(Ended(reader[order])))
    BY <1>1, <1>2, TextRead
  <2> QED BY <2>1, <2>2, <2>3 DEF ReadAs, Marked
<1>3. body = <<>> => text = Text("rust", <<>>)
  BY DEF DecodeBody
<1>4. ASSUME body # <<>>, Decides \notin {"utf_16le", "utf_16be"}
      PROVE  /\ Decides = "x_user_defined" => text = Text("rust", PrivateUse)
             /\ Decides = "replacement" => text = Text("rust", <<Replacement>>)
             /\ Decides \notin {"x_user_defined", "replacement"} =>
                  /\ text.by = Decoder(Decides)
                  /\ body = (IF IsPrefix(Marks8, body) THEN Marks8 ELSE <<>>) \o text.bytes
  <2> HIDE DEF text, rest
  <2>1. text = IF Decides = "replacement" THEN Text("rust", <<Replacement>>)
               ELSE IF Decides = "x_user_defined" THEN Text("rust", UserDefined(rest))
               ELSE Handed(Decoder(Decides), rest)
    BY <1>1, <1>4, DecodedBy DEF text, rest
  <2>2. body = (IF IsPrefix(Marks8, body) THEN Marks8 ELSE <<>>) \o rest
        /\ (Decides # "utf_8" => rest = body)
    BY <1>1, <1>4, RestOfBody DEF rest
  <2>3. UserDefined(body) = PrivateUse
    <3>1. \A i \in DOMAIN body : 63232 + body[i] = 63360 + (body[i] - 128)
      <4>1. \A d \in Int : 63232 + d = 63360 + (d - 128)
        OBVIOUS
      <4> QED BY <4>1 DEF TextInv
    <3> QED BY <3>1 DEF UserDefined, PrivateUse
  <2>4. Decides = "x_user_defined" => text = Text("rust", PrivateUse)
    BY <2>1, <2>2, <2>3
  <2>5. Decides = "replacement" => text = Text("rust", <<Replacement>>)
    BY <2>1
  <2>6. ASSUME Decides \notin {"x_user_defined", "replacement"}
        PROVE  text.by = Decoder(Decides) /\ text.bytes = rest
    <3>1. text = Handed(Decoder(Decides), rest)
      BY <2>1, <2>6
    <3> QED BY <3>1 DEF Handed
  <2> QED BY <2>2, <2>4, <2>5, <2>6
<1>5. "le" \in Orders /\ "be" \in Orders /\ "be" # "le"
  BY DEF Orders
<1> QED BY <1>2, <1>3, <1>4, <1>5 DEF DecodedAsDocumented

=============================================================================
