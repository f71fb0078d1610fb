---------------------------- MODULE ParityProbe ----------------------------
(* The encoding-parity tool: it plans, from its options, what corpora each *)
(* native route of decode_body is measured on and with which converters,   *)
(* then scores every converter against the WHATWG oracle. Outputs are the  *)
(* numbers 0 (empty) to 2; a seeded stream is any of its first draws.      *)
(* Definitions named Bug... are faulty variants of the ones that follow.   *)
EXTENDS Integers, SequencesExt, FiniteSetsExt

CONSTANTS
  Values,      \* the bytes that stand for 0..255
  Leads,       \* lead bytes of a GB four-byte form: 126
  Digits,      \* its digits: 10
  Default,     \* DEFAULT_FOUR_BYTE_SAMPLES
  Chosen,      \* bound on the labels given as --encoding, and measured
  MaxRows,     \* bound on the rows of a group
  Accepts(_),  \* the oracle decodes these bytes without an error
  BomOf(_),    \* the byte order mark decode_body sees
  Native,      \* the native routes of encoding.rs: [nls, icu]
  None         \* Option::None

VARIABLES
  cli,       \* the options, and the names ICU has installed
  stage,     \* asked, listed, planned, scoring, panicked
  label,     \* the case at hand
  plan,      \* [profile, samples, candidates]
  groups,    \* the corpora to measure: [name, inputs, coverage]
  rows,      \* what the oracle says of each input: [invalid, out]
  scored,    \* the measurements made: their converters
  made,      \* history: [actual, stop] of that one, row by row
  stats      \* the Stats of the measurement being made

probeVars == <<cli, stage, label, plan, groups, rows, scored, made, stats>>

-----------------------------------------------------------------------------
(* corpus.rs: the cases *)

Case(codepage, icu, domain, variants) ==
  [codepage |-> codepage, icu |-> icu, domain |-> domain, variants |-> variants]
Single(codepage, icu) == Case(codepage, icu, "Single", <<>>)

CASES ==
  [iso_8859_10 |-> Single(None, "ISO-8859-10"), iso_8859_14 |-> Single(None, "ISO-8859-14"),
   euc_jp |-> Case(None, "EUC-JP", "EucJp", <<>>),
   iso_8859_3 |-> Single(28593, "ISO-8859-3"), iso_8859_6 |-> Single(28596, "ISO-8859-6"),
   iso_8859_7 |-> Single(28597, "ISO-8859-7"), iso_8859_8 |-> Single(28598, "ISO-8859-8"),
   iso_8859_8_i |-> Single(38598, "ISO-8859-8"), macintosh |-> Single(10000, "macintosh"),
   windows_1253 |-> Single(1253, "windows-1253"), windows_1257 |-> Single(1257, "windows-1257"),
   x_mac_cyrillic |-> Single(10017, "x-mac-cyrillic"),
   gbk |-> Case(936, "gb18030", "Gb", <<"GBK">>),
   gb18030 |-> Case(54936, "gb18030", "Gb", <<"GBK">>),
   big5 |-> Case(950, "Big5-HKSCS", "Big5", <<"Big5", "ibm-950_P110-1999">>),
   euc_kr |-> Case(51949, "windows-949", "EucKr",
     <<"EUC-KR", "ibm-949_P110-1999", "ibm-949_P11A-1999", "ibm-1363_P11B-1998">>),
   ibm866 |-> Single(866, "IBM866"), iso_8859_2 |-> Single(28592, "ISO-8859-2"),
   iso_8859_4 |-> Single(28594, "ISO-8859-4"), iso_8859_5 |-> Single(28595, "ISO-8859-5"),
   iso_8859_13 |-> Single(28603, "ISO-8859-13"), iso_8859_15 |-> Single(28605, "ISO-8859-15"),
   koi8_r |-> Single(20866, "KOI8-R"), koi8_u |-> Single(21866, "KOI8-U"),
   windows_874 |-> Case(874, "ibm-1162", "Single", <<"windows-874", "iso-8859_11-2001">>),
   windows_1250 |-> Single(1250, "windows-1250"), windows_1251 |-> Single(1251, "windows-1251"),
   windows_1252 |-> Single(1252, "windows-1252"), windows_1254 |-> Single(1254, "windows-1254"),
   windows_1255 |-> Single(1255, "windows-1255"), windows_1256 |-> Single(1256, "windows-1256"),
   windows_1258 |-> Single(1258, "windows-1258"),
   iso_2022_jp |-> Case(50220, "ISO-2022-JP", "Iso2022Jp",
     <<"ISO-2022-JP-1", "ISO-2022-JP-2", "JIS7", "JIS8">>),
   shift_jis |-> Case(932, "Shift_JIS", "ShiftJis", <<"ibm-943">>)]

-----------------------------------------------------------------------------
(* corpus.rs and analysis.rs: the inputs, sets of byte strings *)

\* Every concatenation of one string of each set.
Cross(parts) ==
  FoldLeft(LAMBDA done, part : {d \o p : d \in done, p \in part}, {<<>>}, parts)
Of(bytes) == {<<b>> : b \in bytes}
Within(low, high) == {b \in Values : b \in low..high}
Byte == Of(Values)
Framed(inputs) == Cross(<<{<<81>>}, inputs, {<<90>>}>>)

Group(name, coverage, inputs) == [name |-> name, coverage |-> coverage, inputs |-> inputs]
Exhaustive(name, inputs) == Group(name, "exhaustive", inputs)

Ascii == Of(Within(0, 127))
High == Of(Within(161, 254))

PairLeads(domain) ==
  Of(CASE domain \in {"Gb", "Big5", "EucKr"} -> Within(129, 254)
       [] domain = "EucJp" -> Within(161, 254)
       [] domain = "ShiftJis" -> Within(129, 159) \union Within(224, 252))
PairTrails(domain) ==
  Of(CASE domain = "Gb" -> Within(64, 126) \union Within(128, 254)
       [] domain = "Big5" -> Within(64, 126) \union Within(161, 254)
       [] domain = "EucKr" -> Within(65, 254)
       [] domain = "EucJp" -> Within(161, 254)
       [] domain = "ShiftJis" -> Within(64, 126) \union Within(128, 252))
Pairs(domain) == Cross(<<PairLeads(domain), PairTrails(domain)>>)
\* The leads of the sweeps: SS2 and SS3 are leads too.
AllLeads(domain) ==
  PairLeads(domain) \union IF domain = "EucJp" THEN {<<142>>, <<143>>} ELSE {}

POINTERS == Leads * Digits * Leads * Digits

\* Evenly spaced pointers, the first and the last among them.
FourByteSample(count) ==
  LET Pointer(i) == IF count = 1 THEN 0 ELSE (i * (POINTERS - 1)) \div (count - 1)
      Bytes(p) == <<129 + p \div (Digits * Leads * Digits),
                    48 + ((p \div (Leads * Digits)) % Digits),
                    129 + ((p \div Digits) % Leads), 48 + (p % Digits)>>
  IN  {Bytes(Pointer(i)) : i \in 0..(count - 1)}

\* Escapes of ISO-2022-JP: ASCII, Roman, Katakana, the JIS0208s, JIS0212.
EscB == <<27, 40, 66>>
EscJ == <<27, 40, 74>>
EscI == <<27, 40, 73>>
Kanji == {<<27, 36, 66>>, <<27, 36, 64>>}
Jis0212 == <<27, 36, 40, 68>>

\* A seeded stream: Q, at most `draws` of the units, and the suffix.
Streams(prefixes, units, draws, suffixes) ==
  UNION {Cross(<<prefixes>> \o [i \in 1..n |-> units] \o <<suffixes>>) : n \in 1..draws}

\* SS3 tails with a byte that is none of JIS0212's.
Ss3Other == Cross(<<{<<143>>}, Byte, Byte>>) \ Cross(<<{<<143>>}, High, High>>)

\* Groups that differ in an escape only are one.
Iso2022Expanded ==
  LET modes == {EscB, EscJ, EscI, Jis0212}
      printable == Of(Within(33, 126))
  IN  <<Exhaustive("JIS0208", Cross(<<Kanji, printable, printable, {EscB}>>)),
        Exhaustive("single modes", Cross(<<modes, Byte, {EscB}>>)),
        Exhaustive("truncated kanji", Cross(<<{<<27, 36, 66>>}, Byte>>)),
        Exhaustive("kanji trails", Cross(<<{<<27, 36, 66>>}, printable, Byte, {EscB}>>)),
        Exhaustive("escape prefix",
          Cross(<<{<<81>>}, {<<27>>, <<27, 36>>, <<27, 36, 40>>, <<27, 40>>, <<27, 36, 88>>,
                             EscB, EscJ, EscI, Jis0212} \union Kanji>>)
          \union Cross(<<{<<81, 27, 36, 66, 36, 34>>}, {<<>>, EscB}>>)),
        Group("mixed", "seeded",
          Streams({<<81>>}, Of({27, 36, 40, 41, 64, 66, 73, 74, 92, 126, 128, 161, 254, 255, 10, 13}), 2, {<<>>}))>>

Iso2022Transition ==
  LET printable == Of(Within(33, 126))
      units == {<<65>>} \union
        {u \in Cross(<<{EscB, EscJ, EscI}, Byte, {EscB}>>)
               \union Cross(<<Kanji, printable, printable, {EscB}>>) : Accepts(u)}
  IN  <<Exhaustive("escape prefix grid", Framed(Cross(<<{<<27>>}, Byte, Byte>>))),
        Group("mode transitions", "seeded", Streams({<<81>>}, units, 1, {<<90>>, <<65, 90>>}))>>

Windows874Expanded ==
  <<Exhaustive("ASCII-prefixed pairs", Cross(<<{<<81>>}, Byte, Byte>>)),
    Group("ASCII-prefixed mixed", "seeded", Streams({<<81>>}, Byte, 2, {<<>>}))>>

CjkExpanded(domain) ==
  LET eucJp == domain = "EucJp"
      units == Byte \union Pairs(domain)
        \union (IF eucJp THEN Cross(<<{<<142>>}, Byte>>)
                                \union Cross(<<{<<143>>}, High, High>>) ELSE {})
        \union (IF domain = "Gb" THEN FourByteSample(Default) ELSE {})
  IN  IF domain = "Iso2022Jp" THEN Iso2022Transition
      ELSE (IF eucJp
            THEN <<Exhaustive("SS2", Cross(<<{<<142>>}, Byte>>)),
                   Exhaustive("SS3", Cross(<<{<<143>>}, High, High>>)),
                   Exhaustive("SS3 other", Ss3Other),
                   Exhaustive("SS3 ASCII trails", Framed(Cross(<<{<<143>>}, High, Ascii>>)))>>
            ELSE <<>>)
        \o (IF domain = "Gb"
            THEN <<Exhaustive("interrupted prefixes", Framed(Cross(<<{<<129, 48>>}, Byte, Byte>>)))>>
            ELSE <<>>)
        \o <<Exhaustive("lead+ASCII", Framed(Cross(<<AllLeads(domain), Ascii>>))),
             Group("valid mixed streams", "seeded",
               Streams({<<81>>}, {u \in units : Accepts(u)}, 1, {<<90>>}))>>

\* groups(): what a case is measured on even when only screening.
Groups(l, count, screening) ==
  LET domain == CASES[l].domain
      cjk == domain \in {"Gb", "Big5", "EucKr", "EucJp", "ShiftJis"}
      If(condition, more) == IF condition THEN more ELSE <<>>
  IN  IF domain = "Iso2022Jp" /\ ~screening THEN Iso2022Expanded \o CjkExpanded(domain)
      ELSE <<Exhaustive("singletons", Byte)>>
        \o If(l = "windows_874" /\ ~screening, Windows874Expanded)
        \o If(cjk, <<Exhaustive("pairs", Pairs(domain))>>)
        \o If(domain = "Gb" /\ count # 0,
             <<Group("four-byte sample",
                     IF count = POINTERS THEN "exhaustive" ELSE "deterministic",
                     FourByteSample(count))>>)
        \o If(domain = "Iso2022Jp",
             <<Group("escape samples", "curated",
                 {<<27, 36, 66, 36, 34>> \o EscB, Jis0212 \o <<36, 34>> \o EscB,
                  <<27, 36, 40>>, <<27, 36, 88>>, <<27, 36, 66, 36>>})>>)
        \o If(~screening /\ domain # "Single", CjkExpanded(domain))

EdgeBytes ==
  Values \intersect {0, 27, 32, 36, 40, 41, 48, 57, 64, 65, 92, 126, 127, 128, 129, 130, 142,
                     143, 159, 160, 161, 193, 224, 254, 255}

\* The streams may begin with any byte, a quarter of them being drawn from all.
RandomStreams ==
  Group("mixed streams", "seeded", Streams({<<>>, <<81>>}, Byte, 2, {<<>>, <<90>>}))

SingleByteGroups ==
  LET two == Cross(<<Byte, Byte>>)
  IN  <<Exhaustive("raw pairs", two), Exhaustive("framed pairs", Framed(two)), RandomStreams,
        Exhaustive("framed singletons", Framed(Byte))>>

\* Complete and unfinished sequences, chosen by hand.
Unfinished(domain) ==
  CASE domain = "Gb" -> {<<129, 48>>, <<129, 48, 129>>, <<129, 48, 129, 48>>,
                         <<132, 49, 164, 55>>, <<254, 57, 254, 57>>, <<128>>, <<163, 160>>}
    [] domain = "EucJp" -> {<<142>>, <<142, 161>>, <<143>>, <<143, 161>>, <<143, 161, 161>>,
                            <<143, 254, 254>>}
    [] domain = "EucKr" -> {<<129, 65>>, <<129, 91>>}
    [] domain = "ShiftJis" -> {<<130, 34>>, <<130, 160>>}
    \* The pairs of Big5 that are two scalars.
    [] domain = "Big5" -> {<<136, 98>>, <<136, 100>>, <<136, 163>>, <<136, 165>>}

\* Edges, the first four mapped and unmapped pairs, the last one, and these.
VariableUnits(domain) ==
  LET Rank(p) == 256 * p[1] + p[2]
      pairs == Pairs(domain)
      mapped == {p \in pairs : Accepts(p)}
      First(set) == {p \in set : Cardinality({q \in set : Rank(q) < Rank(p)}) < 4}
  IN  Of(EdgeBytes) \union First(mapped) \union First(pairs \ mapped)
        \union {p \in pairs : \A q \in pairs : Rank(q) <= Rank(p)} \union Unfinished(domain)

VariableGroups(domain) ==
  LET sweep == Cross(<<AllLeads(domain), Byte>>)
      units == VariableUnits(domain)
      ordered == Cross(<<units, units>>)
      fourth == Of({0, 47, 48, 57, 58, 64, 127, 128, 254, 255})
  IN  <<Exhaustive("all lead+byte", sweep), Exhaustive("framed lead+byte", Framed(sweep)),
        Exhaustive("ordered units", ordered), Exhaustive("framed units", Framed(ordered)),
        RandomStreams>>
      \o IF domain = "Gb"
         THEN <<Exhaustive("four-byte boundaries",
                  Framed(Cross(<<Of({129, 132, 159, 254}), Of({48, 53, 57}), Byte, fourth>>)))>>
         ELSE <<>>

Iso2022Groups ==
  LET modes == {<<>>, EscB, EscJ, EscI} \union Kanji
      pending == {<<>>, <<27>>, <<27, 40>>, <<27, 36>>, <<27, 36, 40>>, <<33>>, <<126>>,
                  <<27, 36, 66, 33>>, <<27, 36, 64, 126>>}
      atEof == Cross(<<{<<81>>}, modes, pending, Byte>>)
  IN  <<Exhaustive("mode/pending/byte", atEof),
        Exhaustive("mode/pending/byte then ASCII", Cross(<<atEof, {<<90>>}>>)),
        Exhaustive("designation changes",
          Cross(<<{<<>>, <<81>>}, modes, {<<33, 65>>}, modes,
                  Of({0, 27, 32, 33, 92, 126, 127, 128, 255}), {EscB \o <<90>>}>>)),
        RandomStreams,
        Exhaustive("initial escapes",
          Cross(<<{<<27>>, <<27, 40>>, <<27, 36>>, <<27, 36, 40>>}, Byte \union {<<>>}>>))>>

Marks == {<<239, 187, 191>>, <<255, 254>>, <<254, 255>>}

ComprehensiveGroups(domain) ==
  (IF domain = "Single" THEN SingleByteGroups
   ELSE IF domain = "Iso2022Jp" THEN Iso2022Groups ELSE VariableGroups(domain))
  \o <<Group("midstream signatures", "curated", Framed(Marks))>>

\* Only the first two marks are left out.
BugExcludeInitialBoms(all) ==
  [i \in DOMAIN all |-> [all[i] EXCEPT !.inputs = {d \in @ : BomOf(d) \notin {"utf_16le"}}]]

ExcludeInitialBoms(all) ==
  [i \in DOMAIN all |->
     [all[i] EXCEPT !.inputs = {d \in @ : ~\E mark \in Marks : IsPrefix(mark, d)}]]

-----------------------------------------------------------------------------
(* main.rs: options and plan *)

\* Options clap lets through: what an option requires or conflicts with.
Legal(o) ==
  /\ o.encoding = None => o.icuName = <<>> /\ ~o.allIcu /\ o.hex = <<>>
  /\ o.allIcu => ~o.survey
  /\ o.survey => o.icuName = <<>> /\ o.hex = <<>> /\ ~o.list
  /\ o.hex # <<>> => o.samples = None

ProbeInit ==
  /\ cli \in {o \in [encoding : Chosen \union {None}, icuName : {<<>>, <<"GBK", "x">>},
                     allIcu : BOOLEAN, survey : BOOLEAN, list : BOOLEAN,
                     samples : {None, 0, 1, Default, POINTERS}, examples : {0, 1},
                     hex : {<<>>, <<<<255, 254>>, <<1>>>>},
                     installed : {<<"gb18030", "x", "GBK">>}] : Legal(o)}
  /\ stage = "asked"
  /\ label = None /\ plan = None /\ groups = <<>> /\ rows = <<>>
  /\ scored = <<>> /\ made = <<>> /\ stats = None

\* --list-icu or --list-aliases: nothing is measured.
List ==
  /\ stage = "asked" /\ cli.list
  /\ stage' = "listed"
  /\ UNCHANGED <<cli, label, plan, groups, rows, scored, made, stats>>

Screening == cli.allIcu \/ cli.survey

Samples ==
  IF cli.hex # <<>> THEN 0
  ELSE IF cli.samples # None THEN cli.samples
  ELSE IF cli.survey THEN 0
  ELSE IF cli.allIcu THEN Default ELSE POINTERS

\* The route's converter, then the others as they come, each once.
Candidates(l) ==
  FoldLeft(LAMBDA unique, name : IF Contains(unique, name) THEN unique ELSE Append(unique, name),
           <<>>,
           <<CASES[l].icu>> \o (IF Screening THEN <<>> ELSE CASES[l].variants) \o cli.icuName
             \o (IF Screening THEN cli.installed ELSE <<>>))

PlanCase(l) ==
  /\ stage = "asked" /\ ~cli.list
  /\ cli.encoding \in {None, l}
  /\ stage' = "planned" /\ label' = l
  /\ plan' = [profile |-> IF cli.hex # <<>> THEN "replay"
                          ELSE IF Screening THEN "installed-survey" ELSE "comprehensive",
              samples |-> Samples, candidates |-> Candidates(l)]
  /\ groups' =
       IF cli.hex # <<>> THEN <<Group("replay", "curated", ToSet(cli.hex))>>
       ELSE ExcludeInitialBoms(Groups(l, Samples, Screening)
              \o IF Screening THEN <<>> ELSE ComprehensiveGroups(CASES[l].domain))
  /\ UNCHANGED <<cli, rows, scored, made, stats>>

-----------------------------------------------------------------------------
(* measure(), nls.rs, icu.rs, score.rs *)

Tally == [total |-> 0, matches |-> 0, failures |-> 0, examples |-> 0]
NewStats(stop) == [tally |-> [invalid \in BOOLEAN |-> Tally], stop |-> stop]

\* An empty output and none at all are told apart.
Add(s, row, actual) ==
  LET count(condition) == IF condition THEN 1 ELSE 0
      room == s.tally[row.invalid].examples < cli.examples
  IN  [s EXCEPT !.tally[row.invalid] =
         [total |-> @.total + 1, matches |-> @.matches + count(actual = row.out),
          failures |-> @.failures + count(actual = None),
          examples |-> @.examples + count(actual # row.out /\ room)]]

\* A wrong output is tried again with the STOP callback.
ClassifyIcuMismatch(s, reported) ==
  IF reported THEN [s EXCEPT !.stop.reported = @ + 1] ELSE [s EXCEPT !.stop.accepted = @ + 1]

\* The rows as they are scored, by their numbers.
RowNumbers == [i \in DOMAIN rows |-> i]

\* Bound: what is measured does not depend on the four-byte samples.
Explored == label \in Chosen /\ cli.samples = None

\* One group's inputs, and what the oracle says of them.
TakeGroup ==
  /\ stage = "planned" /\ Explored
  /\ stage' = "scoring"
  /\ groups' = <<>>
  /\ rows' \in UNION {[1..n -> [invalid : BOOLEAN, out : 0..1]] : n \in 0..MaxRows}
  /\ UNCHANGED <<cli, label, plan, scored, made, stats>>

\* The codepage is measured first if there is one, then the candidates in turn.
Converters ==
  (IF CASES[label].codepage = None THEN <<>> ELSE <<"NLS">>) \o plan.candidates
Idle == stage = "scoring" /\ stats = None
Turn == Idle /\ scored # Converters
Candidate == Converters[Len(scored) + 1]

\* score_nls: no length is no output, whatever the error.
ScoreNls ==
  /\ Turn /\ Candidate = "NLS"
  /\ \E actual \in [DOMAIN rows -> {None, 1, 2}] :
       /\ made' = [i \in DOMAIN rows |-> [actual |-> actual[i], stop |-> None]]
       /\ stats' = FoldLeft(LAMBDA s, i : Add(s, rows[i], actual[i]), NewStats(None), RowNumbers)
  /\ UNCHANGED <<cli, stage, label, plan, groups, rows, scored>>

\* What ICU and its STOP twin make of a row.
Outcomes(row) ==
  [actual : {None, row.out}, stop : {None}]
  \union [actual : (0..2) \ {row.out}, stop : {"error", "accepted"}]

ScoreIcu ==
  /\ Turn /\ Candidate # "NLS"
  /\ \E outcome \in [DOMAIN rows -> UNION {Outcomes(rows[i]) : i \in DOMAIN rows}] :
       /\ \A i \in DOMAIN rows : outcome[i] \in Outcomes(rows[i])
       /\ made' = outcome
       /\ stats' = FoldLeft(
            LAMBDA s, i :
              LET actual == outcome[i].actual
                  wrong == actual # None /\ actual # rows[i].out
                  tried == IF wrong THEN ClassifyIcuMismatch(s, outcome[i].stop = "error") ELSE s
              IN  Add(tried, rows[i], actual),
            NewStats([reported |-> 0, accepted |-> 0]), RowNumbers)
  /\ UNCHANGED <<cli, stage, label, plan, groups, rows, scored>>

\* measurements.push
Push ==
  /\ stage = "scoring" /\ stats # None
  /\ scored' = Append(scored, Candidate)
  /\ made' = <<>> /\ stats' = None
  /\ UNCHANGED <<cli, stage, label, plan, groups, rows>>

\* Without its table a variant goes unscored; the route's own must be there.
Unavailable ==
  /\ Turn /\ Candidate # "NLS"
  /\ IF Candidate = CASES[label].icu
       THEN stage' = "panicked" /\ UNCHANGED scored
       ELSE scored' = Append(scored, Candidate) /\ UNCHANGED stage
  /\ UNCHANGED <<cli, label, plan, groups, rows, made, stats>>

ProbeNext ==
  \/ List
  \/ \E l \in DOMAIN CASES : PlanCase(l)
  \/ TakeGroup \/ ScoreNls \/ ScoreIcu \/ Push \/ Unavailable

ProbeOver ==
  \/ stage \in {"listed", "panicked"}
  \/ stage = "planned" /\ ~Explored
  \/ Idle /\ scored = Converters
ProbeDone == ProbeOver /\ UNCHANGED probeVars

-----------------------------------------------------------------------------
(* Properties *)

ProbeTypeOK ==
  /\ stage \in {"asked", "listed", "planned", "scoring", "panicked"}
  /\ label \in DOMAIN CASES \union {None}
  /\ \A i \in DOMAIN groups :
       groups[i].coverage \in {"exhaustive", "seeded", "deterministic", "curated"}
  /\ Len(rows) <= MaxRows
  /\ stats # None => \A invalid \in BOOLEAN : stats.tally[invalid] \in [DOMAIN Tally -> Nat]

Named(name) == UNION {groups[i].inputs : i \in {j \in DOMAIN groups : groups[j].name = name}}

\* What is measured is a route of decode_body, by its converters, each once
\* (CASES says it is the routes of encoding.rs and their chosen tables).
RoutesMeasured ==
  /\ cli.encoding = None => DOMAIN CASES = DOMAIN Native
  /\ CASES[label].codepage = Native[label].nls
  /\ Native[label].icu \in {None, CASES[label].icu}
  /\ IsInjective(plan.candidates) /\ Head(plan.candidates) = CASES[label].icu
  /\ ToSet(cli.icuName) \subseteq ToSet(plan.candidates)

\* A built-in input reaches the declared charset's decoder, for no mark begins
\* it, and the marks are measured inside inputs; a replay takes what it is given.
\* Screening draws nothing; four-byte samples are as many as asked, and end with
\* the last pointer; the sweeps leave out no pair, the SS3 groups no tail.
CorpusWhole ==
  LET inputs == UNION {groups[i].inputs : i \in DOMAIN groups}
      domain == CASES[label].domain
      sample == Named("four-byte sample")
      last == <<128 + Leads, 47 + Digits, 128 + Leads, 47 + Digits>>
  IN  IF plan.profile = "replay" THEN inputs = ToSet(cli.hex)
      ELSE /\ \A d \in inputs : BomOf(d) = None
           /\ domain = "Gb" => /\ Cardinality(sample) = plan.samples
                               /\ plan.samples > 1 => last \in sample
           /\ IF plan.profile = "installed-survey"
                THEN \A i \in DOMAIN groups : groups[i].coverage # "seeded"
                ELSE /\ Framed(Marks) \subseteq inputs
                     /\ domain \notin {"Single", "Iso2022Jp"} =>
                          Named("pairs") \subseteq Named("all lead+byte")
                     /\ domain = "EucJp" =>
                          /\ Named("SS3") \intersect Named("SS3 other") = {}
                          /\ Named("SS3") \union Named("SS3 other")
                               = Cross(<<{<<143>>}, Byte, Byte>>)

\* Each row is counted once, as a match, a failure or a wrong output; wrong
\* outputs of ICU, and only they, are split by STOP; a failure is no match, even
\* of an empty text (README of the tool, "Reading a score").
ScoreExact ==
  LET Where(invalid, Test(_)) == {i \in DOMAIN rows : rows[i].invalid = invalid /\ Test(i)}
      Wrong(i) == made[i].actual \notin {None, rows[i].out}
      Right(i) == made[i].actual # None /\ made[i].actual = rows[i].out
      Failed(i) == made[i].actual = None
  IN  /\ \A invalid \in BOOLEAN :
           LET t == stats.tally[invalid]
               Count(Test(_)) == Cardinality(Where(invalid, Test))
           IN  /\ t.matches = Count(Right) /\ t.failures = Count(Failed)
               /\ t.total = t.matches + t.failures + Count(Wrong)
               /\ t.examples <= cli.examples
               /\ t.examples < t.total - t.matches => t.examples = cli.examples
      /\ stats.stop # None =>
           /\ stats.stop.reported = Cardinality({i \in DOMAIN rows : made[i].stop = "error"})
           /\ stats.stop.reported + stats.stop.accepted = Cardinality({i \in DOMAIN rows : Wrong(i)})

\* What is planned is sound, and what is scored exact (run, measure).
ProbeSound ==
  /\ stage = "planned" => RoutesMeasured /\ CorpusWhole
  /\ stats # None => ScoreExact

=============================================================================
