----------------------------- MODULE SystemText -----------------------------
(* Conversions done by Windows (abi/mod.rs, abi/encoding.rs, abi/idna.rs): *)
(* the two tables of icu.dll, each resolved once for all threads, the      *)
(* converters opened through them, and the buffers that are filled.        *)
(* Definitions named Bug... are faulty variants of the ones that follow.   *)
EXTENDS Integers, FiniteSets

CONSTANTS
  Threads,   \* threads that convert, each of them once
  MaxI32,    \* i32::MAX
  MaxUnits,  \* bound on the code units, or bytes, an input becomes
  None       \* Option::None

Answers ==
  [kind : {"text", "nls text", "error", "unavailable"},
   units : 0..MaxUnits, whole : 0..MaxUnits]

\* What the constants have to be.
ConstantsOK == MaxI32 \in Nat \ {0} /\ MaxUnits \in Nat /\ None \notin Answers

VARIABLES
  dll,     \* icu.dll: [present, exports, refs], the references to it
  table,   \* OnceLock of each table: unset, busy, none or some
  pc,      \* where each thread is
  job,     \* what it converts: [call, size, needed]
  open,    \* the threads with a converter open
  opened,  \* history: how opening went
  answer   \* what each call returned: [kind, units, whole]

vars == <<dll, table, pc, job, open, opened, answer>>

Tables == {"ucnv", "uidna"}

\* icu_decode, icu_decode_if_available with multi_byte_to_string to fall back
\* on, and idna_to_ascii.
Calls == {"required", "preferred", "idna"}
TableOf(t) == IF job[t].call = "idna" THEN "uidna" ELSE "ucnv"

Goes(t, place) == pc' = [pc EXCEPT ![t] = place]

\* The call returns, and its guards close what it opened.
Returns(t, kind, units) ==
  /\ Goes(t, "returned")
  /\ answer' = [answer EXCEPT ![t] = [kind |-> kind, units |-> units, whole |-> job'[t].needed]]
  /\ open' = open \ {t}

-----------------------------------------------------------------------------

Init ==
  /\ dll \in [present : BOOLEAN, exports : SUBSET Tables, refs : {0}]
  /\ table = [x \in Tables |-> "unset"]
  /\ pc = [t \in Threads |-> "start"]
  /\ job = [t \in Threads |-> [call |-> "idna", size |-> 0, needed |-> 0]]
  /\ open = {}
  /\ opened = [t \in Threads |-> None]
  /\ answer = [t \in Threads |-> None]

\* An empty text is empty in any encoding.
Begin(t) ==
  /\ pc[t] = "start"
  /\ \E call \in Calls, size \in {0, 1, MaxI32 - 1, MaxI32, MaxI32 + 1} :
       /\ job' = [job EXCEPT ![t] = [call |-> call, size |-> size, needed |-> 0]]
       /\ IF size = 0 /\ call # "idna" THEN Returns(t, "text", 0)
          ELSE Goes(t, "resolve") /\ UNCHANGED <<open, answer>>
  /\ UNCHANGED <<dll, table, opened>>

\* get_or_init: the first caller resolves, the others wait for it.
GetOrInit(t) ==
  /\ pc[t] = "resolve"
  /\ \/ /\ table[TableOf(t)] = "unset"
        /\ table' = [table EXCEPT ![TableOf(t)] = "busy"]
        /\ Goes(t, "load")
     \/ /\ table[TableOf(t)] \in {"some", "none"}
        /\ Goes(t, IF table[TableOf(t)] = "some" THEN "open" ELSE "without")
        /\ UNCHANGED table
  /\ UNCHANGED <<dll, job, open, opened, answer>>

Resolved(t, some) ==
  /\ table' = [table EXCEPT ![TableOf(t)] = IF some THEN "some" ELSE "none"]
  /\ Goes(t, IF some THEN "open" ELSE "without")

LoadLibrary(t) ==
  /\ pc[t] = "load"
  /\ IF dll.present
       THEN /\ dll' = [dll EXCEPT !.refs = @ + 1]
            /\ Goes(t, "exports")
            /\ UNCHANGED table
       ELSE Resolved(t, FALSE) /\ UNCHANGED dll
  /\ UNCHANGED <<job, open, opened, answer>>

\* The guard frees the library whether or not its exports are all there.
BugResolveExports(t) ==
  /\ pc[t] = "exports"
  /\ Resolved(t, TableOf(t) \in dll.exports)
  /\ dll' = [dll EXCEPT !.refs = @ - 1]
  /\ UNCHANGED <<job, open, opened, answer>>

\* An incomplete table is given up, and with it this reference to the library.
ResolveExports(t) ==
  /\ pc[t] = "exports"
  /\ Resolved(t, TableOf(t) \in dll.exports)
  /\ dll' = [dll EXCEPT !.refs = @ - IF TableOf(t) \in dll.exports THEN 0 ELSE 1]
  /\ UNCHANGED <<job, open, opened, answer>>

\* Without ICU: only a converter that is preferred has another to stand in.
Without(t) ==
  /\ pc[t] = "without"
  /\ UNCHANGED job
  /\ IF job[t].call = "preferred" THEN Goes(t, "nls") /\ UNCHANGED <<open, answer>>
     ELSE Returns(t, IF job[t].call = "idna" THEN "unavailable" ELSE "error", 0)
  /\ UNCHANGED <<dll, table, opened>>

\* A converter whose data is not there is one more way of being without ICU,
\* an error is an error.
FallsBack(t, how) == how = "no data" /\ job[t].call = "preferred"

\* ucnv_open and uidna_openUTS46. A name that is too long is an error before
\* anything is opened.
Open(t) ==
  /\ pc[t] = "open"
  /\ UNCHANGED <<dll, table, job>>
  /\ \/ /\ job[t].call = "idna" /\ job[t].size > MaxI32
        /\ Returns(t, "error", 0)
        /\ UNCHANGED opened
     \/ /\ job[t].call = "idna" => job[t].size <= MaxI32
        /\ \E how \in {"converter", "no data", "refused"} :
             /\ opened' = [opened EXCEPT ![t] = how]
             /\ IF how = "converter"
                  THEN Goes(t, "convert") /\ open' = open \union {t} /\ UNCHANGED answer
                ELSE IF FallsBack(t, how)
                  THEN Goes(t, "nls") /\ UNCHANGED <<open, answer>>
                ELSE Returns(t, "error", 0)

\* ucnv_toUChars: one unit for each byte and one for the NUL are room enough,
\* as far as both counts are an i32. Without room ICU fails.
Decode(t) ==
  /\ pc[t] = "convert" /\ job[t].call # "idna"
  /\ \E units \in 0..MaxUnits, fails \in BOOLEAN :
       /\ job' = [job EXCEPT ![t].needed = units]
       /\ IF fails \/ job[t].size + 1 > MaxI32 \/ units > job[t].size + 1
            THEN Returns(t, "error", 0)
            ELSE Returns(t, "text", units)
  /\ UNCHANGED <<dll, table, opened>>

\* uidna_nameToASCII_UTF8 and MultiByteToWideChar are called twice, first for
\* the size, and either call may fail. ICU does so in the first by its status
\* and by the errors of the name that are not tolerated.
Measure(t) ==
  /\ pc[t] = "nls" \/ (pc[t] = "convert" /\ job[t].call = "idna")
  /\ \E units \in 0..MaxUnits, fails \in BOOLEAN :
       /\ job' = [job EXCEPT ![t].needed = units]
       /\ IF fails \/ (pc[t] = "nls" /\ (units = 0 \/ job[t].size > MaxI32))
            THEN Returns(t, "error", 0)
            ELSE /\ Goes(t, IF pc[t] = "nls" THEN "fill nls" ELSE "fill")
                 /\ UNCHANGED <<open, answer>>
  /\ UNCHANGED <<dll, table, opened>>

Fill(t) ==
  /\ pc[t] \in {"fill", "fill nls"}
  /\ UNCHANGED job
  /\ \/ Returns(t, "error", 0)
     \/ Returns(t, IF pc[t] = "fill" THEN "text" ELSE "nls text", job[t].needed)
  /\ UNCHANGED <<dll, table, opened>>

Convert ==
  \E t \in Threads :
    \/ Begin(t) \/ GetOrInit(t) \/ LoadLibrary(t) \/ ResolveExports(t) \/ Without(t)
    \/ Open(t) \/ Decode(t) \/ Measure(t) \/ Fill(t)

Over == \A t \in Threads : pc[t] = "returned"
Done == Over /\ UNCHANGED vars
Next == Convert \/ Done

Spec == Init /\ [][Next]_vars

-----------------------------------------------------------------------------
(* Properties *)

\* The type invariant of the tables and the calls.
TypeOK ==
  /\ dll \in [present : BOOLEAN, exports : SUBSET Tables, refs : 0..2]
  /\ table \in [Tables -> {"unset", "busy", "none", "some"}]
  /\ pc \in [Threads -> {"start", "resolve", "load", "exports", "without", "open",
                         "convert", "nls", "fill", "fill nls", "returned"}]
  /\ job \in [Threads -> [call : Calls, size : 0..MaxI32 + 1, needed : 0..MaxUnits]]
  /\ open \subseteq Threads
  /\ answer \in [Threads -> Answers \union {None}]
  /\ \A t \in Threads : (answer[t] # None) = (pc[t] = "returned")

\* icu.dll stays loaded as long as a thread may call into it, and is loaded
\* once for each table in use: one table given up does not unload the other's
\* library (load_icu_exports).
LibraryHeld ==
  /\ dll.refs = Cardinality({x \in Tables : table[x] = "some"})
                + Cardinality({t \in Threads : pc[t] = "exports"})
  /\ \A t \in Threads :
       pc[t] \in {"open", "convert", "fill"} \/ t \in open => dll.refs > 0

\* Only an unavailable library, export or converter permits NLS, and a text
\* that needs ICU fails without (icu_decode_if_available, icu_decode); what is
\* returned is whole; no converter stays open.
ConvertedSoundly ==
  \A t \in Threads : pc[t] = "returned" =>
    LET had == table[TableOf(t)] = "some" /\ opened[t] = "converter"
    IN  /\ t \notin open
        /\ answer[t].kind = "nls text" =>
             job[t].call = "preferred" /\ (table["ucnv"] = "none" \/ opened[t] = "no data")
        /\ answer[t].kind = "text" => had \/ job[t].size = 0
        /\ answer[t].kind \in {"text", "nls text"} => answer[t].units = answer[t].whole
        /\ answer[t].kind = "unavailable" => table["uidna"] = "none"

\* Both, as a caller of the conversions relies on them.
SystemTextSound == LibraryHeld /\ ConvertedSoundly
=============================================================================
