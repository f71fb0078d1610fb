-------------------------- MODULE SystemText_proofs --------------------------
(* Proofs about SystemText, for any set of threads.  What keeps the library   *)
(* loaded: a table that is being resolved is busy and has one resolver, a     *)
(* thread that calls into ICU found its table resolved, and each reference    *)
(* belongs to a table in use or to the one thread that resolves another.      *)
EXTENDS SystemText, FiniteSetTheorems, TLAPS

InUse == {x \in Tables : table[x] = "some"}
Exporting == {t \in Threads : pc[t] = "exports"}
Resolving == {t \in Threads : pc[t] \in {"load", "exports"}}

\* TypeOK but for the bound on the references, which takes the others, and what
\* the constants are.
Types ==
  /\ ConstantsOK
  /\ dll \in [present : BOOLEAN, exports : SUBSET Tables, refs : Int]
  /\ table \in [Tables -> {"unset", "busy", "none", "some"}]
  /\ pc \in [Threads -> {"start", "resolve", "load", "exports", "without", "open",
                         "convert", "nls", "fill", "fill nls", "returned"}]
  /\ job \in [Threads -> [call : Calls, size : 0..MaxI32 + 1, needed : 0..MaxUnits]]
  /\ open \subseteq Threads
  /\ opened \in [Threads -> {"converter", "no data", "refused", None}]
  /\ answer \in [Threads -> Answers \union {None}]
  /\ \A t \in Threads : (answer[t] # None) = (pc[t] = "returned")

\* The OnceLock of a table: busy while someone resolves it, one thread at most.
OneResolver ==
  /\ \A t \in Resolving : table[TableOf(t)] = "busy"
  /\ \A s, t \in Resolving : TableOf(s) = TableOf(t) => s = t

\* What each place says of the table and of the converter.
Placed(t) ==
  /\ pc[t] \in {"open", "convert", "fill"} => table[TableOf(t)] = "some"
  /\ pc[t] \in {"convert", "fill"} => opened[t] = "converter"
  /\ pc[t] = "fill" => job[t].call = "idna"
  /\ pc[t] = "without" => table[TableOf(t)] = "none"
  /\ pc[t] \in {"nls", "fill nls"} =>
       job[t].call = "preferred" /\ (table["ucnv"] = "none" \/ opened[t] = "no data")
  /\ t \in open => pc[t] \in {"convert", "fill"}

Places == \A t \in Threads : Placed(t)

\* Each reference to the library has its owner.
Counted ==
  /\ IsFiniteSet(Exporting)
  /\ dll.refs = Cardinality(InUse) + Cardinality(Exporting)

\* ConvertedSoundly, of one thread.
Sound(t) ==
  pc[t] = "returned" =>
    /\ t \notin open
    /\ answer[t].kind = "nls text" =>
         job[t].call = "preferred" /\ (table["ucnv"] = "none" \/ opened[t] = "no data")
    /\ answer[t].kind = "text" =>
         (table[TableOf(t)] = "some" /\ opened[t] = "converter") \/ job[t].size = 0
    /\ answer[t].kind \in {"text", "nls text"} => answer[t].units = answer[t].whole
    /\ answer[t].kind = "unavailable" => table["uidna"] = "none"

IInv == Types /\ OneResolver /\ Places /\ Counted /\ ConvertedSoundly

-----------------------------------------------------------------------------
(* The references.                                                           *)

LEMMA TablesFinite == IsFiniteSet(Tables) /\ Cardinality(Tables) = 2
<1>1. IsFiniteSet({}) /\ Cardinality({}) = 0
  BY FS_EmptySet
<1>2. IsFiniteSet({"ucnv"}) /\ Cardinality({"ucnv"}) = 1
  BY FS_Singleton
<1>3. Tables = {"ucnv"} \union {"uidna"}
  BY DEF Tables
<1> QED BY <1>2, <1>3, FS_AddElement

LEMMA InUseFinite == IsFiniteSet(InUse) /\ Cardinality(InUse) \in Nat
BY TablesFinite, FS_Subset, FS_CardinalityType DEF InUse

\* A thread that resolves a table has it to itself, and its table is not yet
\* in use: there are no more references than tables.
LEMMA NoMoreThanTables ==
  ASSUME Types, OneResolver, Counted
  PROVE  dll.refs \in 0..2
<1> DEFINE f == [t \in Exporting |-> TableOf(t)]
<1>1. IsFiniteSet(Tables \ InUse) /\ Cardinality(Tables \ InUse) = 2 - Cardinality(InUse)
  <2>1. Tables \cap InUse = InUse
    BY DEF InUse
  <2> QED BY <2>1, TablesFinite, FS_Difference
<1>2. f \in Injection(Exporting, Tables \ InUse)
  <2>1. \A t \in Exporting : TableOf(t) \in Tables \ InUse
    BY DEF Exporting, Resolving, OneResolver, TableOf, Tables, InUse
  <2>2. \A s, t \in Exporting : TableOf(s) = TableOf(t) => s = t
    BY DEF Exporting, Resolving, OneResolver
  <2> QED BY <2>1, <2>2 DEF Injection, IsInjective
<1>3. Cardinality(Exporting) <= 2 - Cardinality(InUse)
  BY <1>1, <1>2, FS_Injection
<1>4. Cardinality(Exporting) \in Nat /\ Cardinality(InUse) \in Nat
  BY InUseFinite, FS_CardinalityType DEF Counted
<1> QED BY <1>3, <1>4 DEF Counted

\* A table in use holds a reference.
LEMMA InUseHolds ==
  ASSUME Counted, NEW x \in Tables, table[x] = "some"
  PROVE  dll.refs > 0
<1>1. Cardinality(InUse) # 0
  BY InUseFinite, FS_EmptySet DEF InUse
<1>2. Cardinality(Exporting) \in Nat
  BY FS_CardinalityType DEF Counted
<1> QED BY <1>1, <1>2, InUseFinite DEF Counted

LEMMA IInvImplies == IInv => TypeOK /\ LibraryHeld /\ ConvertedSoundly
<1> SUFFICES ASSUME IInv PROVE TypeOK /\ LibraryHeld
  BY DEF IInv
<1>1. TypeOK
  BY NoMoreThanTables DEF IInv, Types, TypeOK
<1>2. ASSUME NEW t \in Threads, pc[t] \in {"open", "convert", "fill"} \/ t \in open
      PROVE  dll.refs > 0
  <2>1. table[TableOf(t)] = "some" /\ TableOf(t) \in Tables
    BY <1>2 DEF IInv, Places, Placed, TableOf, Tables
  <2> QED BY <2>1, InUseHolds DEF IInv
<1> QED BY <1>1, <1>2 DEF IInv, Counted, LibraryHeld, InUse, Exporting

-----------------------------------------------------------------------------
(* The steps.                                                                *)

LEMMA InitIInv ==
  ASSUME ConstantsOK, Init
  PROVE  IInv
<1> USE DEF ConstantsOK
<1>1. Types
  BY DEF Init, Types, Calls
<1>2. Exporting = {} /\ InUse = {} /\ Resolving = {}
  BY DEF Init, Exporting, InUse, Resolving
<1>3. Counted
  BY <1>2, FS_EmptySet DEF Init, Counted
<1>4. OneResolver
  BY <1>2 DEF OneResolver
<1>5. Places /\ ConvertedSoundly
  BY DEF Init, Places, Placed, ConvertedSoundly
<1> QED BY <1>1, <1>3, <1>4, <1>5 DEF IInv

LEMMA Bounds ==
  ASSUME Types
  PROVE  0 \in 0..MaxUnits /\ MaxI32 \in Nat \ {0}
<1>1. ConstantsOK
  BY DEF Types
<1> QED BY <1>1 DEF ConstantsOK

LEMMA ReturnsTypes ==
  ASSUME Types, job' \in [Threads -> [call : Calls, size : 0..MaxI32 + 1, needed : 0..MaxUnits]],
         NEW t \in Threads, NEW kind \in {"text", "nls text", "error", "unavailable"},
         NEW units \in 0..MaxUnits, Returns(t, kind, units), 
         pc[t] # "returned",
         UNCHANGED <<dll, table>>,
         opened' \in [Threads -> {"converter", "no data", "refused", None}]
  PROVE  Types'
<1>1. [kind |-> kind, units |-> units, whole |-> job'[t].needed] \in Answers
  BY DEF Answers
<1> QED BY <1>1 DEF Types, Returns, Goes, ConstantsOK

LEMMA GoesTypes ==
  ASSUME Types, NEW t \in Threads, pc[t] # "returned",
         NEW place \in {"resolve", "load", "exports", "without", "open", "convert", "nls",
                        "fill", "fill nls"},
         Goes(t, place),
         dll' \in [present : BOOLEAN, exports : SUBSET Tables, refs : Int],
         table' \in [Tables -> {"unset", "busy", "none", "some"}],
         job' \in [Threads -> [call : Calls, size : 0..MaxI32 + 1, needed : 0..MaxUnits]],
         open' \subseteq Threads,
         opened' \in [Threads -> {"converter", "no data", "refused", None}],
         UNCHANGED answer
  PROVE  Types'
BY DEF Types, Goes

LEMMA RefsTypes ==
  ASSUME NEW d \in [present : BOOLEAN, exports : SUBSET Tables, refs : Int], NEW n \in Int
  PROVE  /\ d.refs \in Int
         /\ [d EXCEPT !.refs = @ + n] \in [present : BOOLEAN, exports : SUBSET Tables, refs : Int]
         /\ [d EXCEPT !.refs = @ - n] \in [present : BOOLEAN, exports : SUBSET Tables, refs : Int]
OBVIOUS

\* A step of one thread, by what it does to the type.
LEMMA TypesKept ==
  ASSUME Types, NEW t \in Threads,
         \/ Begin(t) \/ GetOrInit(t) \/ LoadLibrary(t) \/ ResolveExports(t) \/ Without(t)
         \/ Open(t) \/ Decode(t) \/ Measure(t) \/ Fill(t)
  PROVE  Types'
<1>0. /\ dll \in [present : BOOLEAN, exports : SUBSET Tables, refs : Int]
      /\ table \in [Tables -> {"unset", "busy", "none", "some"}]
      /\ job \in [Threads -> [call : Calls, size : 0..MaxI32 + 1, needed : 0..MaxUnits]]
      /\ open \subseteq Threads
      /\ opened \in [Threads -> {"converter", "no data", "refused", None}]
  BY DEF Types
<1>1. CASE Begin(t)
  <2>1. PICK call \in Calls, size \in {0, 1, MaxI32 - 1, MaxI32, MaxI32 + 1} :
          /\ job' = [job EXCEPT ![t] = [call |-> call, size |-> size, needed |-> 0]]
          /\ IF size = 0 /\ call # "idna" THEN Returns(t, "text", 0)
             ELSE Goes(t, "resolve") /\ UNCHANGED <<open, answer>>
    BY <1>1 DEF Begin
  <2>2. size \in 0..MaxI32 + 1 /\ 0 \in 0..MaxUnits
    BY Bounds
  <2>3. job' \in [Threads -> [call : Calls, size : 0..MaxI32 + 1, needed : 0..MaxUnits]]
    BY <2>1, <2>2, <1>0
  <2>4. UNCHANGED <<dll, table, opened>> /\ pc[t] = "start"
    BY <1>1 DEF Begin
  <2>5. CASE Returns(t, "text", 0)
    BY <2>2, <2>3, <2>4, <2>5, <1>0, ReturnsTypes
  <2>6. CASE Goes(t, "resolve") /\ UNCHANGED <<open, answer>>
    BY <2>3, <2>4, <2>6 DEF Types, Goes
  <2> QED BY <2>1, <2>5, <2>6
<1>2. CASE GetOrInit(t)
  <2>1. table' \in [Tables -> {"unset", "busy", "none", "some"}]
    BY <1>2, <1>0 DEF GetOrInit
  <2>2. \E place \in {"load", "open", "without"} : Goes(t, place)
    BY <1>2 DEF GetOrInit
  <2>3. pc[t] = "resolve" /\ UNCHANGED <<dll, job, open, opened, answer>>
    BY <1>2 DEF GetOrInit
  <2> QED BY <2>1, <2>2, <2>3, <1>0, GoesTypes
<1>3. CASE LoadLibrary(t)
  <2>1. table' \in [Tables -> {"unset", "busy", "none", "some"}]
    BY <1>3, <1>0 DEF LoadLibrary, Resolved
  <2>2. dll' \in [present : BOOLEAN, exports : SUBSET Tables, refs : Int]
    <3>1. dll' = dll \/ dll' = [dll EXCEPT !.refs = @ + 1]
      BY <1>3 DEF LoadLibrary
    <3>2. 1 \in Int
      OBVIOUS
    <3>3. [dll EXCEPT !.refs = @ + 1] \in [present : BOOLEAN, exports : SUBSET Tables, refs : Int]
      BY <1>0, <3>2, RefsTypes, Zenon
    <3> QED BY <3>1, <3>3, <1>0, Zenon
  <2>3. \E place \in {"exports", "without"} : Goes(t, place)
    BY <1>3 DEF LoadLibrary, Resolved
  <2>4. pc[t] = "load" /\ UNCHANGED <<job, open, opened, answer>>
    BY <1>3 DEF LoadLibrary
  <2> QED BY <2>1, <2>2, <2>3, <2>4, <1>0, GoesTypes
<1>4. CASE ResolveExports(t)
  <2>1. table' \in [Tables -> {"unset", "busy", "none", "some"}]
    BY <1>4, <1>0 DEF ResolveExports, Resolved
  <2>2. dll' \in [present : BOOLEAN, exports : SUBSET Tables, refs : Int]
    <3>1. dll' = [dll EXCEPT !.refs = @ - 0] \/ dll' = [dll EXCEPT !.refs = @ - 1]
      BY <1>4 DEF ResolveExports
    <3>2. 0 \in Int /\ 1 \in Int
      OBVIOUS
    <3>3. /\ [dll EXCEPT !.refs = @ - 0] \in [present : BOOLEAN, exports : SUBSET Tables, refs : Int]
          /\ [dll EXCEPT !.refs = @ - 1] \in [present : BOOLEAN, exports : SUBSET Tables, refs : Int]
      BY <1>0, <3>2, RefsTypes, Zenon
    <3> QED BY <3>1, <3>3, Zenon
  <2>3. \E place \in {"open", "without"} : Goes(t, place)
    BY <1>4 DEF ResolveExports, Resolved
  <2>4. pc[t] = "exports" /\ UNCHANGED <<job, open, opened, answer>>
    BY <1>4 DEF ResolveExports
  <2> QED BY <2>1, <2>2, <2>3, <2>4, <1>0, GoesTypes
<1>5. CASE Without(t)
  <2>1. pc[t] = "without" /\ UNCHANGED <<dll, table, opened, job>> /\ 0 \in 0..MaxUnits
    BY <1>5, Bounds DEF Without
  <2>2. \/ Goes(t, "nls") /\ UNCHANGED <<open, answer>>
        \/ \E kind \in {"unavailable", "error"} : Returns(t, kind, 0)
    BY <1>5 DEF Without
  <2>3. CASE Goes(t, "nls") /\ UNCHANGED <<open, answer>>
    BY <2>1, <2>3, <1>0, GoesTypes
  <2>4. ASSUME NEW kind \in {"unavailable", "error"}, Returns(t, kind, 0)
        PROVE  Types'
    BY <2>1, <2>4, <1>0, ReturnsTypes
  <2> QED BY <2>2, <2>3, <2>4
<1>6. CASE Open(t)
  <2>1. pc[t] = "open" /\ UNCHANGED <<dll, table, job>>
    BY <1>6 DEF Open
  <2>4. 0 \in 0..MaxUnits
    BY Bounds
  <2>2. opened' \in [Threads -> {"converter", "no data", "refused", None}]
    BY <1>6, <1>0 DEF Open
  <2>3. \/ Goes(t, "convert") /\ open' = open \union {t} /\ UNCHANGED answer
        \/ Goes(t, "nls") /\ UNCHANGED <<open, answer>>
        \/ Returns(t, "error", 0)
    BY <1>6 DEF Open
  <2> QED BY <2>1, <2>2, <2>3, <2>4, ReturnsTypes, <1>0, GoesTypes
<1>7. ASSUME Decode(t) \/ Measure(t) PROVE Types'
  <2>1. /\ pc[t] \in {"convert", "nls"} /\ UNCHANGED <<dll, table, opened>>
        /\ \E units \in 0..MaxUnits : job' = [job EXCEPT ![t].needed = units]
    BY <1>7 DEF Decode, Measure
  <2>2. \/ Goes(t, "fill nls") /\ UNCHANGED <<open, answer>>
        \/ Goes(t, "fill") /\ UNCHANGED <<open, answer>>
        \/ Returns(t, "error", 0)
        \/ \E units \in 0..MaxUnits : Returns(t, "text", units)
    BY <1>7 DEF Decode, Measure
  <2>3. 0 \in 0..MaxUnits
    BY Bounds
  <2>4. job' \in [Threads -> [call : Calls, size : 0..MaxI32 + 1, needed : 0..MaxUnits]]
    <3>1. PICK units \in 0..MaxUnits : job' = [job EXCEPT ![t].needed = units]
      BY <2>1
    <3>2. job[t] \in [call : Calls, size : 0..MaxI32 + 1, needed : 0..MaxUnits]
      BY <1>0
    <3>3. [job[t] EXCEPT !.needed = units]
             \in [call : Calls, size : 0..MaxI32 + 1, needed : 0..MaxUnits]
      BY <3>2
    <3> QED BY <3>1, <3>3, <1>0
  <2> QED BY <2>1, <2>2, <2>3, <2>4, ReturnsTypes, <1>0, GoesTypes
<1>8. CASE Fill(t)
  <2>1. pc[t] \in {"fill", "fill nls"} /\ UNCHANGED <<dll, table, opened, job>>
    BY <1>8 DEF Fill
  <2>3. 0 \in 0..MaxUnits /\ job[t].needed \in 0..MaxUnits
    <3>1. job[t] \in [call : Calls, size : 0..MaxI32 + 1, needed : 0..MaxUnits]
      BY <1>0
    <3> QED BY <3>1, Bounds
  <2>2. \/ Returns(t, "error", 0)
        \/ \E kind \in {"text", "nls text"} : Returns(t, kind, job[t].needed)
    BY <1>8 DEF Fill
  <2> QED BY <2>1, <2>2, <2>3, <1>0, ReturnsTypes
<1> QED BY <1>1, <1>2, <1>3, <1>4, <1>5, <1>6, <1>7, <1>8

\* A step of t leaves the other threads where they were, and its own call what
\* it was.
LEMMA Frame ==
  ASSUME Types, NEW t \in Threads,
         \/ Begin(t) \/ GetOrInit(t) \/ LoadLibrary(t) \/ ResolveExports(t) \/ Without(t)
         \/ Open(t) \/ Decode(t) \/ Measure(t) \/ Fill(t)
  PROVE  /\ \A s \in Threads \ {t} :
              /\ pc'[s] = pc[s] /\ job'[s] = job[s] /\ TableOf(s)' = TableOf(s)
              /\ opened'[s] = opened[s] /\ answer'[s] = answer[s]
              /\ s \in open' <=> s \in open
         /\ ~Begin(t) => job'[t].call = job[t].call /\ TableOf(t)' = TableOf(t)
<1> USE DEF Types, Goes, Returns, Resolved, TableOf
<1>1. CASE Begin(t)
  BY <1>1 DEF Begin
<1>2. CASE GetOrInit(t)
  BY <1>2 DEF GetOrInit
<1>3. CASE LoadLibrary(t)
  BY <1>3 DEF LoadLibrary
<1>4. CASE ResolveExports(t)
  BY <1>4 DEF ResolveExports
<1>5. CASE Without(t)
  BY <1>5 DEF Without
<1>6. CASE Open(t)
  BY <1>6 DEF Open
<1>7. ASSUME Decode(t) \/ Measure(t)
      PROVE  /\ \A s \in Threads \ {t} :
                  /\ pc'[s] = pc[s] /\ job'[s] = job[s]
                  /\ opened'[s] = opened[s] /\ answer'[s] = answer[s]
                  /\ s \in open' <=> s \in open
             /\ job'[t].call = job[t].call
  <2>1. UNCHANGED opened /\ \E units \in 0..MaxUnits : job' = [job EXCEPT ![t].needed = units]
    BY <1>7 DEF Decode, Measure
  <2>2. \/ Goes(t, "fill nls") /\ UNCHANGED <<open, answer>>
        \/ Goes(t, "fill") /\ UNCHANGED <<open, answer>>
        \/ Returns(t, "error", 0)
        \/ \E units \in 0..MaxUnits : Returns(t, "text", units)
    BY <1>7 DEF Decode, Measure
  <2>3. /\ job'[t].call = job[t].call
        /\ \A s \in Threads \ {t} : job'[s] = job[s]
    <3>1. PICK units \in 0..MaxUnits : job' = [job EXCEPT ![t].needed = units]
      BY <2>1
    <3>2. job \in [Threads -> [call : Calls, size : 0..MaxI32 + 1, needed : 0..MaxUnits]]
      BY DEF Types
    <3> HIDE DEF Types
    <3> QED BY <3>1, <3>2
  <2> QED BY <2>1, <2>2, <2>3
<1>9. CASE Fill(t)
  BY <1>9 DEF Fill
<1> QED BY <1>1, <1>2, <1>3, <1>4, <1>5, <1>6, <1>7, <1>9

\* Where a step of t leads that does not resolve a table.
LEMMA ElsewhereGoes ==
  ASSUME Types, NEW t \in Threads,
         Begin(t) \/ Without(t) \/ Open(t) \/ Decode(t) \/ Measure(t) \/ Fill(t)
  PROVE  /\ UNCHANGED <<dll, table>>
         /\ pc[t] \notin {"load", "exports"} /\ pc'[t] \notin {"load", "exports"}
<1> USE DEF Types, Goes, Returns
<1>1. CASE Begin(t)
  BY <1>1 DEF Begin
<1>2. CASE Without(t)
  BY <1>2 DEF Without
<1>3. CASE Open(t)
  BY <1>3 DEF Open
<1>4. CASE Decode(t)
  BY <1>4 DEF Decode
<1>5. CASE Measure(t)
  BY <1>5 DEF Measure
<1>6. CASE Fill(t)
  BY <1>6 DEF Fill
<1> QED BY <1>1, <1>2, <1>3, <1>4, <1>5, <1>6

LEMMA ResolversKept ==
  ASSUME Types, OneResolver, NEW t \in Threads,
         \/ Begin(t) \/ GetOrInit(t) \/ LoadLibrary(t) \/ ResolveExports(t) \/ Without(t)
         \/ Open(t) \/ Decode(t) \/ Measure(t) \/ Fill(t)
  PROVE  OneResolver'
<1>1. CASE Begin(t) \/ Without(t) \/ Open(t) \/ Decode(t) \/ Measure(t) \/ Fill(t)
  <2>1. Resolving' = Resolving /\ t \notin Resolving /\ UNCHANGED table
    BY <1>1, Frame, ElsewhereGoes DEF Resolving
  <2>2. \A s \in Resolving : TableOf(s)' = TableOf(s)
    BY <1>1, <2>1, Frame DEF Resolving
  <2> QED BY <2>1, <2>2 DEF OneResolver
<1> SUFFICES ASSUME GetOrInit(t) \/ LoadLibrary(t) \/ ResolveExports(t) PROVE OneResolver'
  BY <1>1
<1>2. \A s \in Threads : TableOf(s)' = TableOf(s) /\ TableOf(s) \in Tables
  BY Frame DEF TableOf, Tables, Begin, GetOrInit, LoadLibrary, ResolveExports
<1>3. CASE GetOrInit(t)
  <2>1. CASE table[TableOf(t)] = "unset"
    <3>1. Resolving' = Resolving \union {t} /\ table' = [table EXCEPT ![TableOf(t)] = "busy"]
      <4>1. pc'[t] = "load" /\ table' = [table EXCEPT ![TableOf(t)] = "busy"]
        BY <1>3, <2>1 DEF GetOrInit, Goes, Types
      <4> QED BY <4>1, Frame DEF Resolving
    <3>2. \A s \in Resolving : TableOf(s) # TableOf(t)
      BY <2>1 DEF OneResolver
    <3>3. \A s \in Resolving' : s \in Threads
      BY DEF Resolving
    <3>4. \A s \in Resolving' : table'[TableOf(s)] = "busy"
      BY <1>2, <3>1, <3>2, <3>3 DEF OneResolver, Types
    <3> QED BY <1>2, <3>1, <3>2, <3>3, <3>4 DEF OneResolver
  <2>2. CASE table[TableOf(t)] # "unset"
    <3>1. Resolving' = Resolving /\ table' = table
      BY <1>3, <2>2 DEF GetOrInit, Goes, Resolving, Types
    <3> QED BY <1>2, <3>1 DEF OneResolver, Resolving
  <2> QED BY <2>1, <2>2
<1>4. ASSUME LoadLibrary(t) \/ ResolveExports(t) PROVE OneResolver'
  <2>1. t \in Resolving
    BY <1>4 DEF LoadLibrary, ResolveExports, Resolving
  <2>2. \/ Resolving' = Resolving /\ table' = table
        \/ /\ Resolving' = Resolving \ {t}
           /\ \A x \in Tables \ {TableOf(t)} : table'[x] = table[x]
    BY <1>4 DEF LoadLibrary, ResolveExports, Resolved, Resolving, Types, Goes
  <2>3. \A s \in Resolving \ {t} : TableOf(s) # TableOf(t)
    BY <2>1 DEF OneResolver
  <2>4. \A s \in Resolving : s \in Threads
    BY DEF Resolving
  <2> QED BY <1>2, <2>2, <2>3, <2>4 DEF OneResolver
<1> QED BY <1>3, <1>4

LEMMA CountedKept ==
  ASSUME Types, OneResolver, Counted, NEW t \in Threads,
         \/ Begin(t) \/ GetOrInit(t) \/ LoadLibrary(t) \/ ResolveExports(t) \/ Without(t)
         \/ Open(t) \/ Decode(t) \/ Measure(t) \/ Fill(t)
  PROVE  Counted'
<1>1. CASE Begin(t) \/ Without(t) \/ Open(t) \/ Decode(t) \/ Measure(t) \/ Fill(t)
  <2>1. Exporting' = Exporting /\ InUse' = InUse /\ dll' = dll
    BY <1>1, Frame, ElsewhereGoes DEF Exporting, InUse
  <2> QED BY <2>1 DEF Counted
<1>2. CASE GetOrInit(t)
  <2>1. Exporting' = Exporting /\ InUse' = InUse /\ dll' = dll
    <3>1. pc[t] = "resolve" /\ dll' = dll /\ pc'[t] \in {"load", "open", "without"}
      BY <1>2 DEF GetOrInit, Goes, Types
    <3>2. InUse' = InUse
      BY <1>2 DEF GetOrInit, InUse, Types
    <3> QED BY <3>1, <3>2, Frame DEF Exporting
  <2> QED BY <2>1 DEF Counted
<1>3. CASE LoadLibrary(t)
  <2>1. CASE dll.present
    <3>1. Exporting' = Exporting \union {t} /\ t \notin Exporting
      <4>1. pc[t] = "load" /\ pc'[t] = "exports"
        BY <1>3, <2>1 DEF LoadLibrary, Goes, Types
      <4> QED BY <4>1, Frame DEF Exporting
    <3>2. InUse' = InUse /\ dll'.refs = dll.refs + 1
      BY <1>3, <2>1 DEF LoadLibrary, InUse, Types
    <3>3. IsFiniteSet(Exporting') /\ Cardinality(Exporting') = Cardinality(Exporting) + 1
      BY <3>1, FS_AddElement DEF Counted
    <3>4. Cardinality(Exporting) \in Nat
      BY FS_CardinalityType DEF Counted
    <3> QED BY <3>2, <3>3, <3>4, InUseFinite DEF Counted
  <2>2. CASE ~dll.present
    <3>1. Exporting' = Exporting /\ InUse' = InUse /\ dll' = dll
      <4>1. table[TableOf(t)] = "busy"
        BY <1>3 DEF OneResolver, Resolving, LoadLibrary
      <4> QED BY <1>3, <2>2, <4>1 DEF LoadLibrary, Resolved, Exporting, InUse, Types, Goes
    <3> QED BY <3>1 DEF Counted
  <2> QED BY <2>1, <2>2
<1>4. CASE ResolveExports(t)
  <2> DEFINE x == TableOf(t)
  <2>1. x \in Tables /\ table[x] = "busy" /\ pc[t] = "exports"
    BY <1>4 DEF ResolveExports, TableOf, Tables, OneResolver, Resolving
  <2>2. Exporting' = Exporting \ {t} /\ t \in Exporting
    BY <1>4 DEF ResolveExports, Resolved, Exporting, Types, Goes
  <2>3. IsFiniteSet(Exporting') /\ Cardinality(Exporting') = Cardinality(Exporting) - 1
    BY <2>2, FS_RemoveElement DEF Counted
  <2>4. Cardinality(Exporting) \in Nat
    BY FS_CardinalityType DEF Counted
  <2>5. CASE x \in dll.exports
    <3>1. InUse' = InUse \union {x} /\ x \notin InUse /\ dll'.refs = dll.refs - 0
      BY <1>4, <2>1, <2>5 DEF ResolveExports, Resolved, InUse, Types
    <3>2. Cardinality(InUse') = Cardinality(InUse) + 1
      BY <3>1, InUseFinite, FS_AddElement
    <3> QED BY <3>1, <3>2, <2>3, <2>4, InUseFinite DEF Counted
  <2>6. CASE x \notin dll.exports
    <3>1. InUse' = InUse /\ dll'.refs = dll.refs - 1
      BY <1>4, <2>1, <2>6 DEF ResolveExports, Resolved, InUse, Types
    <3> QED BY <3>1, <2>3, <2>4, InUseFinite DEF Counted
  <2> QED BY <2>5, <2>6
<1> QED BY <1>1, <1>2, <1>3, <1>4

LEMMA SoundEach == ConvertedSoundly <=> \A t \in Threads : Sound(t)
BY DEF ConvertedSoundly, Sound

\* What a table is found to be it stays.
LEMMA TablesStay ==
  ASSUME Types, OneResolver, NEW t \in Threads,
         \/ Begin(t) \/ GetOrInit(t) \/ LoadLibrary(t) \/ ResolveExports(t) \/ Without(t)
         \/ Open(t) \/ Decode(t) \/ Measure(t) \/ Fill(t),
         NEW x \in Tables, table[x] \in {"some", "none"}
  PROVE  table'[x] = table[x]
<1>1. CASE Begin(t) \/ Without(t) \/ Open(t) \/ Decode(t) \/ Measure(t) \/ Fill(t)
  BY <1>1, ElsewhereGoes
<1>2. CASE GetOrInit(t)
  BY <1>2 DEF GetOrInit, Types
<1>3. CASE LoadLibrary(t)
  <2>1. table[TableOf(t)] = "busy"
    BY <1>3 DEF LoadLibrary, OneResolver, Resolving
  <2> QED BY <1>3, <2>1 DEF LoadLibrary, Resolved, Types
<1>4. CASE ResolveExports(t)
  <2>1. table[TableOf(t)] = "busy"
    BY <1>4 DEF ResolveExports, OneResolver, Resolving
  <2> QED BY <1>4, <2>1 DEF ResolveExports, Resolved, Types
<1> QED BY <1>1, <1>2, <1>3, <1>4

\* The step of another thread changes nothing for s.
LEMMA OthersStay ==
  ASSUME Types, OneResolver, NEW t \in Threads,
         \/ Begin(t) \/ GetOrInit(t) \/ LoadLibrary(t) \/ ResolveExports(t) \/ Without(t)
         \/ Open(t) \/ Decode(t) \/ Measure(t) \/ Fill(t),
         NEW s \in Threads \ {t}, Placed(s), Sound(s)
  PROVE  Placed(s)' /\ Sound(s)'
<1>1. \A x \in Tables : table[x] \in {"some", "none"} => table'[x] = table[x]
  BY TablesStay
<1>2. TableOf(s) \in Tables /\ "ucnv" \in Tables /\ "uidna" \in Tables
  BY DEF TableOf, Tables
<1>3. /\ pc'[s] = pc[s] /\ job'[s] = job[s] /\ TableOf(s)' = TableOf(s)
      /\ opened'[s] = opened[s] /\ answer'[s] = answer[s]
      /\ s \in open' <=> s \in open
  BY Frame
<1>4. Placed(s)'
  BY <1>1, <1>2, <1>3 DEF Placed
<1>5. Sound(s)'
  BY <1>1, <1>2, <1>3 DEF Sound
<1> QED BY <1>4, <1>5

LEMMA ReturnsAnswer ==
  ASSUME Types, NEW t \in Threads, NEW kind, NEW units, Returns(t, kind, units)
  PROVE  /\ pc'[t] = "returned" /\ t \notin open'
         /\ answer'[t].kind = kind /\ answer'[t].units = units
         /\ answer'[t].whole = job'[t].needed
<1>1. /\ pc'[t] = "returned" /\ t \notin open'
      /\ answer'[t] = [kind |-> kind, units |-> units, whole |-> job'[t].needed]
  BY DEF Returns, Goes, Types
<1> QED BY <1>1

\* What a call returns, as far as its soundness goes.
LEMMA ReturnsSoundly ==
  ASSUME Types, NEW t \in Threads, NEW kind, NEW units, Returns(t, kind, units),
         kind = "nls text" =>
           job'[t].call = "preferred" /\ (table'["ucnv"] = "none" \/ opened'[t] = "no data"),
         kind = "text" =>
           \/ table'[TableOf(t)'] = "some" /\ opened'[t] = "converter"
           \/ job'[t].size = 0,
         kind \in {"text", "nls text"} => units = job'[t].needed,
         kind = "unavailable" => table'["uidna"] = "none"
  PROVE  Placed(t)' /\ Sound(t)'
<1>1. /\ pc'[t] = "returned" /\ t \notin open'
      /\ answer'[t].kind = kind /\ answer'[t].units = units
      /\ answer'[t].whole = job'[t].needed
  BY ReturnsAnswer, Zenon
<1>2. Placed(t)'
  BY <1>1, Zenon DEF Placed
<1>3. Sound(t)'
  BY <1>1, Zenon DEF Sound
<1> QED BY <1>2, <1>3

LEMMA OwnStep ==
  ASSUME Types, OneResolver, NEW t \in Threads, Placed(t), Sound(t),
         \/ Begin(t) \/ GetOrInit(t) \/ LoadLibrary(t) \/ ResolveExports(t) \/ Without(t)
         \/ Open(t) \/ Decode(t) \/ Measure(t) \/ Fill(t)
  PROVE  Placed(t)' /\ Sound(t)'
<1>0. ~Begin(t) => job'[t].call = job[t].call /\ TableOf(t)' = TableOf(t)
  BY Frame
<1>1. CASE Begin(t)
  <2>1. PICK call \in Calls, size \in {0, 1, MaxI32 - 1, MaxI32, MaxI32 + 1} :
          /\ job' = [job EXCEPT ![t] = [call |-> call, size |-> size, needed |-> 0]]
          /\ IF size = 0 /\ call # "idna" THEN Returns(t, "text", 0)
             ELSE Goes(t, "resolve") /\ UNCHANGED <<open, answer>>
    BY <1>1 DEF Begin
  <2>2. job'[t].size = size /\ job'[t].needed = 0
    BY <2>1 DEF Types
  <2>3. CASE size = 0 /\ call # "idna"
    BY <2>1, <2>2, <2>3, ReturnsSoundly
  <2>4. CASE ~(size = 0 /\ call # "idna")
    <3>1. pc'[t] = "resolve" /\ open' = open /\ pc[t] = "start"
      BY <1>1, <2>1, <2>4 DEF Begin, Goes, Types
    <3> QED BY <3>1 DEF Placed, Sound
  <2> QED BY <2>3, <2>4
<1>2. CASE GetOrInit(t)
  <2>1. \/ pc'[t] = "load"
        \/ pc'[t] = "open" /\ table'[TableOf(t)'] = "some"
        \/ pc'[t] = "without" /\ table'[TableOf(t)'] = "none"
    BY <1>0, <1>2 DEF GetOrInit, Goes, Types, Begin
  <2>2. pc[t] = "resolve" /\ open' = open
    BY <1>2 DEF GetOrInit
  <2> QED BY <2>1, <2>2 DEF Placed, Sound
<1>3. ASSUME LoadLibrary(t) \/ ResolveExports(t) PROVE Placed(t)' /\ Sound(t)'
  <2>1. pc[t] \in {"load", "exports"} /\ open' = open /\ TableOf(t) \in Tables
    BY <1>3 DEF LoadLibrary, ResolveExports, TableOf, Tables
  <2>2. \/ pc'[t] = "exports"
        \/ \E some \in BOOLEAN : Resolved(t, some)
    <3>1. CASE LoadLibrary(t)
      BY <3>1 DEF LoadLibrary, Goes, Types
    <3>2. CASE ResolveExports(t)
      <4>1. Resolved(t, TableOf(t) \in dll.exports) /\ (TableOf(t) \in dll.exports) \in BOOLEAN
        BY <3>2 DEF ResolveExports
      <4> QED BY <4>1, Zenon
    <3> QED BY <1>3, <3>1, <3>2
  <2>3. TableOf(t)' = TableOf(t)
    BY <1>0, <1>3 DEF Begin, LoadLibrary, ResolveExports
  <2>4. \/ pc'[t] = "exports"
        \/ pc'[t] = "open" /\ table'[TableOf(t)'] = "some"
        \/ pc'[t] = "without" /\ table'[TableOf(t)'] = "none"
    BY <2>1, <2>2, <2>3 DEF Resolved, Goes, Types
  <2> QED BY <2>1, <2>4 DEF Placed, Sound
<1>4. CASE Without(t)
  <2>1. /\ pc[t] = "without" /\ table[TableOf(t)] = "none"
        /\ job' = job /\ table' = table
    BY <1>4 DEF Without, Placed
  <2>2. CASE job[t].call = "preferred"
    <3>1. pc'[t] = "nls" /\ open' = open
      BY <1>4, <2>2 DEF Without, Goes, Types
    <3> QED BY <2>1, <2>2, <3>1 DEF Placed, Sound, TableOf
  <2>3. CASE job[t].call # "preferred"
    <3>1. Returns(t, IF job[t].call = "idna" THEN "unavailable" ELSE "error", 0)
      BY <1>4, <2>3 DEF Without
    <3> QED BY <2>1, <3>1, ReturnsSoundly DEF TableOf
  <2> QED BY <2>2, <2>3
<1>5. CASE Open(t)
  <2>1. pc[t] = "open" /\ table[TableOf(t)] = "some" /\ table' = table /\ job' = job
    BY <1>5 DEF Open, Placed
  <2>2. TableOf(t)' = TableOf(t)
    BY <2>1 DEF TableOf
  <2>3. CASE Returns(t, "error", 0)
    BY <2>3, ReturnsSoundly
  <2>4. CASE Goes(t, "convert") /\ opened'[t] = "converter"
    BY <2>1, <2>2, <2>4 DEF Placed, Sound, Goes, Types
  <2>5. CASE /\ Goes(t, "nls") /\ opened'[t] = "no data" /\ open' = open
             /\ job[t].call = "preferred"
    BY <2>1, <2>2, <2>5 DEF Placed, Sound, Goes, Types
  <2> QED BY <1>5, <2>3, <2>4, <2>5 DEF Open, FallsBack, Types
<1>6. CASE Decode(t)
  <2>1. /\ pc[t] = "convert" /\ opened'[t] = "converter" /\ table' = table
        /\ table[TableOf(t)] = "some" /\ TableOf(t)' = TableOf(t)
    BY <1>0, <1>6 DEF Decode, Placed, Begin
  <2>2. PICK units \in 0..MaxUnits :
          /\ job' = [job EXCEPT ![t].needed = units]
          /\ Returns(t, "error", 0) \/ Returns(t, "text", units)
    BY <1>6 DEF Decode
  <2>3. job'[t].needed = units
    <3>1. job \in [Threads -> [call : Calls, size : 0..MaxI32 + 1, needed : 0..MaxUnits]]
      BY DEF Types
    <3>2. job' = [job EXCEPT ![t].needed = units]
      BY <2>2
    <3> QED BY <3>1, <3>2
  <2> QED BY <2>1, <2>2, <2>3, ReturnsSoundly
<1>7. CASE Measure(t)
  <2>1. table' = table /\ opened' = opened /\ TableOf(t)' = TableOf(t) /\ job'[t].call = job[t].call
    BY <1>0, <1>7 DEF Measure, Begin
  <2>2. CASE Returns(t, "error", 0)
    BY <2>2, ReturnsSoundly
  <2>3. CASE /\ Goes(t, IF pc[t] = "nls" THEN "fill nls" ELSE "fill")
             /\ UNCHANGED <<open, answer>>
    <3>1. \/ pc[t] = "nls" /\ pc'[t] = "fill nls"
          \/ pc[t] = "convert" /\ job[t].call = "idna" /\ pc'[t] = "fill"
      BY <1>7, <2>3 DEF Measure, Goes, Types
    <3> QED BY <2>1, <2>3, <3>1 DEF Placed, Sound
  <2> QED BY <1>7, <2>2, <2>3 DEF Measure
<1>8. CASE Fill(t)
  <2>1. /\ pc[t] \in {"fill", "fill nls"} /\ UNCHANGED <<job, table, opened>>
        /\ TableOf(t)' = TableOf(t)
    BY <1>0, <1>8 DEF Fill, Begin
  <2>2. \/ Returns(t, "error", 0)
        \/ pc[t] = "fill" /\ Returns(t, "text", job[t].needed)
        \/ pc[t] = "fill nls" /\ Returns(t, "nls text", job[t].needed)
    BY <1>8, <2>1 DEF Fill
  <2> QED BY <2>1, <2>2, ReturnsSoundly DEF Placed
<1> QED BY <1>1, <1>2, <1>3, <1>4, <1>5, <1>6, <1>7, <1>8

LEMMA NextIInv == IInv /\ [Next]_vars => IInv'
<1> SUFFICES ASSUME IInv, [Next]_vars PROVE IInv'
  OBVIOUS
<1>1. CASE UNCHANGED vars
  <2> USE <1>1 DEF vars, IInv
  <2>1. Types'
    BY DEF Types
  <2>2. OneResolver'
    BY DEF OneResolver, Resolving, TableOf
  <2>3. Places'
    BY DEF Places, Placed, TableOf
  <2>4. Counted'
    BY DEF Counted, InUse, Exporting
  <2>5. ConvertedSoundly'
    BY DEF ConvertedSoundly, TableOf
  <2> QED BY <2>1, <2>2, <2>3, <2>4, <2>5
<1>2. ASSUME NEW t \in Threads,
             \/ Begin(t) \/ GetOrInit(t) \/ LoadLibrary(t) \/ ResolveExports(t)
             \/ Without(t) \/ Open(t) \/ Decode(t) \/ Measure(t) \/ Fill(t)
      PROVE  IInv'
  <2>1. Types' /\ OneResolver' /\ Counted'
    BY <1>2, TypesKept, ResolversKept, CountedKept DEF IInv
  <2>2. \A s \in Threads : Placed(s) /\ Sound(s)
    BY SoundEach DEF IInv, Places
  <2>3. \A s \in Threads : Placed(s)' /\ Sound(s)'
    BY <1>2, <2>2, OthersStay, OwnStep DEF IInv
  <2>4. ConvertedSoundly' <=> \A s \in Threads : Sound(s)'
    BY DEF ConvertedSoundly, Sound
  <2> QED BY <2>1, <2>3, <2>4 DEF IInv, Places
<1> QED BY <1>1, <1>2 DEF Next, Convert, Done

\* The invariant holds throughout every behaviour.
THEOREM Invariance ==
  ASSUME ConstantsOK
  PROVE  Spec => []IInv
<1>1. Init => IInv
  BY InitIInv
<1> QED BY <1>1, NextIInv, PTL DEF Spec

-----------------------------------------------------------------------------
(* The theorems.                                                             *)

\* Tables, threads and answers keep their types, and there are never more
\* references to icu.dll than tables.
THEOREM TypeCorrect ==
  ASSUME ConstantsOK
  PROVE  Spec => []TypeOK
BY Invariance, IInvImplies, PTL

\* However many threads convert at once, icu.dll stays loaded as long as one
\* may call into it, once for each table in use or being resolved
\* (load_icu_exports).
THEOREM LibraryStaysLoaded ==
  ASSUME ConstantsOK
  PROVE  Spec => []LibraryHeld
BY Invariance, IInvImplies, PTL

\* And however they interleave: NLS stands in only where ICU is not there, what
\* is returned is whole, and no converter stays open (icu_decode_if_available,
\* icu_decode, idna_to_ascii).
THEOREM ConversionsSound ==
  ASSUME ConstantsOK
  PROVE  Spec => []SystemTextSound
<1>1. IInv => SystemTextSound
  BY IInvImplies DEF SystemTextSound
<1> QED BY <1>1, Invariance, PTL
=============================================================================
