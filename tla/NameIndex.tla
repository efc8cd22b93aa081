----------------------------- MODULE NameIndex -----------------------------
(***************************************************************************)
(* The index of the IR (src/common/IRManager.cpp): every value and every   *)
(* named struct type of the loaded module gets an id, and is found by its  *)
(* name, by its demangled name and by what is left of that name when       *)
(* namespaces are taken off.  The parser (QueryInterface.cpp) turns what   *)
(* clients write for an id into values through it.                         *)
(*                                                                         *)
(* A name is its place in the alphabetical order of names, 0 the empty     *)
(* one; so the names that begin with n are those from n to LastWith[n].    *)
(* The sorted vector of entries, which has no two alike, is a set: the two *)
(* binary searches of listGlobal are the bounds of what it lists.          *)
(***************************************************************************)
EXTENDS Integers, Sequences, FiniteSets

CONSTANTS
  ModuleValues, \* the module's values, as the loops reach them:
              \*   [kind, name, owner (function of a block or instruction), types, class]
  Types,      \* its types
  Subtypes,   \* what a type is made of, in order
  StructName, \* the names of the struct types that have one
  Sized,      \* the struct types that are not opaque
  Names,      \* names, in alphabetical order
  LastWith,   \* the last name that begins with a name
  Demangled,  \* getDemangledName: the name itself when it is not mangled
  Stripped,   \* a struct's name without "struct.", "class.", ...; else empty
  Inner,      \* the name without its outermost namespace, or NoName
  Suffixes,   \* a name and all that is left of it so
  Groups,     \* the silence switches that a name falls under
  Inquiries   \* what is asked of the index, see below

NoName   == -1
Switches == {"std", "llvm", "runtime"}
Kinds    == {"global", "function", "argument", "block", "instruction"}
Structs  == DOMAIN StructName
IsGlobal(v) == ModuleValues[v].kind \in {"global", "function"}


\* What clients write in place of an id, and how many of what kind a command takes.
References == [how : {"name"}, name : Names] \union [how : {"number"}, number : Int]
              \union [how : {"text"}]
Wanted ==
  [site |-> <<"function">>, cg |-> <<"function">>, st |-> <<"struct">>, alias |-> <<"value", "value">>,
   aliasset |-> <<"value">>, pts |-> <<"value">>, pt |-> <<"value", "value">>]

ASSUME NameIndexAssumption ==
  /\ Len(ModuleValues) \in Nat /\ Names \subseteq Nat /\ 0 \in Names
  /\ \A v \in 1..Len(ModuleValues) :
       /\ ModuleValues[v].kind \in Kinds /\ ModuleValues[v].name \in Names /\ ModuleValues[v].class \in Names \union {NoName}
       /\ ModuleValues[v].owner \in 0..Len(ModuleValues) /\ ModuleValues[v].types \in Seq(Types)
  /\ \A v, w \in 1..Len(ModuleValues) :
       IsGlobal(v) /\ IsGlobal(w) /\ ModuleValues[v].name = ModuleValues[w].name /\ ModuleValues[v].name # 0 => v = w
  /\ Subtypes \in [Types -> Seq(Types)]
  /\ Structs \subseteq Types /\ StructName \in [Structs -> Names] /\ Sized \subseteq Structs
  /\ LastWith \in [Names -> Names] /\ Demangled \in [Names -> Names] /\ Stripped \in [Names -> Names]
  /\ Inner \in [Names -> Names \union {NoName}]
  /\ Suffixes \in [Names -> SUBSET Names]
  /\ \A n \in Names : Suffixes[n] = {n} \union (IF Inner[n] = NoName THEN {} ELSE Suffixes[Inner[n]])
  /\ Groups \in [Names -> SUBSET Switches]
  /\ \A q \in Inquiries :
       \/ q.ask \in DOMAIN Wanted \union {"show"} /\ q.refs \in Seq(References)
       \/ q.ask = "range" /\ q.refs \in Seq(References) /\ Len(q.refs) = 1 /\ q.count \in Int
       \/ q.ask = "global" /\ q.name \in Names
       \/ q.ask = "ctor" /\ q.of \in 1..Len(ModuleValues)

VARIABLES
  indexStep,    \* the loop of buildModuleIndex, "ready" when it is through
  value, typeAt,          \* the value to be numbered, and which of its types is next
  worklist, visitedTypes, \* as in recordStructTypes
  label,        \* the name at which the loop over namespaces is
  vidCnt, vidToValue, valueToVid, vidToIdStruct, idStructToVid, entries,
  silencing,    \* the switches that are on
  told          \* the last question and its answer

loopVars   == <<value, typeAt, worklist, visitedTypes, label>>
tableVars  == <<vidCnt, vidToValue, valueToVid, vidToIdStruct, idStructToVid, entries>>
lookupVars == <<silencing, told>>
indexVars  == <<indexStep, loopVars, tableVars, lookupVars>>

Bind(f, x, y) == [z \in DOMAIN f \union {x} |-> IF z = x THEN y ELSE f[z]]
Entry(n, id, real) == [name |-> n, id |-> id, isRealName |-> real]
Untold == [q |-> [ask |-> "nothing"], a |-> [how |-> "ok"]]

IndexInit ==
  /\ indexStep = "load"
  /\ value = 1 /\ typeAt = 1 /\ worklist = <<>> /\ visitedTypes = {} /\ label = 0
  /\ vidCnt = 0 /\ vidToValue = <<>> /\ valueToVid = <<>>
  /\ vidToIdStruct = <<>> /\ idStructToVid = <<>> /\ entries = {}
  /\ silencing = Switches /\ told = Untold

-----------------------------------------------------------------------------
(* buildModuleIndex *)

\* loadMainModule: no path or no IR ends the program.
LoadModule ==
  /\ indexStep = "load"
  /\ indexStep' \in {"types", "failed"}
  /\ UNCHANGED <<loopVars, tableVars, lookupVars>>

\* recordStructTypes is called with the next type of the value.
RecordTypes ==
  /\ indexStep = "types" /\ value <= Len(ModuleValues) /\ typeAt <= Len(ModuleValues[value].types)
  /\ worklist' = <<ModuleValues[value].types[typeAt]>> /\ visitedTypes' = {}
  /\ typeAt' = typeAt + 1
  /\ indexStep' = "visit"
  /\ UNCHANGED <<value, label, tableVars, lookupVars>>

Current == worklist[Len(worklist)]

\* Its loop has come to a type once more.
PassType ==
  /\ indexStep = "visit" /\ worklist # <<>> /\ Current \in visitedTypes
  /\ worklist' = SubSeq(worklist, 1, Len(worklist) - 1)
  /\ UNCHANGED <<indexStep, value, typeAt, visitedTypes, label, tableVars, lookupVars>>

\* The loop over namespaces begins at n; the real name is there already.
NameBy(real, n) ==
  /\ entries' = entries \union {Entry(real, vidCnt, TRUE)}
  /\ label' = n

\* Mutant: a struct type gets a new id whenever it is met.
VisitTypeAgain ==
  /\ indexStep = "visit" /\ worklist # <<>> /\ Current \notin visitedTypes
  /\ visitedTypes' = visitedTypes \union {Current}
  /\ worklist' = SubSeq(worklist, 1, Len(worklist) - 1) \o Subtypes[Current]
  /\ IF Current \in Structs
     THEN /\ idStructToVid' = Bind(idStructToVid, Current, vidCnt)
          /\ vidToIdStruct' = Bind(vidToIdStruct, vidCnt, Current)
          /\ NameBy(StructName[Current], Stripped[StructName[Current]])
          /\ indexStep' = "nameStruct"
     ELSE UNCHANGED <<idStructToVid, vidToIdStruct, entries, label, indexStep>>
  /\ UNCHANGED <<value, typeAt, vidCnt, vidToValue, valueToVid, lookupVars>>

\* It meets a type: what the type is made of comes next, and a struct type that
\* has a name and no id gets one.
VisitType ==
  /\ indexStep = "visit" /\ worklist # <<>> /\ Current \notin visitedTypes
  /\ visitedTypes' = visitedTypes \union {Current}
  /\ worklist' = SubSeq(worklist, 1, Len(worklist) - 1) \o Subtypes[Current]
  /\ IF Current \in Structs \ DOMAIN idStructToVid
     THEN /\ idStructToVid' = Bind(idStructToVid, Current, vidCnt)
          /\ vidToIdStruct' = Bind(vidToIdStruct, vidCnt, Current)
          /\ NameBy(StructName[Current], Stripped[StructName[Current]])
          /\ indexStep' = "nameStruct"
     ELSE UNCHANGED <<idStructToVid, vidToIdStruct, entries, label, indexStep>>
  /\ UNCHANGED <<value, typeAt, vidCnt, vidToValue, valueToVid, lookupVars>>

VisitEnd ==
  /\ indexStep = "visit" /\ worklist = <<>>
  /\ indexStep' = "types"
  /\ UNCHANGED <<loopVars, tableVars, lookupVars>>

\* The next id, and the next value.
NextId    == vidCnt' = vidCnt + 1
NextValue == value' = value + 1 /\ typeAt' = 1

\* All types of the value are recorded: it gets its id, a global its names too.
NumberValue ==
  /\ indexStep = "types" /\ value <= Len(ModuleValues) /\ typeAt > Len(ModuleValues[value].types)
  /\ vidToValue' = Bind(vidToValue, vidCnt, value)
  /\ valueToVid' = Bind(valueToVid, value, vidCnt)
  /\ IF IsGlobal(value)
     THEN /\ NameBy(ModuleValues[value].name, Demangled[ModuleValues[value].name])
          /\ indexStep' = "nameValue"
          /\ UNCHANGED <<vidCnt, value, typeAt>>
     ELSE NextId /\ NextValue /\ UNCHANGED <<entries, label, indexStep>>
  /\ UNCHANGED <<worklist, visitedTypes, vidToIdStruct, idStructToVid, lookupVars>>

Naming == indexStep \in {"nameStruct", "nameValue"}
RealName(id) ==
  IF id \in DOMAIN vidToIdStruct THEN StructName[vidToIdStruct[id]] ELSE ModuleValues[vidToValue[id]].name

\* A turn of the loop over namespaces: a name that is not the real one is added.
AddLabel == entries' = entries \union (IF label = RealName(vidCnt) THEN {} ELSE {Entry(label, vidCnt, FALSE)})

NameInner ==
  /\ Naming /\ Inner[label] # NoName
  /\ AddLabel
  /\ label' = Inner[label]
  /\ UNCHANGED <<indexStep, value, typeAt, worklist, visitedTypes, vidCnt, vidToValue, valueToVid,
                 vidToIdStruct, idStructToVid, lookupVars>>

NameLast ==
  /\ Naming /\ Inner[label] = NoName
  /\ AddLabel
  /\ NextId
  /\ IF indexStep = "nameValue" THEN NextValue /\ indexStep' = "types"
                                 ELSE UNCHANGED <<value, typeAt>> /\ indexStep' = "visit"
  /\ UNCHANGED <<worklist, visitedTypes, label, vidToValue, valueToVid, vidToIdStruct, idStructToVid, lookupVars>>

\* The entries are sorted, and the index is ready.
SortEntries ==
  /\ indexStep = "types" /\ value > Len(ModuleValues)
  /\ indexStep' = "ready"
  /\ UNCHANGED <<loopVars, tableVars, lookupVars>>

BuildIndex == LoadModule \/ RecordTypes \/ PassType \/ VisitType \/ VisitEnd \/ NumberValue
              \/ NameInner \/ NameLast \/ SortEntries

-----------------------------------------------------------------------------
(* Lookups *)

BeginsWith(n, m) == n >= m /\ n <= LastWith[m]

\* shouldSilence
IsHushed(n) == Groups[n] \intersect silencing # {}

\* listGlobal
Listed(n) == {e \in entries : BeginsWith(e.name, n)}

IsGiven(id) == id \in DOMAIN vidToValue \union DOMAIN vidToIdStruct

\* Mutant: what decides is the name in the entry.
UnsilencedByEntry(n) ==
  {e.id : e \in {f \in Listed(n) : f.id \in DOMAIN vidToIdStruct \/ ~IsHushed(f.name)}}

\* @n: the ids that are listed and not silenced; a struct type never is.
Unsilenced(n) ==
  {id \in {e.id : e \in Listed(n)} :
     id \in DOMAIN vidToIdStruct \/ (id \in DOMAIN vidToValue /\ ~IsHushed(ModuleValues[vidToValue[id]].name))}

Fails(how) == [how |-> how, id |-> -1]
Gives(id)  == [how |-> "ok", id |-> id]

\* parseVid, with toIntStrict: an id, or how it fails.
ParseVid(ref) ==
  CASE ref.how = "number"    -> Gives(ref.number)
    [] ref.how = "text" -> Fails("invalidInteger")
    [] ref.how = "name"      ->
         IF Unsilenced(ref.name) = {} THEN Fails("nameNotFound")
         ELSE IF \E id \in Unsilenced(ref.name) : Unsilenced(ref.name) = {id}
              THEN Gives(CHOOSE id \in Unsilenced(ref.name) : TRUE)
              ELSE Fails("nameAmbiguous")

IsA(id, kind) ==
  CASE kind = "struct"   -> id \in DOMAIN vidToIdStruct
    [] kind = "value"    -> id \in DOMAIN vidToValue
    [] kind = "function" -> id \in DOMAIN vidToValue /\ ModuleValues[vidToValue[id]].kind = "function"

\* requireValue, requireFunction, requireStruct
Require(ref, kind) ==
  LET p == ParseVid(ref) IN
  IF p.how # "ok" \/ IsA(p.id, kind) THEN p ELSE Fails("vidNotFound")

FirstFailure(of) == of[CHOOSE i \in DOMAIN of : of[i].how # "ok" /\ \A k \in 1..(i - 1) : of[k].how = "ok"]
AllOf(of) == [how |-> "ok", ids |-> [i \in DOMAIN of |-> of[i].id]]

\* The operands of a command; a depth or a flag behind them is left out.
Operands(cmd, refs) ==
  LET of == [i \in DOMAIN refs |-> Require(refs[i], Wanted[cmd][i])] IN
  IF cmd = "site" /\ refs = <<>> THEN AllOf(of)
  ELSE IF Len(refs) # Len(Wanted[cmd]) THEN Fails("usage")
  ELSE IF \E i \in DOMAIN of : of[i].how # "ok" THEN FirstFailure(of)
  ELSE AllOf(of)

\* silenceName: no name for an argument.
SilenceName(v) ==
  IF ModuleValues[v].kind = "argument" THEN 0
  ELSE ModuleValues[IF IsGlobal(v) THEN v ELSE ModuleValues[v].owner].name

\* handleVid: a struct type is always printed.
IsShown(id) ==
  \/ id \in DOMAIN vidToIdStruct
  \/ id \in DOMAIN vidToValue /\ (SilenceName(vidToValue[id]) = 0 \/ ~IsHushed(SilenceName(vidToValue[id])))

\* The places of a list of ids that are printed, and those counted as silenced.
Show(ids) ==
  LET given == {i \in DOMAIN ids : IsGiven(ids[i])} IN
  IF given = {} THEN Fails("vidNotFound")
  ELSE [how |-> "ok", shown |-> {i \in given : IsShown(ids[i])}, silenced |-> {i \in given : ~IsShown(ids[i])}]

\* <vid> ..., where one that fails takes with it what was printed; <vid> -c <count>
ShowList(refs) ==
  LET of == [i \in DOMAIN refs |-> ParseVid(refs[i])] IN
  IF \E i \in DOMAIN of : of[i].how # "ok" THEN FirstFailure(of) ELSE Show(AllOf(of).ids)
ShowRange(ref, count) ==
  LET from == ParseVid(ref) IN
  IF from.how # "ok" THEN from ELSE Show([i \in 1..count |-> from.id + i - 1])

\* getGlobal, by which names in files are read back: struct types do not count.
GetGlobal(n) ==
  LET ids == {e.id : e \in {f \in entries : f.isRealName /\ f.name = n /\ f.id \in DOMAIN vidToValue}} IN
  IF ids = {} THEN Fails("globalNotFound")
  ELSE IF \E id \in ids : ids = {id} THEN Gives(CHOOSE id \in ids : TRUE) ELSE Fails("globalAmbiguous")

\* getCtorStructType: the first entry of a sized struct type whose name begins
\* with the name of the class.
CtorStruct(v) ==
  LET sized == IF ModuleValues[v].class = NoName THEN {}
               ELSE {e \in Listed(ModuleValues[v].class) : e.id \in DOMAIN vidToIdStruct /\ vidToIdStruct[e.id] \in Sized}
  IN IF sized = {} THEN Fails("none")
     ELSE Gives((CHOOSE e \in sized : \A f \in sized : e.name < f.name \/ (e.name = f.name /\ e.id <= f.id)).id)

Outcome(q) ==
  CASE q.ask = "show"   -> ShowList(q.refs)
    [] q.ask = "range"  -> ShowRange(q.refs[1], q.count)
    [] q.ask = "global" -> GetGlobal(q.name)
    [] q.ask = "ctor"   -> CtorStruct(q.of)
    [] q.ask \in DOMAIN Wanted -> Operands(q.ask, q.refs)

\* The answer is kept for the properties; no step reads it, and so one at a
\* time is enough.
Inquire ==
  /\ indexStep = "ready" /\ told = Untold
  /\ \E q \in Inquiries : told' = [q |-> q, a |-> Outcome(q)]
  /\ UNCHANGED <<indexStep, loopVars, tableVars, silencing>>

\* stds, llvms, rts
FlipSwitch ==
  /\ indexStep = "ready"
  /\ \E g \in Switches : silencing' = IF g \in silencing THEN silencing \ {g} ELSE silencing \union {g}
  /\ told' = Untold
  /\ UNCHANGED <<indexStep, loopVars, tableVars>>

IndexNext == BuildIndex \/ Inquire \/ FlipSwitch
IndexSpec == IndexInit /\ [][IndexNext]_indexVars

-----------------------------------------------------------------------------
(* Properties. *)

SubtypesOf(T) == {Subtypes[T][i] : i \in DOMAIN Subtypes[T]}

\* The types that a type is made of, itself included.
Within(T) ==
  {U \in Types : \A S \in SUBSET Types : T \in S /\ (\A X \in S : SubtypesOf(X) \subseteq S) => U \in S}
UsedStructs == {T \in Structs : \E v \in 1..Len(ModuleValues) :
                                  \E i \in DOMAIN ModuleValues[v].types : T \in Within(ModuleValues[v].types[i])}

\* The ids given so far, and the names that stand for the one of a value or a type.
Given == 0..(IF Naming THEN vidCnt ELSE vidCnt - 1)
StartName(id) == IF id \in DOMAIN vidToIdStruct THEN Stripped[RealName(id)] ELSE Demangled[RealName(id)]
IsNamed(id) == id \in DOMAIN vidToIdStruct \/ IsGlobal(vidToValue[id])

AreInverse(f, g) ==
  /\ \A x \in DOMAIN f : f[x] \in DOMAIN g /\ g[f[x]] = x
  /\ \A y \in DOMAIN g : g[y] \in DOMAIN f /\ f[g[y]] = y

IdsExact ==
  /\ DOMAIN vidToValue \union DOMAIN vidToIdStruct = Given
  /\ DOMAIN vidToValue \intersect DOMAIN vidToIdStruct = {}
  /\ AreInverse(vidToValue, valueToVid) /\ AreInverse(vidToIdStruct, idStructToVid)
  /\ \A id, jd \in DOMAIN vidToValue : id < jd => vidToValue[id] < vidToValue[jd]
AllNumbered == DOMAIN valueToVid = 1..Len(ModuleValues) /\ DOMAIN idStructToVid = UsedStructs
NamesExact ==
  \A id \in Given, n \in Names :
    /\ Entry(n, id, TRUE) \in entries <=> IsNamed(id) /\ n = RealName(id)
    /\ Entry(n, id, FALSE) \in entries <=> IsNamed(id) /\ n # RealName(id) /\ n \in Suffixes[StartName(id)]

(***************************************************************************)
(* buildModuleIndex numbers each value once and in order, each named       *)
(* struct type that some type it is called with contains once, and leaves  *)
(* no gap, so that "<vid> -c <i>" meets what follows in the module; and    *)
(* what it can be found by is the real name and every rest of the other.   *)
(***************************************************************************)
IndexExact == IdsExact /\ (indexStep = "ready" => AllNumbered /\ NamesExact)

\* What goes by a name that begins with n and is not silenced.
ValuesCalled(n) ==
  {v \in 1..Len(ModuleValues) :
     /\ IsGlobal(v) /\ ~IsHushed(ModuleValues[v].name)
     /\ \E m \in {ModuleValues[v].name} \union Suffixes[Demangled[ModuleValues[v].name]] : BeginsWith(m, n)}
StructsCalled(n) ==
  {T \in UsedStructs : \E m \in {StructName[T]} \union Suffixes[Stripped[StructName[T]]] : BeginsWith(m, n)}

\* A reference means an id when it is the number, or a name of this one only.
Denotes(ref, id) ==
  \/ ref.how = "number" /\ id = ref.number
  \/ ref.how = "name" /\ id \in DOMAIN vidToValue
       /\ ValuesCalled(ref.name) = {vidToValue[id]} /\ StructsCalled(ref.name) = {}
  \/ ref.how = "name" /\ id \in DOMAIN vidToIdStruct
       /\ StructsCalled(ref.name) = {vidToIdStruct[id]} /\ ValuesCalled(ref.name) = {}

IsTrue(q, a) ==
  /\ q.ask \in DOMAIN Wanted /\ a.how # "usage" =>
       IF a.how = "ok"
       THEN \A i \in DOMAIN q.refs : Denotes(q.refs[i], a.ids[i]) /\ IsA(a.ids[i], Wanted[q.ask][i])
       ELSE \E i \in DOMAIN q.refs : \A id \in Given : ~(Denotes(q.refs[i], id) /\ IsA(id, Wanted[q.ask][i]))
  /\ q.ask = "range" /\ a.how = "ok" =>
       \A id \in Given : Denotes(q.refs[1], id) => a.shown \union a.silenced = {i \in 1..q.count : id + i - 1 \in Given}
  /\ q.ask = "global" /\ q.name # 0 =>
       IF a.how = "ok" THEN IsGlobal(vidToValue[a.id]) /\ ModuleValues[vidToValue[a.id]].name = q.name
       ELSE \A v \in 1..Len(ModuleValues) : ~(IsGlobal(v) /\ ModuleValues[v].name = q.name)

(***************************************************************************)
(* "vid can be number or @[prefix], like @main, @foo::foo, ... as long as  *)
(* it is unique" (the help, QueryInterface.cpp:461): a command runs on what*)
(* its operands mean, and fails when one means nothing of the kind it      *)
(* wants; an id is printed or counted as silenced just when the module has *)
(* so many; and a global that a file names is found (getGlobal).           *)
(***************************************************************************)
LookupsTrue == IsTrue(told.q, told.a)
=============================================================================
