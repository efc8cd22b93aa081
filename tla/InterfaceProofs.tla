--------------------------- MODULE InterfaceProofs ---------------------------
(***************************************************************************)
(* The names and the notes of the query interface.                         *)
(*                                                                         *)
(* The index of NameIndex is exact when it is there, and what a query gets *)
(* from it is one of the values its words denote, for every module.        *)
(*                                                                         *)
(* IndexInv is inductive.  Its parts are about the loops of the build      *)
(* (LoopOK), the types still on the worklist (WalkOK: what a visited type  *)
(* contains is visited or waiting, so an empty worklist has visited all    *)
(* that is within the root), the ids (IdsExact) and the names of every id  *)
(* given so far, the one whose names are being added included (NamesOK).   *)
(*                                                                         *)
(* The files of Notes stay in order, whatever is written, lost or left     *)
(* empty: NoteInv says it of the folder and of what is about to be written.*)
(* So every premise that is read from them is a proposition that can be    *)
(* asked for (BodiesInv, InNodes), and the recursion of the tree view ends *)
(* and is right: induction over what is left to add to the ancestors.      *)
(*                                                                         *)
(* The files implement the note book of NoteBook.  The lines that begin the*)
(* blocks of a record are listed in their order (Lists); a line that is put*)
(* in (Put) moves those behind it and begins no block, so the blocks are   *)
(* what they were, with what the new line lists (PutBlocks): nothing, or   *)
(* one pair of one block (PutChild), the one that was named where its When *)
(* line is the last there (WhenUntangled).  What is noted of a heading     *)
(* (Noted) changes with the rewriting of its own record only               *)
(* (RewrittenNoted), and PendingInv says of a write that has begun what it *)
(* is going to make.                                                       *)
(***************************************************************************)
EXTENDS NameIndex, Notes, SequenceTheorems, FiniteSetTheorems, WellFoundedInduction, TLAPS
LOCAL INSTANCE FiniteSetsExt

LEMMA IndexSizes == Len(ModuleValues) \in Nat
  BY NameIndexAssumption

LEMMA BindFacts ==
  ASSUME NEW f, NEW x, NEW y
  PROVE  /\ DOMAIN Bind(f, x, y) = DOMAIN f \union {x}
         /\ Bind(f, x, y)[x] = y
         /\ \A z \in DOMAIN f : z # x => Bind(f, x, y)[z] = f[z]
  BY DEF Bind

ElementsOf(w) == {w[i] : i \in DOMAIN w}

LEMMA Front ==
  ASSUME NEW w \in Seq(Types), w # <<>>
  PROVE  /\ Len(w) \in Nat \ {0}
         /\ SubSeq(w, 1, Len(w) - 1) \in Seq(Types) /\ Len(SubSeq(w, 1, Len(w) - 1)) = Len(w) - 1
         /\ \A i \in 1..(Len(w) - 1) : SubSeq(w, 1, Len(w) - 1)[i] = w[i]
<1> DEFINE n == Len(w) - 1
<1>1. Len(w) \in Nat /\ Len(w) # 0 /\ \A i \in 1..Len(w) : w[i] \in Types
  OBVIOUS
<1>2. n \in Nat /\ n \in Int /\ \A i \in 1..n : w[i] \in Types
  BY <1>1
<1> HIDE DEF n
<1>3. SubSeq(w, 1, n) \in Seq(Types) /\ Len(SubSeq(w, 1, n)) = (IF 1 <= n THEN n - 1 + 1 ELSE 0)
      /\ \A i \in 1..(n - 1 + 1) : SubSeq(w, 1, n)[i] = w[1 + i - 1]
  BY <1>2, SubSeqProperties
<1>4. Len(SubSeq(w, 1, n)) = n /\ n - 1 + 1 = n /\ \A i \in 1..n : 1 + i - 1 = i
  BY <1>2, <1>3
<1>5. \A i \in 1..n : SubSeq(w, 1, n)[i] = w[i]
  BY <1>3, <1>4
<1> QED BY <1>1, <1>3, <1>4, <1>5 DEF n

LEMMA ElementIs ==
  ASSUME NEW w \in Seq(Types), NEW x
  PROVE  x \in ElementsOf(w) <=> \E i \in 1..Len(w) : w[i] = x
<1>1. DOMAIN w = 1..Len(w)
  OBVIOUS
<1> QED BY <1>1 DEF ElementsOf

LEMMA PopAndPush ==
  ASSUME NEW w \in Seq(Types), w # <<>>, NEW q \in Seq(Types)
  PROVE  LET s == SubSeq(w, 1, Len(w) - 1) \o q IN
         /\ s \in Seq(Types)
         /\ ElementsOf(w) \subseteq ElementsOf(s) \union {w[Len(w)]}
         /\ ElementsOf(s) \subseteq ElementsOf(w) \union ElementsOf(q)
         /\ ElementsOf(q) \subseteq ElementsOf(s)
<1> DEFINE p == SubSeq(w, 1, Len(w) - 1)  s == p \o q
<1>1. /\ Len(w) \in Nat \ {0} /\ p \in Seq(Types) /\ Len(p) = Len(w) - 1 /\ Len(q) \in Nat /\ Len(p) \in Nat
      /\ \A i \in 1..(Len(w) - 1) : p[i] = w[i]
  BY Front
<1> HIDE DEF p
<1>2. s \in Seq(Types) /\ Len(s) = Len(p) + Len(q)
      /\ \A i \in 1..(Len(p) + Len(q)) : s[i] = IF i <= Len(p) THEN p[i] ELSE q[i - Len(p)]
  BY <1>1, ConcatProperties
<1> HIDE DEF s
<1>3. ElementsOf(w) \subseteq ElementsOf(s) \union {w[Len(w)]}
  <2> SUFFICES ASSUME NEW x \in ElementsOf(w), x # w[Len(w)]  PROVE x \in ElementsOf(s)
    OBVIOUS
  <2> PICK i \in 1..Len(w) : w[i] = x
    BY ElementIs
  <2>1. i \in 1..Len(s) /\ i \in 1..(Len(p) + Len(q)) /\ i <= Len(p) /\ i \in 1..(Len(w) - 1)
    BY <1>1, <1>2
  <2>2. s[i] = x
    BY <1>1, <1>2, <2>1
  <2> QED BY <1>2, <2>1, <2>2, ElementIs
<1>4. ElementsOf(s) \subseteq ElementsOf(w) \union ElementsOf(q)
  <2> SUFFICES ASSUME NEW x \in ElementsOf(s)  PROVE x \in ElementsOf(w) \/ x \in ElementsOf(q)
    OBVIOUS
  <2> PICK i \in 1..Len(s) : s[i] = x
    BY <1>2, ElementIs
  <2>1. CASE i <= Len(p)
    <3>1. i \in 1..Len(w) /\ i \in 1..(Len(w) - 1) /\ i \in 1..(Len(p) + Len(q))
      BY <1>1, <1>2, <2>1
    <3>2. w[i] = x
      BY <1>1, <1>2, <2>1, <3>1
    <3> QED BY <3>1, <3>2, ElementIs
  <2>2. CASE ~(i <= Len(p))
    <3>1. i - Len(p) \in 1..Len(q) /\ i \in 1..(Len(p) + Len(q))
      BY <1>1, <1>2, <2>2
    <3>2. q[i - Len(p)] = x
      BY <1>2, <2>2, <3>1
    <3> QED BY <3>1, <3>2, ElementIs
  <2> QED BY <2>1, <2>2
<1>5. ElementsOf(q) \subseteq ElementsOf(s)
  <2> SUFFICES ASSUME NEW x \in ElementsOf(q)  PROVE x \in ElementsOf(s)
    OBVIOUS
  <2> PICK i \in 1..Len(q) : q[i] = x
    BY ElementIs
  <2>1. /\ Len(p) + i \in 1..Len(s) /\ Len(p) + i \in 1..(Len(p) + Len(q))
        /\ ~(Len(p) + i <= Len(p)) /\ Len(p) + i - Len(p) = i
    BY <1>1, <1>2
  <2>2. s[Len(p) + i] = x
    BY <1>2, <2>1
  <2> QED BY <1>2, <2>1, <2>2, ElementIs
<1> QED BY <1>2, <1>3, <1>4, <1>5 DEF s, p

LEMMA PopTop ==
  ASSUME NEW w \in Seq(Types), w # <<>>
  PROVE  /\ SubSeq(w, 1, Len(w) - 1) \in Seq(Types)
         /\ ElementsOf(w) \subseteq ElementsOf(SubSeq(w, 1, Len(w) - 1)) \union {w[Len(w)]}
         /\ ElementsOf(SubSeq(w, 1, Len(w) - 1)) \subseteq ElementsOf(w)
         /\ w[Len(w)] \in Types /\ w[Len(w)] \in ElementsOf(w)
<1> DEFINE p == SubSeq(w, 1, Len(w) - 1)
<1>1. /\ Len(w) \in Nat \ {0} /\ p \in Seq(Types) /\ Len(p) = Len(w) - 1
      /\ \A i \in 1..(Len(w) - 1) : p[i] = w[i]
  BY Front
<1> HIDE DEF p
<1>2. Len(w) \in 1..Len(w) /\ \A i \in 1..Len(w) : w[i] \in Types
  BY <1>1
<1>3. w[Len(w)] \in Types /\ w[Len(w)] \in ElementsOf(w)
  BY <1>2, ElementIs
<1>4. ElementsOf(w) \subseteq ElementsOf(p) \union {w[Len(w)]}
  <2> SUFFICES ASSUME NEW x \in ElementsOf(w), x # w[Len(w)]  PROVE x \in ElementsOf(p)
    OBVIOUS
  <2> PICK i \in 1..Len(w) : w[i] = x
    BY ElementIs
  <2>1. i \in 1..Len(p) /\ i \in 1..(Len(w) - 1)
    BY <1>1
  <2>2. p[i] = x
    BY <1>1, <2>1
  <2> QED BY <1>1, <2>1, <2>2, ElementIs
<1>5. ElementsOf(p) \subseteq ElementsOf(w)
  <2> SUFFICES ASSUME NEW i \in 1..Len(p)  PROVE \E j \in 1..Len(w) : w[j] = p[i]
    BY <1>1, ElementIs
  <2>1. i \in 1..Len(w) /\ i \in 1..(Len(w) - 1)
    BY <1>1
  <2> QED BY <1>1, <2>1
<1> QED BY <1>1, <1>3, <1>4, <1>5 DEF p

LEMMA SubtypesSeq ==
  ASSUME NEW T \in Types
  PROVE  Subtypes[T] \in Seq(Types) /\ SubtypesOf(T) = ElementsOf(Subtypes[T]) /\ SubtypesOf(T) \subseteq Types
<1>1. Subtypes[T] \in Seq(Types)
  BY NameIndexAssumption
<1> QED BY <1>1 DEF SubtypesOf, ElementsOf

LEMMA WithinFacts ==
  ASSUME NEW T \in Types
  PROVE  /\ T \in Within(T) /\ Within(T) \subseteq Types
         /\ \A X \in Within(T) : SubtypesOf(X) \subseteq Within(T)
<1>1. T \in Within(T) /\ Within(T) \subseteq Types
  BY DEF Within
<1>2. ASSUME NEW X \in Within(T), NEW U \in SubtypesOf(X)  PROVE U \in Within(T)
  <2>1. U \in Types
    BY <1>1, SubtypesSeq
  <2>2. ASSUME NEW S \in SUBSET Types, T \in S, \A Y \in S : SubtypesOf(Y) \subseteq S  PROVE U \in S
    BY <2>2 DEF Within
  <2> QED BY <2>1, <2>2 DEF Within
<1> QED BY <1>1, <1>2

LEMMA WithinLeast ==
  ASSUME NEW T, NEW S \in SUBSET Types, T \in S, \A X \in S : SubtypesOf(X) \subseteq S
  PROVE  Within(T) \subseteq S
  BY DEF Within

Walking == indexStep \in {"visit", "nameStruct"}

IndexTypeOK ==
  /\ indexStep \in {"load", "types", "visit", "nameStruct", "nameValue", "ready", "failed"}
  /\ value \in 1..(Len(ModuleValues) + 1) /\ typeAt \in Nat \ {0}
  /\ worklist \in Seq(Types) /\ visitedTypes \subseteq Types /\ label \in Names
  /\ vidCnt \in Nat
  /\ \A id \in DOMAIN vidToValue : vidToValue[id] \in 1..Len(ModuleValues)
  /\ \A id \in DOMAIN vidToIdStruct : vidToIdStruct[id] \in Structs
  /\ entries \subseteq [name : Names, id : Nat, isRealName : BOOLEAN]
  /\ silencing \subseteq Switches

\* Where the loops are.
LoopOK ==
  /\ indexStep = "load" => value = 1 /\ typeAt = 1 /\ vidCnt = 0
  /\ DOMAIN valueToVid = 1..(IF indexStep = "nameValue" THEN value ELSE value - 1)
  /\ indexStep \in {"visit", "nameStruct", "nameValue"} => value \in 1..Len(ModuleValues)
  /\ indexStep \in {"visit", "nameStruct"} => typeAt - 1 \in 1..Len(ModuleValues[value].types)
  /\ indexStep = "nameStruct" => vidCnt \in DOMAIN vidToIdStruct
  /\ indexStep = "nameValue" => /\ vidCnt \in DOMAIN vidToValue /\ vidToValue[vidCnt] = value /\ IsGlobal(value)
                                /\ typeAt > Len(ModuleValues[value].types)
  /\ indexStep = "ready" => value = Len(ModuleValues) + 1

\* The types that have been walked through, and the walk there is.
Root == ModuleValues[value].types[typeAt - 1]
IsWalked(v, i) == v < value \/ (v = value /\ i < (IF Walking THEN typeAt - 1 ELSE typeAt))
WalkOK ==
  /\ DOMAIN idStructToVid \subseteq UsedStructs
  /\ \A v \in 1..Len(ModuleValues) : \A i \in 1..Len(ModuleValues[v].types) :
       IsWalked(v, i) => Within(ModuleValues[v].types[i]) \intersect Structs \subseteq DOMAIN idStructToVid
  /\ Walking =>
       /\ Root \in visitedTypes \union ElementsOf(worklist)
       /\ \A X \in visitedTypes : SubtypesOf(X) \subseteq visitedTypes \union ElementsOf(worklist)
       /\ visitedTypes \union ElementsOf(worklist) \subseteq Within(Root)
       /\ visitedTypes \intersect Structs \subseteq DOMAIN idStructToVid

\* The names so far.
NamesOK ==
  /\ \A e \in entries : e.id \in Given
  /\ \A id \in Given, n \in Names : Entry(n, id, TRUE) \in entries <=> IsNamed(id) /\ n = RealName(id)
  /\ \A id \in 0..(vidCnt - 1), n \in Names :
       Entry(n, id, FALSE) \in entries <=> IsNamed(id) /\ n # RealName(id) /\ n \in Suffixes[StartName(id)]
  /\ Naming => Entry(RealName(vidCnt), vidCnt, FALSE) \notin entries
  /\ Naming => \A n \in Names : n # RealName(vidCnt) =>
       (n \in Suffixes[StartName(vidCnt)] <=> Entry(n, vidCnt, FALSE) \in entries \/ n \in Suffixes[label])

IndexInv == IndexTypeOK /\ IdsExact /\ LoopOK /\ WalkOK /\ NamesOK

LEMMA IndexData ==
  /\ Len(ModuleValues) \in Nat /\ 0 \in Names /\ Names \subseteq Nat
  /\ \A v \in 1..Len(ModuleValues) : ModuleValues[v].name \in Names /\ ModuleValues[v].types \in Seq(Types)
  /\ Structs \subseteq Types /\ \A T \in Structs : StructName[T] \in Names
  /\ \A n \in Names : /\ Demangled[n] \in Names /\ Stripped[n] \in Names
                      /\ Inner[n] # NoName => Inner[n] \in Names
                      /\ Suffixes[n] \subseteq Names
                      /\ Suffixes[n] = {n} \union (IF Inner[n] = NoName THEN {} ELSE Suffixes[Inner[n]])
  BY NameIndexAssumption

LEMMA InitIndex == IndexInit => IndexInv
<1> SUFFICES ASSUME IndexInit PROVE IndexInv
  OBVIOUS
<1> USE IndexData DEF IndexInit
<1>0. DOMAIN <<>> = {}
  OBVIOUS
<1>1. IndexTypeOK
  BY <1>0 DEF IndexTypeOK, Switches
<1>2. IdsExact
  BY <1>0 DEF IdsExact, AreInverse, Given, Naming
<1>3. LoopOK
  BY <1>0 DEF LoopOK
<1>4. WalkOK
  <2>1. ~Walking
    BY DEF Walking
  <2>2. \A v \in 1..Len(ModuleValues) : \A i \in 1..Len(ModuleValues[v].types) : ~IsWalked(v, i)
    <3> SUFFICES ASSUME NEW v \in 1..Len(ModuleValues), NEW i \in 1..Len(ModuleValues[v].types)  PROVE ~IsWalked(v, i)
      OBVIOUS
    <3>1. i \in Nat \ {0} /\ v \in Nat \ {0}
      BY DEF IndexInit
    <3> QED BY <3>1, <2>1 DEF IsWalked
  <2> QED BY <1>0, <2>1, <2>2 DEF WalkOK
<1>5. NamesOK
  BY <1>0 DEF NamesOK, Given, Naming
<1> QED BY <1>1, <1>2, <1>3, <1>4, <1>5 DEF IndexInv

LEMMA SameIndex ==
  ASSUME IndexInv, UNCHANGED <<indexStep, loopVars, tableVars>>, silencing' \subseteq Switches
  PROVE  IndexInv'
<1> USE DEF loopVars, tableVars
<1>1. IndexTypeOK'
  BY DEF IndexInv, IndexTypeOK
<1>2. IdsExact'
  BY DEF IndexInv, IdsExact, AreInverse, Given, Naming
<1>3. LoopOK'
  BY DEF IndexInv, LoopOK
<1>4. WalkOK'
  BY DEF IndexInv, WalkOK, Walking, IsWalked, Root
<1>5. NamesOK'
  BY DEF IndexInv, NamesOK, Given, IsNamed, RealName, StartName, Naming
<1> QED BY <1>1, <1>2, <1>3, <1>4, <1>5 DEF IndexInv

LEMMA PairAdded ==
  ASSUME NEW f, NEW g, AreInverse(f, g), NEW x, NEW y, x \notin DOMAIN f, y \notin DOMAIN g
  PROVE  AreInverse(Bind(f, x, y), Bind(g, y, x))
<1> DEFINE a == Bind(f, x, y)  b == Bind(g, y, x)
<1>1. DOMAIN a = DOMAIN f \union {x} /\ a[x] = y /\ \A z \in DOMAIN f : a[z] = f[z]
  BY DEF Bind
<1>2. DOMAIN b = DOMAIN g \union {y} /\ b[y] = x /\ \A z \in DOMAIN g : b[z] = g[z]
  BY DEF Bind
<1> HIDE DEF a, b
<1>3. AreInverse(a, b)
  BY <1>1, <1>2 DEF AreInverse
<1> QED BY <1>3 DEF a, b

LEMMA SameTables ==
  ASSUME IndexInv, UNCHANGED tableVars, Naming' <=> Naming, UNCHANGED label \/ ~Naming
  PROVE  IdsExact' /\ NamesOK'
<1> USE DEF tableVars
<1>1. Given' = Given
  BY DEF Given
<1>2. IdsExact'
  BY <1>1 DEF IndexInv, IdsExact, AreInverse
<1>3. NamesOK'
  BY <1>1 DEF IndexInv, NamesOK, IsNamed, RealName, StartName
<1> QED BY <1>2, <1>3

LEMMA LoadModuleInv ==
  ASSUME IndexInv, LoadModule  PROVE IndexInv'
<1> USE DEF LoadModule, loopVars, tableVars, lookupVars
<1>1. IndexTypeOK'
  BY DEF IndexInv, IndexTypeOK
<1>2. IdsExact'
  BY SameTables DEF Naming
<1>3. LoopOK'
  BY DEF IndexInv, LoopOK
<1>4. WalkOK'
  BY DEF IndexInv, WalkOK, Walking, IsWalked, Root
<1>5. NamesOK'
  BY SameTables DEF Naming
<1> QED BY <1>1, <1>2, <1>3, <1>4, <1>5 DEF IndexInv

LEMMA SortEntriesInv ==
  ASSUME IndexInv, SortEntries  PROVE IndexInv'
<1> USE DEF SortEntries, loopVars, tableVars, lookupVars
<1>1. IndexTypeOK'
  BY DEF IndexInv, IndexTypeOK
<1>2. IdsExact'
  BY SameTables DEF Naming
<1>3. LoopOK'
  BY IndexData DEF IndexInv, IndexTypeOK, LoopOK
<1>4. WalkOK'
  BY DEF IndexInv, WalkOK, Walking, IsWalked, Root
<1>5. NamesOK'
  BY SameTables DEF Naming
<1> QED BY <1>1, <1>2, <1>3, <1>4, <1>5 DEF IndexInv

LEMMA RecordTypesInv ==
  ASSUME IndexInv, RecordTypes  PROVE IndexInv'
<1> USE DEF RecordTypes, tableVars, lookupVars
<1> DEFINE T == ModuleValues[value].types[typeAt]
<1>0. /\ value \in 1..Len(ModuleValues) /\ typeAt \in 1..Len(ModuleValues[value].types)
      /\ typeAt' - 1 = typeAt /\ typeAt' \in Nat \ {0}
      /\ indexStep = "types" /\ indexStep' = "visit"
  BY IndexData DEF IndexInv, IndexTypeOK
<1>1. T \in Types /\ worklist' = <<T>> /\ <<T>> \in Seq(Types) /\ visitedTypes' = {}
  BY <1>0, IndexData
<1>2. IndexTypeOK'
  BY <1>0, <1>1 DEF IndexInv, IndexTypeOK
<1>3. IdsExact'
  BY SameTables DEF Naming
<1>4. LoopOK'
  BY <1>0, IndexData DEF IndexInv, IndexTypeOK, LoopOK
<1>5. WalkOK'
  <2>1. \A v \in 1..Len(ModuleValues) : \A i \in 1..Len(ModuleValues[v].types) : IsWalked(v, i)' => IsWalked(v, i)
    BY <1>0 DEF IsWalked, Walking
  <2>2. Root' = T
    BY <1>0 DEF Root
  <2>3. ElementsOf(worklist') = {T}
    BY <1>1 DEF ElementsOf
  <2> HIDE DEF T
  <2>4. T \in Within(T)
    BY <1>1, WithinFacts
  <2> QED BY <1>1, <2>1, <2>2, <2>3, <2>4 DEF IndexInv, WalkOK
<1>6. NamesOK'
  BY SameTables DEF Naming
<1> QED BY <1>2, <1>3, <1>4, <1>5, <1>6 DEF IndexInv

LEMMA PassTypeInv ==
  ASSUME IndexInv, PassType  PROVE IndexInv'
<1> USE DEF PassType, tableVars, lookupVars
<1>1. /\ worklist \in Seq(Types) /\ worklist # <<>> /\ worklist' = SubSeq(worklist, 1, Len(worklist) - 1)
      /\ Current = worklist[Len(worklist)] /\ Current \in visitedTypes
  BY DEF IndexInv, IndexTypeOK, Current
<1>2. /\ worklist' \in Seq(Types) /\ ElementsOf(worklist) \subseteq ElementsOf(worklist') \union {Current}
      /\ ElementsOf(worklist') \subseteq ElementsOf(worklist)
  BY <1>1, PopTop
<1>3. IndexTypeOK'
  BY <1>2 DEF IndexInv, IndexTypeOK
<1>4. IdsExact'
  BY SameTables DEF Naming
<1>5. LoopOK'
  BY DEF IndexInv, LoopOK
<1>6. WalkOK'
  BY <1>1, <1>2 DEF IndexInv, WalkOK, Walking, IsWalked, Root
<1>7. NamesOK'
  BY SameTables DEF Naming
<1> QED BY <1>3, <1>4, <1>5, <1>6, <1>7 DEF IndexInv

LEMMA VisitEndInv ==
  ASSUME IndexInv, VisitEnd  PROVE IndexInv'
<1> USE DEF VisitEnd, loopVars, tableVars, lookupVars
<1>1. IndexTypeOK'
  BY DEF IndexInv, IndexTypeOK
<1>2. IdsExact'
  BY SameTables DEF Naming
<1>3. LoopOK'
  BY IndexData DEF IndexInv, IndexTypeOK, LoopOK
<1>4. WalkOK'
  <2>1. worklist = <<>> /\ ElementsOf(worklist) = {} /\ Walking /\ ~Walking'
    BY DEF ElementsOf, Walking
  <2>2. Within(Root) \subseteq visitedTypes
    <3>1. Root \in visitedTypes /\ visitedTypes \in SUBSET Types /\ \A X \in visitedTypes : SubtypesOf(X) \subseteq visitedTypes
      BY <2>1 DEF IndexInv, IndexTypeOK, WalkOK
    <3> QED BY <3>1, WithinLeast
  <2>3. Within(Root) \intersect Structs \subseteq DOMAIN idStructToVid
    BY <2>1, <2>2 DEF IndexInv, WalkOK
  <2>4. ASSUME NEW v \in 1..Len(ModuleValues), NEW i \in 1..Len(ModuleValues[v].types), IsWalked(v, i)'
        PROVE  IsWalked(v, i) \/ ModuleValues[v].types[i] = Root
    BY <2>1, <2>4 DEF IsWalked, Root, IndexInv, IndexTypeOK
  <2> QED BY <2>1, <2>3, <2>4 DEF IndexInv, WalkOK
<1>5. NamesOK'
  BY SameTables DEF Naming
<1> QED BY <1>1, <1>2, <1>3, <1>4, <1>5 DEF IndexInv

LEMMA EntryFields ==
  ASSUME NEW n, NEW id, NEW real
  PROVE  Entry(n, id, real).name = n /\ Entry(n, id, real).id = id /\ Entry(n, id, real).isRealName = real
  BY DEF Entry

LEMMA EntryEqual ==
  ASSUME NEW n, NEW id, NEW real, NEW m, NEW jd, NEW other
  PROVE  Entry(n, id, real) = Entry(m, jd, other) <=> n = m /\ id = jd /\ real = other
  BY DEF Entry

LEMMA EntryTyped ==
  ASSUME NEW n \in Names, NEW id \in Nat, NEW real \in BOOLEAN
  PROVE  Entry(n, id, real) \in [name : Names, id : Nat, isRealName : BOOLEAN]
  BY DEF Entry

LEMMA GivenGrows ==
  ASSUME IndexInv, ~Naming
  PROVE  /\ vidCnt \notin DOMAIN vidToValue /\ vidCnt \notin DOMAIN vidToIdStruct
         /\ vidCnt \notin Given /\ Given \union {vidCnt} = 0..vidCnt /\ Given = 0..(vidCnt - 1)
         /\ \A id \in DOMAIN vidToValue : id \in Given /\ id < vidCnt
<1>1. vidCnt \in Nat /\ Given = 0..(vidCnt - 1)
  BY DEF IndexInv, IndexTypeOK, Given
<1>2. vidCnt \notin Given /\ Given \union {vidCnt} = 0..vidCnt /\ \A id \in Given : id < vidCnt
  BY <1>1
<1>3. DOMAIN vidToValue \union DOMAIN vidToIdStruct = Given
  BY DEF IndexInv, IdsExact
<1> QED BY <1>1, <1>2, <1>3

LEMMA NamesBegin ==
  ASSUME IndexInv, ~Naming, Naming', UNCHANGED vidCnt, NEW real \in Names, NEW start,
         entries' = entries \union {Entry(real, vidCnt, TRUE)}, label' = start,
         \A id \in Given : /\ IsNamed(id)' <=> IsNamed(id)
                           /\ RealName(id)' = RealName(id) /\ StartName(id)' = StartName(id),
         \A id : id = vidCnt => IsNamed(id)' /\ RealName(id)' = real /\ StartName(id)' = start
  PROVE  NamesOK'
<1>1. /\ vidCnt \in Nat /\ Given = 0..(vidCnt - 1) /\ vidCnt \notin Given /\ Given' = Given \union {vidCnt}
      /\ \A e \in entries : e.id \in Given
  BY GivenGrows DEF IndexInv, NamesOK, Given, IndexTypeOK
<1>2. \A n : Entry(n, vidCnt, TRUE) \notin entries /\ Entry(n, vidCnt, FALSE) \notin entries
  BY <1>1 DEF Entry
<1>3. ASSUME NEW id \in Given, NEW n
      PROVE  /\ Entry(n, id, TRUE) \in entries' <=> Entry(n, id, TRUE) \in entries
             /\ Entry(n, id, FALSE) \in entries' <=> Entry(n, id, FALSE) \in entries
  BY <1>1 DEF Entry
<1>4. \A n : /\ Entry(n, vidCnt, TRUE) \in entries' <=> n = real
             /\ Entry(n, vidCnt, FALSE) \notin entries'
  BY <1>2 DEF Entry
<1>5. (\A e \in entries : e.id \in Given)'
  BY <1>1 DEF Entry
<1>6. ASSUME NEW id \in Given', NEW n \in Names
      PROVE  (Entry(n, id, TRUE) \in entries <=> IsNamed(id) /\ n = RealName(id))'
  <2>1. CASE id \in Given
    <3>1. Entry(n, id, TRUE) \in entries <=> IsNamed(id) /\ n = RealName(id)
      BY <2>1 DEF IndexInv, NamesOK
    <3>2. IsNamed(id)' <=> IsNamed(id)
      BY <2>1
    <3>3. RealName(id)' = RealName(id)
      BY <2>1
    <3>4. Entry(n, id, TRUE) \in entries' <=> Entry(n, id, TRUE) \in entries
      BY <2>1, <1>3
    <3> QED BY <3>1, <3>2, <3>3, <3>4
  <2>2. CASE id = vidCnt
    BY <2>2, <1>4
  <2> QED BY <1>1, <1>6, <2>1, <2>2
<1>7. ASSUME NEW id \in 0..(vidCnt' - 1), NEW n \in Names
      PROVE  (Entry(n, id, FALSE) \in entries <=> IsNamed(id) /\ n # RealName(id) /\ n \in Suffixes[StartName(id)])'
  <2>1. id \in Given /\ id \in 0..(vidCnt - 1)
    BY <1>1
  <2>2. Entry(n, id, FALSE) \in entries <=> IsNamed(id) /\ n # RealName(id) /\ n \in Suffixes[StartName(id)]
    BY <2>1 DEF IndexInv, NamesOK
  <2>3. IsNamed(id)' <=> IsNamed(id)
    BY <2>1
  <2>4. RealName(id)' = RealName(id) /\ StartName(id)' = StartName(id)
    BY <2>1
  <2>5. Entry(n, id, FALSE) \in entries' <=> Entry(n, id, FALSE) \in entries
    BY <2>1, <1>3
  <2> QED BY <2>2, <2>3, <2>4, <2>5
<1>8. \A id : id = vidCnt' => \A n \in Names : n # RealName(id)' =>
        (n \in Suffixes[StartName(id)'] <=> Entry(n, id, FALSE) \in entries' \/ n \in Suffixes[label'])
  BY <1>4
<1>9. \A id : id = vidCnt' => Entry(RealName(id)', id, FALSE) \notin entries'
  BY <1>4
<1> QED BY <1>5, <1>6, <1>7, <1>8, <1>9 DEF NamesOK

LEMMA VisitTypeInv ==
  ASSUME IndexInv, VisitType  PROVE IndexInv'
<1> DEFINE C == Current  real == StructName[C]
<1>1. /\ worklist \in Seq(Types) /\ worklist # <<>> /\ C = worklist[Len(worklist)]
      /\ worklist' = SubSeq(worklist, 1, Len(worklist) - 1) \o Subtypes[C]
      /\ indexStep = "visit" /\ indexStep' \in {"visit", "nameStruct"}
      /\ visitedTypes' = visitedTypes \union {C} /\ visitedTypes \subseteq Types
      /\ UNCHANGED <<value, typeAt, vidCnt, vidToValue, valueToVid, silencing>>
  BY DEF VisitType, lookupVars, IndexInv, IndexTypeOK, Current
<1>2. C \in Types /\ C \in ElementsOf(worklist)
  BY <1>1, PopTop
<1>3. Subtypes[C] \in Seq(Types) /\ SubtypesOf(C) = ElementsOf(Subtypes[C])
  BY <1>2, SubtypesSeq
<1>4. /\ worklist' \in Seq(Types)
      /\ ElementsOf(worklist) \subseteq ElementsOf(worklist') \union {C}
      /\ ElementsOf(worklist') \subseteq ElementsOf(worklist) \union SubtypesOf(C)
      /\ SubtypesOf(C) \subseteq ElementsOf(worklist')
  <2> HIDE DEF C
  <2> QED BY <1>1, <1>3, PopAndPush
<1>5. ~Naming /\ Walking /\ Walking'
  BY <1>1 DEF Naming, Walking
<1>6. value \in 1..Len(ModuleValues) /\ typeAt - 1 \in 1..Len(ModuleValues[value].types)
  BY <1>1 DEF IndexInv, LoopOK
<1>7. Root \in Types /\ Root' = Root
  BY <1>1, <1>6, IndexData DEF Root
<1>8. ASSUME DOMAIN idStructToVid \subseteq DOMAIN idStructToVid',
             DOMAIN idStructToVid' \subseteq DOMAIN idStructToVid \union ({C} \intersect Structs),
             {C} \intersect Structs \subseteq DOMAIN idStructToVid'
      PROVE  WalkOK'
  <2> HIDE DEF C
  <2>1. C \in Within(Root) /\ SubtypesOf(C) \subseteq Within(Root)
    BY <1>2, <1>5, <1>7, WithinFacts DEF IndexInv, WalkOK
  <2>2. C \in Structs => C \in UsedStructs
    BY <2>1, <1>6, IndexData DEF UsedStructs, Root
  <2>3. (DOMAIN idStructToVid \subseteq UsedStructs)'
    BY <1>8, <2>2 DEF IndexInv, WalkOK
  <2>4. \A v, i : IsWalked(v, i)' => IsWalked(v, i)
    BY <1>1, <1>5 DEF IsWalked
  <2>5. (\A v \in 1..Len(ModuleValues) : \A i \in 1..Len(ModuleValues[v].types) :
           IsWalked(v, i) => Within(ModuleValues[v].types[i]) \intersect Structs \subseteq DOMAIN idStructToVid)'
    BY <1>8, <2>4 DEF IndexInv, WalkOK
  <2>6. Root' \in visitedTypes' \union ElementsOf(worklist')
    BY <1>1, <1>4, <1>5, <1>7 DEF IndexInv, WalkOK
  <2>7. \A X \in visitedTypes' : SubtypesOf(X) \subseteq visitedTypes' \union ElementsOf(worklist')
    BY <1>1, <1>4, <1>5 DEF IndexInv, WalkOK
  <2>8. visitedTypes' \union ElementsOf(worklist') \subseteq Within(Root')
    BY <1>1, <1>4, <1>5, <1>7, <2>1 DEF IndexInv, WalkOK
  <2>9. visitedTypes' \intersect Structs \subseteq DOMAIN idStructToVid'
    BY <1>1, <1>5, <1>8 DEF IndexInv, WalkOK
  <2> QED BY <2>3, <2>5, <2>6, <2>7, <2>8, <2>9 DEF WalkOK
<1>9. CASE C \in Structs \ DOMAIN idStructToVid
  <2>1. /\ idStructToVid' = Bind(idStructToVid, C, vidCnt) /\ vidToIdStruct' = Bind(vidToIdStruct, vidCnt, C)
        /\ entries' = entries \union {Entry(real, vidCnt, TRUE)} /\ label' = Stripped[real]
        /\ indexStep' = "nameStruct"
    BY <1>9 DEF VisitType, NameBy
  <2> HIDE DEF C
  <2>2. real \in Names /\ Stripped[real] \in Names
    BY <1>9, IndexData
  <2>3. /\ vidCnt \in Nat /\ vidCnt \notin DOMAIN vidToValue /\ vidCnt \notin DOMAIN vidToIdStruct
        /\ vidCnt \notin Given /\ Given \union {vidCnt} = 0..vidCnt
    BY <1>5, GivenGrows DEF IndexInv, IndexTypeOK
  <2>4. /\ DOMAIN vidToIdStruct' = DOMAIN vidToIdStruct \union {vidCnt} /\ vidToIdStruct'[vidCnt] = C
        /\ \A id \in DOMAIN vidToIdStruct : vidToIdStruct'[id] = vidToIdStruct[id]
        /\ DOMAIN idStructToVid' = DOMAIN idStructToVid \union {C}
    BY <2>1, <2>3 DEF Bind
  <2>5. Naming' /\ Given' = Given \union {vidCnt}
    BY <1>1, <2>1, <2>3 DEF Naming, Given
  <2>6. IndexTypeOK'
    <3>1. \A id \in DOMAIN vidToIdStruct' : vidToIdStruct'[id] \in Structs
      BY <1>9, <2>4 DEF IndexInv, IndexTypeOK
    <3>2. entries' \subseteq [name : Names, id : Nat, isRealName : BOOLEAN]
      <4>1. Entry(real, vidCnt, TRUE) \in [name : Names, id : Nat, isRealName : BOOLEAN]
        BY <2>2, <2>3, EntryTyped
      <4> QED BY <2>1, <4>1 DEF IndexInv, IndexTypeOK
    <3> QED BY <1>1, <1>2, <1>4, <2>1, <2>2, <3>1, <3>2 DEF IndexInv, IndexTypeOK
  <2>7. IdsExact'
    <3>1. AreInverse(vidToIdStruct, idStructToVid)'
      <4>1. AreInverse(Bind(vidToIdStruct, vidCnt, C), Bind(idStructToVid, C, vidCnt))
        BY <1>9, <2>3, PairAdded DEF IndexInv, IdsExact
      <4> QED BY <2>1, <4>1
    <3>2. DOMAIN vidToValue' \union DOMAIN vidToIdStruct' = Given'
      BY <1>1, <2>4, <2>5 DEF IndexInv, IdsExact
    <3>3. DOMAIN vidToValue' \intersect DOMAIN vidToIdStruct' = {}
      BY <1>1, <2>3, <2>4 DEF IndexInv, IdsExact
    <3>4. AreInverse(vidToValue, valueToVid)'
      BY <1>1 DEF IndexInv, IdsExact
    <3> QED BY <1>1, <3>1, <3>2, <3>3, <3>4 DEF IndexInv, IdsExact
  <2>8. LoopOK'
    BY <1>1, <1>6, <2>1, <2>4 DEF IndexInv, LoopOK
  <2>9. WalkOK'
    BY <1>8, <1>9, <2>4
  <2>10. NamesOK'
    <3>1. \A id \in Given : id # vidCnt /\ (id \in DOMAIN vidToIdStruct' <=> id \in DOMAIN vidToIdStruct)
      BY <2>3, <2>4
    <3>2. \A id \in Given : /\ IsNamed(id)' <=> IsNamed(id)
                            /\ RealName(id)' = RealName(id) /\ StartName(id)' = StartName(id)
      BY <1>1, <2>4, <3>1 DEF IsNamed, RealName, StartName
    <3>3. \A id : id = vidCnt => IsNamed(id)' /\ RealName(id)' = real /\ StartName(id)' = Stripped[real]
      BY <2>4 DEF IsNamed, RealName, StartName
    <3> HIDE DEF real
    <3> QED BY <1>1, <1>5, <2>1, <2>2, <2>5, <3>2, <3>3, NamesBegin
  <2> QED BY <2>6, <2>7, <2>8, <2>9, <2>10 DEF IndexInv
<1>10. CASE C \notin Structs \ DOMAIN idStructToVid
  <2>1. UNCHANGED <<idStructToVid, vidToIdStruct, entries, label, indexStep>>
    BY <1>10 DEF VisitType
  <2> HIDE DEF C
  <2>2. IdsExact' /\ NamesOK'
    BY <1>1, <2>1, SameTables DEF tableVars, Naming
  <2>3. WalkOK'
    BY <1>8, <1>10, <2>1
  <2>4. IndexTypeOK'
    BY <1>1, <1>2, <1>4, <2>1 DEF IndexInv, IndexTypeOK
  <2>5. LoopOK'
    BY <1>1, <2>1 DEF IndexInv, LoopOK
  <2> QED BY <2>2, <2>3, <2>4, <2>5 DEF IndexInv
<1> QED BY <1>9, <1>10

LEMMA NumberValueInv ==
  ASSUME IndexInv, NumberValue  PROVE IndexInv'
<1> DEFINE real == ModuleValues[value].name
<1>1. /\ value \in 1..Len(ModuleValues) /\ typeAt > Len(ModuleValues[value].types)
      /\ indexStep = "types" /\ typeAt \in Nat \ {0} /\ Len(ModuleValues[value].types) \in Nat
      /\ vidToValue' = Bind(vidToValue, vidCnt, value) /\ valueToVid' = Bind(valueToVid, value, vidCnt)
      /\ UNCHANGED <<worklist, visitedTypes, vidToIdStruct, idStructToVid, silencing>>
      /\ real \in Names /\ Demangled[real] \in Names
  <2>1. /\ indexStep = "types" /\ value <= Len(ModuleValues) /\ typeAt > Len(ModuleValues[value].types)
        /\ vidToValue' = Bind(vidToValue, vidCnt, value) /\ valueToVid' = Bind(valueToVid, value, vidCnt)
        /\ UNCHANGED <<worklist, visitedTypes, vidToIdStruct, idStructToVid, silencing>>
    BY DEF NumberValue, lookupVars
  <2>2. value \in 1..Len(ModuleValues) /\ typeAt \in Nat \ {0}
    BY <2>1, IndexData DEF IndexInv, IndexTypeOK
  <2>3. real \in Names /\ ModuleValues[value].types \in Seq(Types)
    BY <2>2, IndexData
  <2>4. Len(ModuleValues[value].types) \in Nat
    BY <2>3
  <2>5. Demangled[real] \in Names
    BY <2>3, IndexData
  <2> QED BY <2>1, <2>2, <2>3, <2>4, <2>5
<1>2. ~Naming /\ ~Walking
  BY <1>1 DEF Naming, Walking
<1>3. /\ vidCnt \in Nat /\ vidCnt \notin DOMAIN vidToValue /\ vidCnt \notin DOMAIN vidToIdStruct
      /\ vidCnt \notin Given /\ Given \union {vidCnt} = 0..vidCnt /\ Given = 0..(vidCnt - 1)
      /\ \A id \in DOMAIN vidToValue : id \in Given /\ id < vidCnt
  BY <1>2, GivenGrows DEF IndexInv, IndexTypeOK
<1>4. DOMAIN valueToVid = 1..(value - 1) /\ value \notin DOMAIN valueToVid
  BY <1>1 DEF IndexInv, LoopOK
<1>5. /\ DOMAIN vidToValue' = DOMAIN vidToValue \union {vidCnt} /\ vidToValue'[vidCnt] = value
      /\ \A id \in DOMAIN vidToValue : vidToValue'[id] = vidToValue[id]
      /\ DOMAIN valueToVid' = DOMAIN valueToVid \union {value}
  BY <1>1, <1>3, <1>4 DEF Bind
<1>6. DOMAIN valueToVid' = 1..value
  BY <1>1, <1>4, <1>5
<1>7. \A id \in DOMAIN vidToValue : vidToValue[id] \in 1..(value - 1) /\ vidToValue[id] < value
  <2> SUFFICES ASSUME NEW id \in DOMAIN vidToValue  PROVE vidToValue[id] \in 1..(value - 1) /\ vidToValue[id] < value
    OBVIOUS
  <2>1. vidToValue[id] \in 1..(value - 1)
    BY <1>4 DEF IndexInv, IdsExact, AreInverse
  <2> QED BY <1>1, <2>1
<1>8. ASSUME Given' = Given \union {vidCnt}  PROVE IdsExact'
  <2>1. AreInverse(vidToValue, valueToVid)'
    <3>1. AreInverse(Bind(vidToValue, vidCnt, value), Bind(valueToVid, value, vidCnt))
      BY <1>3, <1>4, PairAdded DEF IndexInv, IdsExact
    <3> QED BY <1>1, <3>1
  <2>2. DOMAIN vidToValue' \union DOMAIN vidToIdStruct' = Given'
    BY <1>1, <1>5, <1>8 DEF IndexInv, IdsExact
  <2>3. DOMAIN vidToValue' \intersect DOMAIN vidToIdStruct' = {}
    BY <1>1, <1>3, <1>5 DEF IndexInv, IdsExact
  <2>4. AreInverse(vidToIdStruct, idStructToVid)'
    BY <1>1 DEF IndexInv, IdsExact
  <2>5. (\A id, jd \in DOMAIN vidToValue : id < jd => vidToValue[id] < vidToValue[jd])'
    <3> SUFFICES ASSUME NEW id \in DOMAIN vidToValue', NEW jd \in DOMAIN vidToValue', id < jd
                 PROVE  vidToValue'[id] < vidToValue'[jd]
      OBVIOUS
    <3>1. id # vidCnt /\ id \in DOMAIN vidToValue
      <4>1. jd \in 0..vidCnt
        BY <1>3, <1>5
      <4> QED BY <1>3, <1>5, <4>1
    <3>2. CASE jd = vidCnt
      BY <1>5, <1>7, <3>1, <3>2
    <3>3. CASE jd \in DOMAIN vidToValue
      BY <1>5, <3>1, <3>3 DEF IndexInv, IdsExact
    <3> QED BY <1>5, <3>2, <3>3
  <2> QED BY <2>1, <2>2, <2>3, <2>4, <2>5 DEF IdsExact
<1>9. \A id \in DOMAIN vidToValue' : vidToValue'[id] \in 1..Len(ModuleValues)
  BY <1>1, <1>5 DEF IndexInv, IndexTypeOK
<1>10. ASSUME NEW id \in Given
       PROVE  /\ IsNamed(id)' <=> IsNamed(id)
              /\ RealName(id)' = RealName(id) /\ StartName(id)' = StartName(id)
  <2>1. id # vidCnt /\ (id \in DOMAIN vidToIdStruct \/ id \in DOMAIN vidToValue)
    BY <1>3 DEF IndexInv, IdsExact
  <2>2. CASE id \in DOMAIN vidToIdStruct
    BY <2>2, <1>1 DEF IsNamed, RealName, StartName
  <2>3. CASE id \notin DOMAIN vidToIdStruct
    <3>1. vidToValue'[id] = vidToValue[id]
      BY <1>5, <2>1, <2>3
    <3> QED BY <2>3, <3>1, <1>1 DEF IsNamed, RealName, StartName
  <2> QED BY <2>2, <2>3
<1>11. \A id : id = vidCnt =>
         (IsNamed(id)' <=> IsGlobal(value)) /\ RealName(id)' = real /\ StartName(id)' = Demangled[real]
  BY <1>1, <1>3, <1>5 DEF IsNamed, RealName, StartName
<1>12. CASE IsGlobal(value)
  <2>1. /\ entries' = entries \union {Entry(real, vidCnt, TRUE)} /\ label' = Demangled[real]
        /\ indexStep' = "nameValue" /\ UNCHANGED <<vidCnt, value, typeAt>>
    BY <1>12 DEF NumberValue, NameBy
  <2> HIDE DEF real
  <2>2. Naming' /\ ~Walking' /\ Given' = Given \union {vidCnt}
    BY <1>3, <2>1 DEF Naming, Walking, Given
  <2>3. IndexTypeOK'
    <3>1. Entry(real, vidCnt, TRUE) \in [name : Names, id : Nat, isRealName : BOOLEAN]
      BY <1>1, <1>3, EntryTyped
    <3> QED BY <1>1, <1>9, <2>1, <3>1 DEF IndexInv, IndexTypeOK
  <2>4. LoopOK'
    <3>1. IsGlobal(value)'
      BY <1>12, <2>1 DEF IsGlobal
    <3> QED BY <1>1, <1>5, <1>6, <2>1, <3>1 DEF LoopOK
  <2>5. WalkOK'
    <3>1. \A v, i : IsWalked(v, i)' <=> IsWalked(v, i)
      BY <1>2, <2>1, <2>2 DEF IsWalked
    <3> QED BY <1>1, <2>2, <3>1 DEF IndexInv, WalkOK
  <2>6. NamesOK'
    BY <1>1, <1>2, <1>10, <1>11, <1>12, <2>1, <2>2, NamesBegin
  <2> QED BY <1>8, <2>2, <2>3, <2>4, <2>5, <2>6 DEF IndexInv
<1>13. CASE ~IsGlobal(value)
  <2>1. /\ vidCnt' = vidCnt + 1 /\ value' = value + 1 /\ typeAt' = 1
        /\ UNCHANGED <<entries, label, indexStep>>
    BY <1>13 DEF NumberValue, NextId, NextValue
  <2>2. ~Naming' /\ ~Walking' /\ Given' = 0..vidCnt /\ Given' = Given \union {vidCnt}
    <3>1. vidCnt' - 1 = vidCnt
      BY <1>3, <2>1
    <3>2. ~Naming' /\ ~Walking'
      BY <1>1, <2>1 DEF Naming, Walking
    <3> QED BY <1>3, <3>1, <3>2 DEF Given
  <2>3. IndexTypeOK'
    BY <1>1, <1>3, <1>9, <2>1 DEF IndexInv, IndexTypeOK
  <2>4. LoopOK'
    <3>1. value' - 1 = value
      BY <1>1, <2>1
    <3> QED BY <1>1, <1>6, <2>1, <3>1 DEF LoopOK
  <2>5. WalkOK'
    <3>1. ASSUME NEW v \in 1..Len(ModuleValues), NEW i \in 1..Len(ModuleValues[v].types), IsWalked(v, i)'
          PROVE  IsWalked(v, i)
      <4>1. Len(ModuleValues[v].types) \in Nat
        BY IndexData
      <4>2. i \in Nat \ {0} /\ v \in Nat
        BY <4>1
      <4>3. v < value + 1
        BY <1>1, <2>1, <2>2, <3>1, <4>2 DEF IsWalked
      <4>4. v < value \/ v = value
        BY <1>1, <4>2, <4>3
      <4> QED BY <1>1, <1>2, <4>2, <4>4 DEF IsWalked
    <3> QED BY <1>1, <2>2, <3>1 DEF IndexInv, WalkOK
  <2>6. NamesOK'
    <3>1. (\A e \in entries : e.id \in Given)'
      BY <2>1, <2>2 DEF IndexInv, NamesOK
    <3>2. \A n : Entry(n, vidCnt, TRUE) \notin entries /\ Entry(n, vidCnt, FALSE) \notin entries
      BY <1>3 DEF Entry, IndexInv, NamesOK
    <3>3. ASSUME NEW id \in Given', NEW n \in Names
          PROVE  /\ (Entry(n, id, TRUE) \in entries <=> IsNamed(id) /\ n = RealName(id))'
                 /\ (Entry(n, id, FALSE) \in entries
                       <=> IsNamed(id) /\ n # RealName(id) /\ n \in Suffixes[StartName(id)])'
      <4>1. CASE id \in Given
        <5>1. /\ Entry(n, id, TRUE) \in entries <=> IsNamed(id) /\ n = RealName(id)
              /\ Entry(n, id, FALSE) \in entries
                   <=> IsNamed(id) /\ n # RealName(id) /\ n \in Suffixes[StartName(id)]
          BY <1>3, <4>1 DEF IndexInv, NamesOK
        <5> QED BY <1>10, <2>1, <4>1, <5>1
      <4>2. CASE id = vidCnt
        BY <1>11, <1>13, <2>1, <3>2, <4>2
      <4> QED BY <2>2, <4>1, <4>2
    <3>4. Given' = 0..(vidCnt' - 1)
      BY <2>2 DEF Given
    <3> QED BY <2>2, <3>1, <3>3, <3>4 DEF NamesOK
  <2> QED BY <1>8, <2>2, <2>3, <2>4, <2>5, <2>6 DEF IndexInv
<1> QED BY <1>12, <1>13

LEMMA LabelAdded ==
  ASSUME IndexInv, Naming, AddLabel, NEW n \in Names
  PROVE  /\ \A id \in Given : Entry(n, id, TRUE) \in entries' <=> Entry(n, id, TRUE) \in entries
         /\ \A id \in 0..(vidCnt - 1) : Entry(n, id, FALSE) \in entries' <=> Entry(n, id, FALSE) \in entries
         /\ n # RealName(vidCnt) =>
              (Entry(n, vidCnt, FALSE) \in entries' <=> Entry(n, vidCnt, FALSE) \in entries \/ n = label)
         /\ Entry(RealName(vidCnt), vidCnt, FALSE) \in entries' <=> Entry(RealName(vidCnt), vidCnt, FALSE) \in entries
         /\ \A e \in entries' : e.id \in Given
         /\ entries' \subseteq [name : Names, id : Nat, isRealName : BOOLEAN]
<1>1. vidCnt \in Nat /\ Given = 0..vidCnt /\ label \in Names
  BY DEF IndexInv, IndexTypeOK, Given
<1>2. entries' = entries \union (IF label = RealName(vidCnt) THEN {} ELSE {Entry(label, vidCnt, FALSE)})
  BY DEF AddLabel
<1>3. \A id \in Given : Entry(n, id, TRUE) # Entry(label, vidCnt, FALSE)
  BY DEF Entry
<1>4. \A id \in 0..(vidCnt - 1) : Entry(n, id, FALSE) # Entry(label, vidCnt, FALSE)
  BY <1>1 DEF Entry
<1>5. Entry(n, vidCnt, FALSE) = Entry(label, vidCnt, FALSE) <=> n = label
  BY DEF Entry
<1>6. Entry(label, vidCnt, FALSE).id \in Given
  BY <1>1 DEF Entry
<1>7. Entry(label, vidCnt, FALSE) \in [name : Names, id : Nat, isRealName : BOOLEAN]
  BY <1>1, EntryTyped
<1>8. \A e \in entries : e.id \in Given
  BY DEF IndexInv, NamesOK
<1>9. entries \subseteq [name : Names, id : Nat, isRealName : BOOLEAN]
  BY DEF IndexInv, IndexTypeOK
<1>10. Entry(RealName(vidCnt), vidCnt, FALSE) = Entry(label, vidCnt, FALSE) => label = RealName(vidCnt)
  BY DEF Entry
<1> QED BY <1>2, <1>3, <1>4, <1>5, <1>6, <1>7, <1>8, <1>9, <1>10

LEMMA NameInnerInv ==
  ASSUME IndexInv, NameInner  PROVE IndexInv'
<1> USE DEF lookupVars
<1>1. /\ Naming /\ Inner[label] # NoName /\ label' = Inner[label] /\ AddLabel /\ label \in Names
      /\ UNCHANGED <<indexStep, value, typeAt, worklist, visitedTypes, vidCnt, vidToValue, valueToVid,
                     vidToIdStruct, idStructToVid, lookupVars>>
  BY DEF NameInner, IndexInv, IndexTypeOK
<1>2. label' \in Names /\ Suffixes[label] = {label} \union Suffixes[label']
  BY <1>1, IndexData
<1>3. Given' = Given /\ (Naming' <=> Naming)
  BY <1>1 DEF Given, Naming
<1>4. IndexTypeOK'
  <2>1. entries' \subseteq [name : Names, id : Nat, isRealName : BOOLEAN]
    BY <1>1, LabelAdded
  <2> QED BY <1>1, <1>2, <2>1 DEF IndexInv, IndexTypeOK
<1>5. IdsExact'
  BY <1>1, <1>3 DEF IndexInv, IdsExact, AreInverse
<1>6. LoopOK'
  BY <1>1 DEF IndexInv, LoopOK
<1>7. WalkOK'
  BY <1>1 DEF IndexInv, WalkOK, Walking, IsWalked, Root
<1>8. NamesOK'
  <2>1. \A id : (IsNamed(id)' <=> IsNamed(id)) /\ RealName(id)' = RealName(id) /\ StartName(id)' = StartName(id)
    BY <1>1 DEF IsNamed, RealName, StartName
  <2>2. (\A e \in entries : e.id \in Given)'
    BY <1>1, <1>3, LabelAdded, IndexData
  <2>3. (\A id \in Given, n \in Names : Entry(n, id, TRUE) \in entries <=> IsNamed(id) /\ n = RealName(id))'
    BY <1>1, <1>3, <2>1, LabelAdded DEF IndexInv, NamesOK
  <2>4. (\A id \in 0..(vidCnt - 1), n \in Names :
           Entry(n, id, FALSE) \in entries <=> IsNamed(id) /\ n # RealName(id) /\ n \in Suffixes[StartName(id)])'
    BY <1>1, <2>1, LabelAdded DEF IndexInv, NamesOK
  <2>5. \A n \in Names : n # RealName(vidCnt) =>
          (n \in Suffixes[StartName(vidCnt)] <=> Entry(n, vidCnt, FALSE) \in entries' \/ n \in Suffixes[label'])
    BY <1>1, <1>2, LabelAdded DEF IndexInv, NamesOK
  <2>6. RealName(vidCnt)' = RealName(vidCnt) /\ StartName(vidCnt)' = StartName(vidCnt)
    BY <1>1 DEF IsNamed, RealName, StartName
  <2>7. Entry(RealName(vidCnt), vidCnt, FALSE) \notin entries'
    BY <1>1, LabelAdded, IndexData DEF IndexInv, NamesOK
  <2> QED BY <1>1, <2>2, <2>3, <2>4, <2>5, <2>6, <2>7 DEF NamesOK
<1> QED BY <1>4, <1>5, <1>6, <1>7, <1>8 DEF IndexInv

LEMMA NameLastInv ==
  ASSUME IndexInv, NameLast  PROVE IndexInv'
<1> USE DEF lookupVars
<1>1. /\ Naming /\ Inner[label] = NoName /\ AddLabel /\ label \in Names /\ vidCnt' = vidCnt + 1 /\ vidCnt \in Nat
      /\ UNCHANGED <<worklist, visitedTypes, label, vidToValue, valueToVid, vidToIdStruct, idStructToVid, lookupVars>>
  BY DEF NameLast, NextId, IndexInv, IndexTypeOK
<1>2. Suffixes[label] = {label}
  BY <1>1, IndexData
<1>3. \/ indexStep = "nameValue" /\ value' = value + 1 /\ typeAt' = 1 /\ indexStep' = "types"
      \/ indexStep = "nameStruct" /\ UNCHANGED <<value, typeAt>> /\ indexStep' = "visit"
  BY DEF NameLast, NextValue, Naming
<1>4. ~Naming' /\ vidCnt' - 1 = vidCnt /\ Given = 0..vidCnt /\ Given' = 0..vidCnt
  <2>1. ~Naming' /\ vidCnt' - 1 = vidCnt
    BY <1>1, <1>3 DEF Naming
  <2> QED BY <1>1, <2>1 DEF Given
<1>5. value \in 1..Len(ModuleValues) /\ typeAt \in Nat \ {0}
  BY <1>3 DEF IndexInv, LoopOK, IndexTypeOK
<1>6. IndexTypeOK'
  <2>1. entries' \subseteq [name : Names, id : Nat, isRealName : BOOLEAN]
    BY <1>1, LabelAdded
  <2>2. value' \in 1..(Len(ModuleValues) + 1) /\ typeAt' \in Nat \ {0}
    BY <1>3, <1>5, IndexData
  <2> QED BY <1>1, <1>3, <2>1, <2>2 DEF IndexInv, IndexTypeOK
<1>7. IdsExact'
  BY <1>1, <1>4 DEF IndexInv, IdsExact, AreInverse
<1>8. LoopOK'
  <2>1. CASE indexStep = "nameValue"
    <3>1. value' - 1 = value /\ indexStep' = "types"
      BY <1>3, <1>5, <2>1
    <3> QED BY <1>1, <2>1, <3>1 DEF IndexInv, LoopOK
  <2>2. CASE indexStep = "nameStruct"
    BY <1>1, <1>3, <2>2 DEF IndexInv, LoopOK
  <2> QED BY <1>3, <2>1, <2>2
<1>9. WalkOK'
  <2>1. CASE indexStep = "nameValue"
    <3>1. ~Walking /\ ~Walking' /\ value' = value + 1 /\ typeAt' = 1 /\ typeAt > Len(ModuleValues[value].types)
      BY <1>3, <2>1 DEF Walking, IndexInv, LoopOK
    <3>2. ASSUME NEW v \in 1..Len(ModuleValues), NEW i \in 1..Len(ModuleValues[v].types), IsWalked(v, i)'
          PROVE  IsWalked(v, i)
      <4>1. Len(ModuleValues[v].types) \in Nat
        BY IndexData
      <4>2. i \in Nat \ {0} /\ v \in Nat
        BY <4>1
      <4>3. v < value + 1
        BY <3>1, <3>2, <1>5, <4>2 DEF IsWalked
      <4>4. v < value \/ v = value
        BY <1>5, <4>2, <4>3
      <4> QED BY <1>5, <3>1, <4>1, <4>2, <4>4 DEF IsWalked
    <3> QED BY <1>1, <3>1, <3>2 DEF IndexInv, WalkOK
  <2>2. CASE indexStep = "nameStruct"
    <3>1. Walking /\ Walking' /\ UNCHANGED <<value, typeAt>>
      BY <1>3, <2>2 DEF Walking
    <3> QED BY <1>1, <3>1 DEF IndexInv, WalkOK, IsWalked, Root
  <2> QED BY <1>3, <2>1, <2>2
<1>10. NamesOK'
  <2>1. \A id : (IsNamed(id)' <=> IsNamed(id)) /\ RealName(id)' = RealName(id) /\ StartName(id)' = StartName(id)
    BY <1>1 DEF IsNamed, RealName, StartName
  <2>2. (\A e \in entries : e.id \in Given)'
    BY <1>1, <1>4, LabelAdded, IndexData
  <2>3. (\A id \in Given, n \in Names : Entry(n, id, TRUE) \in entries <=> IsNamed(id) /\ n = RealName(id))'
    BY <1>1, <1>4, <2>1, LabelAdded DEF IndexInv, NamesOK
  <2>4. IsNamed(vidCnt)
    BY <1>3 DEF IndexInv, LoopOK, IsNamed
  <2>5. Entry(RealName(vidCnt), vidCnt, FALSE) \notin entries'
    BY <1>1, LabelAdded, IndexData DEF IndexInv, NamesOK
  <2>6. ASSUME NEW id \in 0..(vidCnt' - 1), NEW n \in Names
        PROVE  (Entry(n, id, FALSE) \in entries
                  <=> IsNamed(id) /\ n # RealName(id) /\ n \in Suffixes[StartName(id)])'
    <3>1. CASE id \in 0..(vidCnt - 1)
      BY <1>1, <2>1, <3>1, LabelAdded DEF IndexInv, NamesOK
    <3>2. CASE id = vidCnt /\ n # RealName(vidCnt)
      BY <1>1, <1>2, <2>1, <2>4, <3>2, LabelAdded DEF IndexInv, NamesOK
    <3>3. CASE id = vidCnt /\ n = RealName(vidCnt)
      BY <2>1, <2>5, <3>3
    <3>4. id \in 0..(vidCnt - 1) \/ id = vidCnt
      BY <1>1, <1>4
    <3> QED BY <3>1, <3>2, <3>3, <3>4
  <2> QED BY <1>4, <2>2, <2>3, <2>6 DEF NamesOK
<1> QED BY <1>6, <1>7, <1>8, <1>9, <1>10 DEF IndexInv

(***************************************************************************)
(* At every point of buildModuleIndex (IRManager.cpp:63), in the middle of *)
(* a walk over the types of a value as well, the ids, the tables and the   *)
(* names are what the module and the place in the loops make them.         *)
(***************************************************************************)
THEOREM IndexInvariant == IndexSpec => []IndexInv
<1>1. IndexInv /\ [IndexNext]_indexVars => IndexInv'
  <2> SUFFICES ASSUME IndexInv, [IndexNext]_indexVars PROVE IndexInv'
    OBVIOUS
  <2>1. CASE BuildIndex
    BY <2>1, LoadModuleInv, RecordTypesInv, PassTypeInv, VisitTypeInv, VisitEndInv, NumberValueInv, NameInnerInv,
       NameLastInv, SortEntriesInv DEF BuildIndex
  <2>2. CASE Inquire
    BY <2>2, SameIndex DEF Inquire, IndexInv, IndexTypeOK
  <2>3. CASE FlipSwitch
    <3>1. silencing' \subseteq Switches
      BY <2>3 DEF FlipSwitch, IndexInv, IndexTypeOK
    <3> QED BY <2>3, <3>1, SameIndex DEF FlipSwitch
  <2>4. CASE UNCHANGED indexVars
    BY <2>4, SameIndex DEF indexVars, lookupVars, IndexInv, IndexTypeOK
  <2> QED BY <2>1, <2>2, <2>3, <2>4 DEF IndexNext
<1> QED BY <1>1, InitIndex, PTL DEF IndexSpec

(***************************************************************************)
(* When the index is there, every value and every named struct type that a *)
(* value's types contain has one id, and each is found by its real name    *)
(* and by every rest of its other name, and by nothing else: whatever the  *)
(* module.                                                                 *)
(***************************************************************************)
THEOREM IndexIsExact == IndexSpec => []IndexExact
<1>2. IndexInv => IndexExact
  <2> SUFFICES ASSUME IndexInv, indexStep = "ready" PROVE AllNumbered /\ NamesExact
    BY DEF IndexInv, IndexExact
  <2>1. value = Len(ModuleValues) + 1 /\ DOMAIN valueToVid = 1..(value - 1)
    BY DEF IndexInv, LoopOK
  <2>2. DOMAIN valueToVid = 1..Len(ModuleValues)
    BY <2>1, IndexData
  <2>3. ASSUME NEW T \in UsedStructs PROVE T \in DOMAIN idStructToVid
    <3>1. PICK v \in 1..Len(ModuleValues) : \E i \in DOMAIN ModuleValues[v].types : T \in Within(ModuleValues[v].types[i])
      BY DEF UsedStructs
    <3>2. DOMAIN ModuleValues[v].types = 1..Len(ModuleValues[v].types)
      BY IndexData
    <3>3. PICK i \in 1..Len(ModuleValues[v].types) : T \in Within(ModuleValues[v].types[i])
      BY <3>1, <3>2
    <3>4. IsWalked(v, i)
      BY <2>1, IndexData DEF IsWalked
    <3> QED BY <3>3, <3>4 DEF IndexInv, WalkOK, UsedStructs
  <2>4. Given = 0..(vidCnt - 1) /\ ~Naming
    BY DEF Given, Naming
  <2> QED BY <2>2, <2>3, <2>4 DEF IndexInv, WalkOK, NamesOK, AllNumbered, NamesExact
<1> QED BY <1>2, IndexInvariant, PTL

Ready == indexStep = "ready" /\ IndexTypeOK /\ IdsExact /\ AllNumbered /\ NamesExact

LEMMA ReadyIds ==
  ASSUME Ready
  PROVE  /\ \A id : IsGiven(id) <=> id \in Given
         /\ \A v \in 1..Len(ModuleValues) : valueToVid[v] \in DOMAIN vidToValue /\ vidToValue[valueToVid[v]] = v
         /\ \A id \in DOMAIN vidToValue : /\ vidToValue[id] \in 1..Len(ModuleValues) /\ valueToVid[vidToValue[id]] = id
                                          /\ id \notin DOMAIN vidToIdStruct /\ id \in Given
         /\ \A T \in UsedStructs : idStructToVid[T] \in DOMAIN vidToIdStruct /\ vidToIdStruct[idStructToVid[T]] = T
         /\ \A id \in DOMAIN vidToIdStruct : /\ vidToIdStruct[id] \in UsedStructs /\ idStructToVid[vidToIdStruct[id]] = id
                                             /\ vidToIdStruct[id] \in Structs
                                             /\ id \notin DOMAIN vidToValue /\ id \in Given
  BY DEF Ready, IsGiven, IdsExact, AreInverse, AllNumbered, IndexTypeOK

\* What an id may be found by.
IsCalled(id, m) == IsNamed(id) /\ m \in {RealName(id)} \union Suffixes[StartName(id)]

LEMMA EntriesCall ==
  ASSUME Ready, NEW id \in Given, NEW m \in Names
  PROVE  (\E e \in entries : e.id = id /\ e.name = m) <=> IsCalled(id, m)
<1>1. /\ Entry(m, id, TRUE) \in entries <=> IsNamed(id) /\ m = RealName(id)
      /\ Entry(m, id, FALSE) \in entries <=> IsNamed(id) /\ m # RealName(id) /\ m \in Suffixes[StartName(id)]
  BY DEF Ready, NamesExact
<1>2. ASSUME NEW e \in entries, e.id = id, e.name = m PROVE e = Entry(m, id, TRUE) \/ e = Entry(m, id, FALSE)
  <2>1. e \in [name : Names, id : Nat, isRealName : BOOLEAN]
    BY DEF Ready, IndexTypeOK
  <2> QED BY <2>1, <1>2 DEF Entry
<1>3. \A b \in BOOLEAN : Entry(m, id, b).id = id /\ Entry(m, id, b).name = m
  BY DEF Entry
<1> QED BY <1>1, <1>2, <1>3 DEF IsCalled

LEMMA ListedCalled ==
  ASSUME Ready, NEW id \in Given, NEW n \in Names
  PROVE  id \in {e.id : e \in Listed(n)} <=> \E m \in Names : IsCalled(id, m) /\ BeginsWith(m, n)
<1>1. \A e \in entries : e.name \in Names
  BY DEF Ready, IndexTypeOK
<1>2. id \in {e.id : e \in Listed(n)} <=> \E e \in entries : e.id = id /\ BeginsWith(e.name, n)
  BY DEF Listed
<1> QED BY <1>1, <1>2, EntriesCall

LEMMA CallNames ==
  ASSUME Ready, NEW n \in Names
  PROVE  /\ \A id \in DOMAIN vidToValue :
              vidToValue[id] \in ValuesCalled(n) <=>
                /\ ~IsHushed(ModuleValues[vidToValue[id]].name)
                /\ \E m \in Names : IsCalled(id, m) /\ BeginsWith(m, n)
         /\ \A id \in DOMAIN vidToIdStruct :
              vidToIdStruct[id] \in StructsCalled(n) <=> \E m \in Names : IsCalled(id, m) /\ BeginsWith(m, n)
<1>1. ASSUME NEW id \in DOMAIN vidToValue
      PROVE  vidToValue[id] \in ValuesCalled(n) <=>
                /\ ~IsHushed(ModuleValues[vidToValue[id]].name)
                /\ \E m \in Names : IsCalled(id, m) /\ BeginsWith(m, n)
  <2> DEFINE v == vidToValue[id]
  <2>1. v \in 1..Len(ModuleValues) /\ id \notin DOMAIN vidToIdStruct
    BY ReadyIds
  <2>2. \A m : IsCalled(id, m) <=> /\ IsGlobal(v)
                                   /\ m \in {ModuleValues[v].name} \union Suffixes[Demangled[ModuleValues[v].name]]
    BY <2>1 DEF IsCalled, IsNamed, RealName, StartName
  <2>3. ModuleValues[v].name \in Names /\ Suffixes[Demangled[ModuleValues[v].name]] \subseteq Names
    <3>1. ModuleValues[v].name \in Names
      BY <2>1, IndexData
    <3> QED BY <3>1, IndexData
  <2> HIDE DEF v
  <2>4. v \in ValuesCalled(n) <=>
          /\ ~IsHushed(ModuleValues[v].name)
          /\ \E m \in Names : IsCalled(id, m) /\ BeginsWith(m, n)
    BY <2>1, <2>2, <2>3 DEF ValuesCalled
  <2> QED BY <2>4 DEF v
<1>2. ASSUME NEW id \in DOMAIN vidToIdStruct
      PROVE  vidToIdStruct[id] \in StructsCalled(n) <=> \E m \in Names : IsCalled(id, m) /\ BeginsWith(m, n)
  <2> DEFINE T == vidToIdStruct[id]
  <2>1. T \in UsedStructs /\ T \in Structs
    BY ReadyIds
  <2>2. \A m : IsCalled(id, m) <=> m \in {StructName[T]} \union Suffixes[Stripped[StructName[T]]]
    BY DEF IsCalled, IsNamed, RealName, StartName
  <2>3. StructName[T] \in Names /\ Suffixes[Stripped[StructName[T]]] \subseteq Names
    <3>1. StructName[T] \in Names
      BY <2>1, IndexData
    <3> QED BY <3>1, IndexData
  <2> HIDE DEF T
  <2>4. T \in StructsCalled(n) <=> \E m \in Names : IsCalled(id, m) /\ BeginsWith(m, n)
    BY <2>1, <2>2, <2>3 DEF StructsCalled
  <2> QED BY <2>4 DEF T
<1> QED BY <1>1, <1>2

\* @n stands for what is called so.
LEMMA UnsilencedCalled ==
  ASSUME Ready, NEW n \in Names
  PROVE  /\ Unsilenced(n) \subseteq Given
         /\ \A id \in DOMAIN vidToValue : id \in Unsilenced(n) <=> vidToValue[id] \in ValuesCalled(n)
         /\ \A id \in DOMAIN vidToIdStruct : id \in Unsilenced(n) <=> vidToIdStruct[id] \in StructsCalled(n)
<1>1. Unsilenced(n) \subseteq Given
  BY ReadyIds DEF Unsilenced
<1>2. ASSUME NEW id \in DOMAIN vidToValue
      PROVE  id \in Unsilenced(n) <=> vidToValue[id] \in ValuesCalled(n)
  <2>1. id \in Given /\ id \notin DOMAIN vidToIdStruct
    BY ReadyIds
  <2>2. id \in Unsilenced(n) <=> id \in {e.id : e \in Listed(n)} /\ ~IsHushed(ModuleValues[vidToValue[id]].name)
    BY <2>1 DEF Unsilenced
  <2> QED BY <2>1, <2>2, ListedCalled, CallNames
<1>3. ASSUME NEW id \in DOMAIN vidToIdStruct
      PROVE  id \in Unsilenced(n) <=> vidToIdStruct[id] \in StructsCalled(n)
  <2>1. id \in Given
    BY ReadyIds
  <2>2. id \in Unsilenced(n) <=> id \in {e.id : e \in Listed(n)}
    BY DEF Unsilenced
  <2> QED BY <2>1, <2>2, ListedCalled, CallNames
<1> QED BY <1>1, <1>2, <1>3

LEMMA DenotesName ==
  ASSUME Ready, NEW n \in Names, NEW ref, ref.how = "name", ref.name = n, NEW id \in Given
  PROVE  Denotes(ref, id) <=> Unsilenced(n) = {id}
<1>0. DOMAIN vidToValue \union DOMAIN vidToIdStruct = Given
  BY DEF Ready, IdsExact
<1>1. ValuesCalled(n) \subseteq 1..Len(ModuleValues) /\ StructsCalled(n) \subseteq UsedStructs
  BY DEF ValuesCalled, StructsCalled
<1>2. ASSUME Unsilenced(n) = {id} PROVE Denotes(ref, id)
  <2>1. \A v \in ValuesCalled(n) : valueToVid[v] = id /\ id \in DOMAIN vidToValue /\ v = vidToValue[id]
    BY <1>1, <1>2, ReadyIds, UnsilencedCalled
  <2>2. \A T \in StructsCalled(n) : idStructToVid[T] = id /\ id \in DOMAIN vidToIdStruct /\ T = vidToIdStruct[id]
    BY <1>1, <1>2, ReadyIds, UnsilencedCalled
  <2>3. CASE id \in DOMAIN vidToValue
    <3>1. vidToValue[id] \in ValuesCalled(n) /\ id \notin DOMAIN vidToIdStruct
      BY <1>2, <2>3, UnsilencedCalled, ReadyIds
    <3> QED BY <2>1, <2>2, <2>3, <3>1 DEF Denotes
  <2>4. CASE id \in DOMAIN vidToIdStruct
    <3>1. vidToIdStruct[id] \in StructsCalled(n) /\ id \notin DOMAIN vidToValue
      BY <1>2, <2>4, UnsilencedCalled, ReadyIds
    <3> QED BY <2>1, <2>2, <2>4, <3>1 DEF Denotes
  <2> QED BY <1>0, <2>3, <2>4
<1>3. ASSUME Denotes(ref, id) PROVE Unsilenced(n) = {id}
  <2>1. ASSUME NEW jd \in Unsilenced(n) PROVE jd = id
    <3>1. jd \in Given
      BY UnsilencedCalled
    <3>2. CASE jd \in DOMAIN vidToValue
      <4>1. vidToValue[jd] \in ValuesCalled(n)
        BY <3>2, UnsilencedCalled
      <4>2. id \in DOMAIN vidToValue /\ vidToValue[jd] = vidToValue[id]
        BY <1>3, <4>1 DEF Denotes
      <4>3. valueToVid[vidToValue[jd]] = jd /\ valueToVid[vidToValue[id]] = id
        BY <3>2, <4>2, ReadyIds
      <4> QED BY <4>2, <4>3
    <3>3. CASE jd \in DOMAIN vidToIdStruct
      <4>1. vidToIdStruct[jd] \in StructsCalled(n)
        BY <3>3, UnsilencedCalled
      <4>2. id \in DOMAIN vidToIdStruct /\ vidToIdStruct[jd] = vidToIdStruct[id]
        BY <1>3, <4>1 DEF Denotes
      <4>3. idStructToVid[vidToIdStruct[jd]] = jd /\ idStructToVid[vidToIdStruct[id]] = id
        BY <3>3, <4>2, ReadyIds
      <4> QED BY <4>2, <4>3
    <3> QED BY <1>0, <3>1, <3>2, <3>3
  <2>2. id \in Unsilenced(n)
    BY <1>3, UnsilencedCalled DEF Denotes
  <2> QED BY <2>1, <2>2
<1> QED BY <1>2, <1>3

LEMMA ParseTrue ==
  ASSUME Ready, NEW ref \in References
  PROVE  /\ ParseVid(ref).how = "ok" => /\ Denotes(ref, ParseVid(ref).id)
                                        /\ \A id \in Given : Denotes(ref, id) => id = ParseVid(ref).id
         /\ ParseVid(ref).how # "ok" => \A id \in Given : ~Denotes(ref, id)
<1>1. CASE ref.how = "number"
  BY <1>1 DEF ParseVid, Gives, Denotes
<1>2. CASE ref.how = "text"
  BY <1>2 DEF ParseVid, Fails, Denotes
<1>3. CASE ref.how = "name"
  <2> DEFINE n == ref.name
  <2>1. n \in Names
    BY <1>3 DEF References
  <2>2. \A id \in Given : Denotes(ref, id) <=> Unsilenced(n) = {id}
    BY <1>3, <2>1, DenotesName
  <2>3. Unsilenced(n) \subseteq Given
    BY <2>1, UnsilencedCalled
  <2> DEFINE U == Unsilenced(n)
  <2>4. ParseVid(ref) = IF U = {} THEN Fails("nameNotFound")
                        ELSE IF \E id \in U : U = {id} THEN Gives(CHOOSE id \in U : TRUE) ELSE Fails("nameAmbiguous")
    BY <1>3 DEF ParseVid
  <2> HIDE DEF U, n
  <2>5. CASE \E id \in U : U = {id}
    <3>1. PICK id \in U : U = {id}
      BY <2>5
    <3>2. (CHOOSE jd \in U : TRUE) = id /\ U # {}
      BY <3>1
    <3>3. ParseVid(ref).how = "ok" /\ ParseVid(ref).id = id
      BY <2>4, <2>5, <3>2 DEF Gives
    <3> QED BY <2>2, <2>3, <3>1, <3>3 DEF U
  <2>6. CASE ~\E id \in U : U = {id}
    <3>1. ParseVid(ref).how # "ok"
      BY <2>4, <2>6 DEF Fails
    <3>2. \A id : U # {id}
      BY <2>6
    <3> QED BY <2>2, <3>1, <3>2 DEF U
  <2> QED BY <2>5, <2>6
<1> QED BY <1>1, <1>2, <1>3 DEF References

LEMMA RequireTrue ==
  ASSUME Ready, NEW ref \in References, NEW kind
  PROVE  /\ Require(ref, kind).how = "ok" =>
              Denotes(ref, Require(ref, kind).id) /\ IsA(Require(ref, kind).id, kind)
         /\ Require(ref, kind).how # "ok" => \A id \in Given : ~(Denotes(ref, id) /\ IsA(id, kind))
<1>1. CASE ParseVid(ref).how # "ok"
  BY <1>1, ParseTrue DEF Require
<1>2. CASE ParseVid(ref).how = "ok" /\ IsA(ParseVid(ref).id, kind)
  BY <1>2, ParseTrue DEF Require
<1>3. CASE ParseVid(ref).how = "ok" /\ ~IsA(ParseVid(ref).id, kind)
  BY <1>3, ParseTrue DEF Require, Fails
<1> QED BY <1>1, <1>2, <1>3

LEMMA WantedLength == \A cmd \in DOMAIN Wanted : Len(Wanted[cmd]) \in {1, 2}
  BY DEF Wanted

LEMMA OperandsTrue ==
  ASSUME Ready, NEW cmd \in DOMAIN Wanted, NEW refs \in Seq(References), Operands(cmd, refs).how # "usage"
  PROVE  IF Operands(cmd, refs).how = "ok"
         THEN \A i \in DOMAIN refs : /\ Denotes(refs[i], Operands(cmd, refs).ids[i])
                                     /\ IsA(Operands(cmd, refs).ids[i], Wanted[cmd][i])
         ELSE \E i \in DOMAIN refs : \A id \in Given : ~(Denotes(refs[i], id) /\ IsA(id, Wanted[cmd][i]))
<1> DEFINE of == [i \in DOMAIN refs |-> Require(refs[i], Wanted[cmd][i])]  a == Operands(cmd, refs)
<1>1. \A i \in DOMAIN refs : of[i] = Require(refs[i], Wanted[cmd][i]) /\ refs[i] \in References
  OBVIOUS
<1>2. a = IF cmd = "site" /\ refs = <<>> THEN AllOf(of)
          ELSE IF Len(refs) # Len(Wanted[cmd]) THEN Fails("usage")
          ELSE IF \E i \in DOMAIN of : of[i].how # "ok" THEN FirstFailure(of)
          ELSE AllOf(of)
  BY DEF Operands
<1>3. DOMAIN of = DOMAIN refs
  OBVIOUS
<1>4. AllOf(of).how = "ok" /\ \A i \in DOMAIN of : AllOf(of).ids[i] = of[i].id
  BY DEF AllOf
<1> HIDE DEF of, a
<1>5. CASE cmd = "site" /\ refs = <<>>
  <2>1. DOMAIN refs = {}
    BY <1>5
  <2> QED BY <1>2, <1>4, <1>5, <2>1 DEF a
<1>6. CASE ~(cmd = "site" /\ refs = <<>>)
  <2>1. Len(refs) = Len(Wanted[cmd]) /\ DOMAIN refs = 1..Len(refs)
    BY <1>2, <1>6 DEF a, Fails
  <2>2. CASE \E i \in DOMAIN of : of[i].how # "ok"
    <3>1. \E i \in DOMAIN of : of[i].how # "ok" /\ \A k \in 1..(i - 1) : of[k].how = "ok"
      <4>1. Len(refs) \in {1, 2}
        BY <2>1, WantedLength
      <4>2. DOMAIN of \subseteq {1, 2} /\ 1 \in DOMAIN of
        BY <1>3, <2>1, <4>1
      <4>3. 1..(1 - 1) = {} /\ 1..(2 - 1) = {1}
        OBVIOUS
      <4> QED BY <2>2, <4>2, <4>3
    <3>2. PICK i \in DOMAIN of : FirstFailure(of) = of[i] /\ of[i].how # "ok"
      BY <3>1 DEF FirstFailure
    <3>3. a.how # "ok"
      BY <1>2, <1>6, <2>1, <2>2, <3>2
    <3>4. \A id \in Given : ~(Denotes(refs[i], id) /\ IsA(id, Wanted[cmd][i]))
      BY <1>1, <1>3, <3>2, RequireTrue
    <3> QED BY <1>3, <3>3, <3>4 DEF a
  <2>3. CASE ~\E i \in DOMAIN of : of[i].how # "ok"
    <3>1. a.how = "ok" /\ \A i \in DOMAIN refs : a.ids[i] = of[i].id
      BY <1>2, <1>3, <1>4, <1>6, <2>1, <2>3
    <3>2. \A i \in DOMAIN refs : Denotes(refs[i], of[i].id) /\ IsA(of[i].id, Wanted[cmd][i])
      BY <1>1, <1>3, <2>3, RequireTrue
    <3> QED BY <3>1, <3>2 DEF a
  <2> QED BY <2>2, <2>3
<1> QED BY <1>5, <1>6

LEMMA RangeTrue ==
  ASSUME Ready, NEW ref \in References, NEW count \in Int, ShowRange(ref, count).how = "ok",
         NEW id \in Given, Denotes(ref, id)
  PROVE  ShowRange(ref, count).shown \union ShowRange(ref, count).silenced = {i \in 1..count : id + i - 1 \in Given}
<1> DEFINE ids == [i \in 1..count |-> id + i - 1]
<1>1. ParseVid(ref).how = "ok" /\ ParseVid(ref).id = id
  <2>1. ParseVid(ref).how = "ok"
    BY DEF ShowRange
  <2> QED BY <2>1, ParseTrue
<1>2. ShowRange(ref, count) = Show(ids)
  BY <1>1 DEF ShowRange
<1>3. DOMAIN ids = 1..count /\ \A i \in 1..count : ids[i] = id + i - 1
  OBVIOUS
<1> HIDE DEF ids
<1> DEFINE given == {i \in DOMAIN ids : IsGiven(ids[i])}
<1>4. given = {i \in 1..count : id + i - 1 \in Given}
  BY <1>3, ReadyIds
<1>5. Show(ids).how = "ok" /\ Show(ids) = IF given = {} THEN Fails("vidNotFound")
                 ELSE [how |-> "ok", shown |-> {i \in given : IsShown(ids[i])}, silenced |-> {i \in given : ~IsShown(ids[i])}]
  BY <1>2 DEF Show
<1> HIDE DEF given
<1>6. Show(ids).shown = {i \in given : IsShown(ids[i])} /\ Show(ids).silenced = {i \in given : ~IsShown(ids[i])}
  BY <1>5 DEF Fails
<1>7. Show(ids).shown \union Show(ids).silenced = given
  BY <1>6
<1> QED BY <1>2, <1>4, <1>7

LEMMA GlobalTrue ==
  ASSUME Ready, NEW n \in Names, n # 0
  PROVE  IF GetGlobal(n).how = "ok"
         THEN IsGlobal(vidToValue[GetGlobal(n).id]) /\ ModuleValues[vidToValue[GetGlobal(n).id]].name = n
         ELSE \A v \in 1..Len(ModuleValues) : ~(IsGlobal(v) /\ ModuleValues[v].name = n)
<1> DEFINE ids == {e.id : e \in {f \in entries : f.isRealName /\ f.name = n /\ f.id \in DOMAIN vidToValue}}
<1>1. GetGlobal(n) = IF ids = {} THEN Fails("globalNotFound")
                     ELSE IF \E id \in ids : ids = {id} THEN Gives(CHOOSE id \in ids : TRUE) ELSE Fails("globalAmbiguous")
  BY DEF GetGlobal
<1>2. ASSUME NEW id
      PROVE  id \in ids <=> /\ id \in DOMAIN vidToValue /\ IsGlobal(vidToValue[id])
                            /\ ModuleValues[vidToValue[id]].name = n
  <2>1. id \in ids <=> id \in DOMAIN vidToValue /\ Entry(n, id, TRUE) \in entries
    <3>1. ASSUME NEW e \in entries, e.isRealName, e.name = n, e.id = id PROVE e = Entry(n, id, TRUE)
      <4>1. e \in [name : Names, id : Nat, isRealName : BOOLEAN]
        BY DEF Ready, IndexTypeOK
      <4> QED BY <3>1, <4>1 DEF Entry
    <3>2. Entry(n, id, TRUE).isRealName /\ Entry(n, id, TRUE).name = n /\ Entry(n, id, TRUE).id = id
      BY DEF Entry
    <3> QED BY <3>1, <3>2
  <2>2. ASSUME id \in DOMAIN vidToValue
        PROVE  Entry(n, id, TRUE) \in entries <=> IsGlobal(vidToValue[id]) /\ n = ModuleValues[vidToValue[id]].name
    <3>1. id \in Given /\ id \notin DOMAIN vidToIdStruct
      BY <2>2, ReadyIds
    <3>2. Entry(n, id, TRUE) \in entries <=> IsNamed(id) /\ n = RealName(id)
      BY <3>1 DEF Ready, NamesExact
    <3> QED BY <3>1, <3>2 DEF IsNamed, RealName
  <2> QED BY <2>1, <2>2
<1>3. \A id, jd \in ids : id = jd
  <2> SUFFICES ASSUME NEW id \in ids, NEW jd \in ids PROVE id = jd
    OBVIOUS
  <2>1. id \in DOMAIN vidToValue /\ IsGlobal(vidToValue[id]) /\ ModuleValues[vidToValue[id]].name = n
    BY <1>2
  <2>2. jd \in DOMAIN vidToValue /\ IsGlobal(vidToValue[jd]) /\ ModuleValues[vidToValue[jd]].name = n
    BY <1>2
  <2>3. /\ vidToValue[id] \in 1..Len(ModuleValues) /\ valueToVid[vidToValue[id]] = id
        /\ vidToValue[jd] \in 1..Len(ModuleValues) /\ valueToVid[vidToValue[jd]] = jd
    BY <2>1, <2>2, ReadyIds
  <2>4. \A v, w \in 1..Len(ModuleValues) :
          IsGlobal(v) /\ IsGlobal(w) /\ ModuleValues[v].name = ModuleValues[w].name /\ ModuleValues[v].name # 0 => v = w
    BY NameIndexAssumption
  <2>5. vidToValue[id] = vidToValue[jd]
    BY <2>1, <2>2, <2>3, <2>4
  <2> QED BY <2>3, <2>5
<1>4. CASE ids = {}
  <2>1. ASSUME NEW v \in 1..Len(ModuleValues), IsGlobal(v), ModuleValues[v].name = n PROVE FALSE
    <3>1. valueToVid[v] \in DOMAIN vidToValue /\ vidToValue[valueToVid[v]] = v
      BY ReadyIds
    <3>2. valueToVid[v] \in ids
      BY <1>2, <2>1, <3>1
    <3> QED BY <1>4, <3>2
  <2>2. GetGlobal(n).how # "ok"
    BY <1>1, <1>4 DEF Fails
  <2> QED BY <2>1, <2>2
<1>5. CASE ids # {}
  <2> HIDE DEF ids
  <2>1. PICK id \in ids : ids = {id}
    BY <1>3, <1>5
  <2>2. (CHOOSE jd \in ids : TRUE) = id
    BY <2>1
  <2>3. GetGlobal(n).how = "ok" /\ GetGlobal(n).id = id
    BY <1>1, <1>5, <2>1, <2>2 DEF Gives
  <2> QED BY <1>2, <2>3
<1> QED BY <1>4, <1>5

LEMMA LeastIn ==
  ASSUME NEW S, S \subseteq Nat, S # {}
  PROVE  \E m \in S : \A k \in S : m <= k
<1>1. PICK m \in S : \A k \in S : <<k, m>> \notin OpToRel(<, Nat)
  BY WFMin, NatLessThanWellFounded
<1>2. \A k \in S : ~(k < m)
  BY <1>1 DEF OpToRel
<1> QED BY <1>2

LEMMA OutcomeTrue ==
  ASSUME Ready, NEW q \in Inquiries  PROVE IsTrue(q, Outcome(q))
<1>1. \/ q.ask \in DOMAIN Wanted \union {"show"} /\ q.refs \in Seq(References)
      \/ q.ask = "range" /\ q.refs \in Seq(References) /\ Len(q.refs) = 1 /\ q.count \in Int
      \/ q.ask = "global" /\ q.name \in Names
      \/ q.ask = "ctor" /\ q.of \in 1..Len(ModuleValues)
  BY NameIndexAssumption
<1>2. DOMAIN Wanted = {"site", "cg", "st", "alias", "aliasset", "pts", "pt"}
  BY DEF Wanted
<1>3. CASE q.ask \in DOMAIN Wanted
  <2>1. Outcome(q) = Operands(q.ask, q.refs) /\ q.refs \in Seq(References)
    BY <1>1, <1>2, <1>3 DEF Outcome
  <2> QED BY <1>2, <1>3, <2>1, OperandsTrue DEF IsTrue
<1>4. CASE q.ask = "show"
  BY <1>2, <1>4 DEF IsTrue
<1>5. CASE q.ask = "range"
  <2>1. Outcome(q) = ShowRange(q.refs[1], q.count) /\ q.refs \in Seq(References) /\ Len(q.refs) = 1 /\ q.count \in Int
    BY <1>1, <1>2, <1>5 DEF Outcome
  <2>2. q.refs[1] \in References
    BY <2>1
  <2> QED BY <1>2, <1>5, <2>1, <2>2, RangeTrue DEF IsTrue
<1>6. CASE q.ask = "global"
  <2>1. Outcome(q) = GetGlobal(q.name) /\ q.name \in Names
    BY <1>1, <1>2, <1>6 DEF Outcome
  <2> QED BY <1>2, <1>6, <2>1, GlobalTrue DEF IsTrue
<1>7. CASE q.ask = "ctor"
  BY <1>2, <1>7 DEF IsTrue
<1> QED BY <1>1, <1>3, <1>4, <1>5, <1>6, <1>7

LEMMA UntoldTrue == IsTrue(Untold.q, Untold.a)
  BY DEF IsTrue, Untold, Wanted

\* What is true of an answer depends on the tables and the switches.
LEMMA StaysTrue ==
  ASSUME NEW q, NEW a, UNCHANGED <<tableVars, silencing>>, Naming' <=> Naming, IsTrue(q, a)
  PROVE  told'.q = q /\ told'.a = a => LookupsTrue'
<1> USE DEF tableVars
<1>1. \A n : ValuesCalled(n)' = ValuesCalled(n) /\ StructsCalled(n)' = StructsCalled(n)
  BY DEF ValuesCalled, StructsCalled, IsHushed
<1>2. \A ref, id : Denotes(ref, id)' <=> Denotes(ref, id)
  BY <1>1 DEF Denotes
<1>3. Given' = Given
  BY DEF Given
<1>4. \A id, kind : IsA(id, kind)' <=> IsA(id, kind)
  BY DEF IsA
<1>5. IsTrue(q, a)'
  BY <1>1, <1>2, <1>3, <1>4 DEF IsTrue
<1> QED BY <1>5 DEF LookupsTrue

\* Nothing is answered before the index is there.
ToldInv == indexStep # "ready" => told = Untold

(***************************************************************************)
(* Whatever is asked, with the switches in any position: an operand is     *)
(* taken for the one value or struct type it can mean, and refused when it *)
(* means none or several (parseVid, QueryInterface.cpp:91); what is listed *)
(* or silenced is counted right; getGlobal finds what it is asked for if   *)
(* the module has it.                                                      *)
(***************************************************************************)
THEOREM LookupsAreTrue == IndexSpec => []LookupsTrue
<1> DEFINE Inv == ToldInv /\ LookupsTrue
<1>1. IndexInit => Inv
  BY UntoldTrue DEF IndexInit, ToldInv, LookupsTrue
<1>2. Inv /\ IndexInv /\ IndexExact /\ [IndexNext]_indexVars => Inv'
  <2> SUFFICES ASSUME Inv, IndexInv, IndexExact, [IndexNext]_indexVars PROVE Inv'
    OBVIOUS
  <2>1. CASE BuildIndex
    <3>1. told' = told /\ indexStep # "ready"
      BY <2>1 DEF BuildIndex, LoadModule, RecordTypes, PassType, VisitType, VisitEnd, NumberValue, NameInner, NameLast,
                  SortEntries, Naming, lookupVars
    <3>2. told' = Untold
      BY <3>1 DEF ToldInv
    <3> QED BY <3>2 DEF ToldInv, LookupsTrue, IsTrue, Untold, Wanted
  <2>2. CASE Inquire
    <3>1. PICK q \in Inquiries : told' = [q |-> q, a |-> Outcome(q)]
      BY <2>2 DEF Inquire
    <3>2. PICK a : a = Outcome(q)
      OBVIOUS
    <3>3. Ready
      BY <2>2 DEF Inquire, Ready, IndexInv, IndexExact
    <3>4. IsTrue(q, a)
      <4>1. IsTrue(q, Outcome(q))
        BY <3>3, OutcomeTrue
      <4> QED BY <3>2, <4>1 DEF IsTrue
    <3>5. LookupsTrue'
      <4>1. told'.q = q /\ told'.a = a
        BY <3>1, <3>2
      <4> QED BY <2>2, <3>4, <4>1, StaysTrue DEF Inquire, Naming
    <3> QED BY <2>2, <3>5 DEF Inquire, ToldInv
  <2>3. CASE FlipSwitch
    <3>1. told' = Untold
      BY <2>3 DEF FlipSwitch
    <3> QED BY <3>1 DEF ToldInv, LookupsTrue, IsTrue, Untold, Wanted
  <2>4. CASE UNCHANGED indexVars
    <3>1. PICK q, a : q = told.q /\ a = told.a
      OBVIOUS
    <3>2. IsTrue(q, a)
      BY <3>1 DEF LookupsTrue, IsTrue
    <3>3. LookupsTrue'
      BY <2>4, <3>1, <3>2, StaysTrue DEF indexVars, lookupVars, Naming
    <3> QED BY <2>4, <3>3 DEF indexVars, lookupVars, ToldInv
  <2> QED BY <2>1, <2>2, <2>3, <2>4 DEF IndexNext
<1>3. IndexSpec => []IndexInv
  BY IndexInvariant
<1>4. IndexSpec => []IndexExact
  BY IndexIsExact
<1>5. Inv => LookupsTrue
  OBVIOUS
<1> HIDE DEF Inv
<1> QED BY <1>1, <1>2, <1>3, <1>4, <1>5, PTL DEF IndexSpec

-----------------------------------------------------------------------------
(* The binary search. *)

Ascending(recs) == \A i, j \in 1..Len(recs) : i < j => recs[i].head < recs[j].head

\* The place of the first heading that is not below h.
IsBound(recs, h, pos) ==
  pos \in 1..Len(recs) + 1 /\ \A i \in 1..Len(recs) : recs[i].head < h <=> i < pos

LEMMA BoundExists ==
  ASSUME NEW recs, Len(recs) \in Nat, Ascending(recs),
         \A i \in 1..Len(recs) : recs[i].head \in Nat, NEW h \in Nat
  PROVE  \E pos : IsBound(recs, h, pos)
<1> DEFINE S == {i \in 1..Len(recs) + 1 : i = Len(recs) + 1 \/ ~(recs[i].head < h)}
<1>1. S \subseteq Nat /\ Len(recs) + 1 \in S
  OBVIOUS
<1>2. PICK pos \in S : \A k \in S : pos <= k
  <2> HIDE DEF S
  <2> QED
    BY <1>1, LeastIn
<1>3. ASSUME NEW i \in 1..Len(recs) PROVE recs[i].head < h <=> i < pos
  <2>1. CASE i < pos
    BY <1>2, <2>1
  <2>2. CASE i = pos
    BY <2>2
  <2>3. CASE i > pos
    <3>1. pos \in 1..Len(recs) /\ ~(recs[pos].head < h)
      BY <2>3
    <3>2. recs[pos].head < recs[i].head
      BY <2>3, <3>1 DEF Ascending
    <3> QED
      BY <2>3, <3>1, <3>2
  <2> QED
    BY <2>1, <2>2, <2>3
<1> QED
  BY <1>3 DEF IsBound

\* What the search between l and r comes to when pos is the bound.
Between(l, r, pos) == IF l >= r THEN l ELSE IF pos < l THEN l ELSE IF pos > r THEN r ELSE pos

\* f does what one call of the search does.
Searches(f, recs, h) ==
  LET I == 1..Len(recs) + 1 IN
  f = [p \in I \X I |->
         LET l == p[1]  r == p[2]  mid == l + (r - l) \div 2 IN
         IF l >= r THEN l
         ELSE IF recs[mid].head < h THEN f[<<mid + 1, r>>] ELSE f[<<l, mid>>]]

Mid(l, r) == l + ((r - l) \div 2)

\* The middle is between.
LEMMA Middle == \A l, r \in Nat : l < r => Mid(l, r) \in l..r - 1
  BY DEF Mid

\* A range of more than one place is halved by the answer.
LEMMA Halves ==
  ASSUME NEW recs, Len(recs) \in Nat, NEW h, NEW pos, IsBound(recs, h, pos),
         NEW l \in 1..Len(recs) + 1, NEW r \in 1..Len(recs) + 1, l < r,
         NEW mid, mid = Mid(l, r)
  PROVE  /\ mid \in 1..Len(recs) /\ mid + 1 \in 1..Len(recs) + 1 /\ mid \in l..r - 1
         /\ Between(l, r, pos) = IF recs[mid].head < h THEN Between(mid + 1, r, pos)
                                 ELSE Between(l, mid, pos)
<1>1. mid \in l..r - 1 /\ mid \in 1..Len(recs) /\ mid + 1 \in 1..Len(recs) + 1
  <2>1. mid \in l..r - 1
    BY Middle
  <2> QED
    BY <2>1
<1>2. recs[mid].head < h <=> mid < pos
  BY <1>1 DEF IsBound
<1> QED
  BY <1>1, <1>2 DEF Between, IsBound

LEMMA SearchExists ==
  ASSUME NEW recs, Len(recs) \in Nat, NEW h, NEW pos, IsBound(recs, h, pos)
  PROVE  \E f : Searches(f, recs, h)
<1> DEFINE I == 1..Len(recs) + 1
           f == [p \in I \X I |-> Between(p[1], p[2], pos)]
<1>1. ASSUME NEW p \in I \X I
      PROVE  f[p] = LET l == p[1]  r == p[2]  mid == l + (r - l) \div 2 IN
                    IF l >= r THEN l
                    ELSE IF recs[mid].head < h THEN f[<<mid + 1, r>>] ELSE f[<<l, mid>>]
  <2> DEFINE l == p[1]  r == p[2]  mid == Mid(l, r)
  <2>1. l \in I /\ r \in I
    OBVIOUS
  <2>2. CASE l >= r
    BY <2>2 DEF Between
  <2>3. CASE ~(l >= r)
    <3>1. l < r
      BY <2>1, <2>3
    <3>2. /\ mid \in I /\ mid + 1 \in I
          /\ Between(l, r, pos) = IF recs[mid].head < h THEN Between(mid + 1, r, pos)
                                  ELSE Between(l, mid, pos)
      BY <2>1, <3>1, Halves
    <3>3. /\ f[p] = Between(l, r, pos)
          /\ f[<<mid + 1, r>>] = Between(mid + 1, r, pos)
          /\ f[<<l, mid>>] = Between(l, mid, pos)
      BY <2>1, <3>2
    <3> HIDE DEF f
    <3> QED
      BY <2>3, <3>2, <3>3 DEF Mid
  <2> QED
    BY <2>2, <2>3
<1>2. f = [p \in I \X I |-> f[p]]
  OBVIOUS
<1> HIDE DEF f
<1>3. Searches(f, recs, h)
  BY <1>1, <1>2 DEF Searches
<1> QED
  BY <1>3

\* The search finds the bound: every other call is about a smaller range.
LEMMA SearchFinds ==
  ASSUME NEW recs, Len(recs) \in Nat, NEW h, NEW pos, IsBound(recs, h, pos),
         NEW f
  PROVE  Searches(f, recs, h) => f[<<1, Len(recs) + 1>>] = pos
<1>a. ASSUME NEW l \in 1..Len(recs) + 1, NEW r \in 1..Len(recs) + 1, l < r, NEW mid, mid = Mid(l, r)
      PROVE  /\ mid \in 1..Len(recs) + 1 /\ mid + 1 \in 1..Len(recs) + 1 /\ mid \in l..r - 1
             /\ Between(l, r, pos) = IF recs[mid].head < h THEN Between(mid + 1, r, pos)
                                     ELSE Between(l, mid, pos)
  <2>1. /\ mid \in 1..Len(recs) /\ mid + 1 \in 1..Len(recs) + 1 /\ mid \in l..r - 1
        /\ Between(l, r, pos) = IF recs[mid].head < h THEN Between(mid + 1, r, pos)
                                ELSE Between(l, mid, pos)
    BY <1>a, Halves
  <2> QED
    BY <2>1
<1> SUFFICES ASSUME Searches(f, recs, h) PROVE f[<<1, Len(recs) + 1>>] = pos
  OBVIOUS
<1> DEFINE I == 1..Len(recs) + 1
           Wrong(l, r) == f[<<l, r>>] # Between(l, r, pos)
           T == {d \in Nat : \E l, r \in I : r - l = d /\ Wrong(l, r)}
<1>1. ASSUME NEW l \in I, NEW r \in I
      PROVE  LET mid == l + ((r - l) \div 2) IN
             f[<<l, r>>] = IF l >= r THEN l
                           ELSE IF recs[mid].head < h THEN f[<<mid + 1, r>>] ELSE f[<<l, mid>>]
  <2>1. <<l, r>> \in I \X I
    OBVIOUS
  <2> QED
    BY <2>1 DEF Searches
<1>2. /\ T \subseteq Nat
      /\ \A d \in T : \E l, r \in I : r - l = d /\ Wrong(l, r)
      /\ \A l, r \in I : r - l \in Nat /\ r - l \notin T => ~Wrong(l, r)
  OBVIOUS
<1> HIDE DEF T
<1>3. T = {}
  <2> SUFFICES ASSUME T # {} PROVE FALSE
    OBVIOUS
  <2>1. PICK d \in T : \A e \in T : d <= e
    BY <1>2, LeastIn
  <2>2. d \in Nat
    BY <1>2
  <2>3. PICK l \in I, r \in I : r - l = d /\ Wrong(l, r)
    BY <1>2
  <2>4. l \in Nat /\ r \in Nat
    OBVIOUS
  <2>5. l < r
    <3> SUFFICES ASSUME l >= r PROVE FALSE
      BY <2>4
    <3>1. f[<<l, r>>] = l
      BY <1>1
    <3>2. Between(l, r, pos) = l
      BY DEF Between
    <3> QED
      BY <2>3, <3>1, <3>2
  <2>a. PICK mid : mid = Mid(l, r)
    OBVIOUS
  <2>6. /\ mid \in I /\ mid + 1 \in I /\ mid \in l..r - 1
        /\ Between(l, r, pos) = IF recs[mid].head < h THEN Between(mid + 1, r, pos)
                                ELSE Between(l, mid, pos)
    BY <1>a, <2>3, <2>5, <2>a
  <2>7. f[<<l, r>>] = IF recs[mid].head < h THEN f[<<mid + 1, r>>] ELSE f[<<l, mid>>]
    <3>1. ~(l >= r)
      BY <2>4, <2>5
    <3> QED
      BY <1>1, <2>a, <3>1 DEF Mid
  <2>8. ~Wrong(mid + 1, r)
    <3>1. r - (mid + 1) \in Nat /\ ~(d <= r - (mid + 1))
      BY <2>3, <2>4, <2>6
    <3>2. r - (mid + 1) \notin T
      BY <2>1, <3>1
    <3> HIDE DEF Wrong
    <3> QED
      BY <1>2, <2>6, <3>1, <3>2
  <2>9. ~Wrong(l, mid)
    <3>1. mid - l \in Nat /\ ~(d <= mid - l)
      BY <2>3, <2>4, <2>6
    <3>2. mid - l \notin T
      BY <2>1, <3>1
    <3> HIDE DEF Wrong
    <3> QED
      BY <1>2, <2>6, <3>1, <3>2
  <2> QED
    BY <2>3, <2>6, <2>7, <2>8, <2>9
<1>4. f[<<1, Len(recs) + 1>>] = Between(1, Len(recs) + 1, pos)
  <2>1. 1 \in I /\ Len(recs) + 1 \in I /\ Len(recs) + 1 - 1 \in Nat
    OBVIOUS
  <2>2. ~Wrong(1, Len(recs) + 1)
    BY <1>2, <1>3, <2>1
  <2> QED
    BY <2>2
<1>5. pos \in 1..Len(recs) + 1
  BY DEF IsBound
<1> QED
  BY <1>4, <1>5 DEF Between

\* findLowerboundWithLinePrefix finds the first heading that is not below h.
LEMMA LowerBoundIs ==
  ASSUME NEW recs, Len(recs) \in Nat, Ascending(recs),
         \A i \in 1..Len(recs) : recs[i].head \in Nat, NEW h \in Nat
  PROVE  IsBound(recs, h, LowerBound(recs, h))
<1>1. PICK pos : IsBound(recs, h, pos)
  BY BoundExists
<1> DEFINE F == CHOOSE f : Searches(f, recs, h)
<1>2. Searches(F, recs, h)
  BY <1>1, SearchExists
<1>3. LowerBound(recs, h) = F[<<1, Len(recs) + 1>>]
  BY DEF LowerBound, Searches
<1> QED
  BY <1>1, <1>2, <1>3, SearchFinds

-----------------------------------------------------------------------------
(* The sequences that a rewriting is made of. *)

IsSeq(s) == \E S : s \in Seq(S)

SpliceAt(s, x, a, k, i) ==
  IF i <= a THEN s[i] ELSE IF i <= a + Len(x) THEN x[i - a] ELSE s[k + (i - (a + Len(x))) - 1]

LEMMA Spliced ==
  ASSUME NEW S, NEW s \in Seq(S), NEW x \in Seq(S), NEW k \in 1..Len(s) + 1,
         NEW from \in 1..Len(s) + 1
  PROVE  /\ Splice(s, from, k, x) \in Seq(S)
         /\ Len(Splice(s, from, k, x)) = (from - 1) + Len(x) + (Len(s) + 1 - k)
         /\ \A i \in 1..Len(Splice(s, from, k, x)) :
              Splice(s, from, k, x)[i] = SpliceAt(s, x, from - 1, k, i)
<1>a. PICK a : a = from - 1
  OBVIOUS
<1> DEFINE r == Splice(s, from, k, x)
           u == SubSeq(s, 1, a)
           v == SubSeq(s, k, Len(s))
<1>1. Len(s) \in Nat /\ Len(x) \in Nat /\ a \in 0..Len(s) /\ \A i \in 1..Len(s) : s[i] \in S
  BY <1>a
<1> HIDE DEF r
<1>2. u \in Seq(S) /\ Len(u) = a /\ \A i \in 1..a : u[i] = s[i]
  <2>1. 1 \in Int /\ a \in Int /\ \A i \in 1..a : s[i] \in S
    BY <1>1
  <2>2. u \in Seq(S) /\ Len(u) = (IF 1 <= a THEN a - 1 + 1 ELSE 0)
        /\ \A i \in 1..(a - 1 + 1) : u[i] = s[1 + i - 1]
    BY <2>1, SubSeqProperties
  <2>3. a - 1 + 1 = a /\ \A i \in 1..a : 1 + i - 1 = i
    BY <1>1
  <2> HIDE DEF u
  <2> QED
    BY <1>1, <2>2, <2>3
<1>3. v \in Seq(S) /\ Len(v) = Len(s) + 1 - k /\ \A i \in 1..Len(v) : v[i] = s[k + i - 1]
  <2>1. k \in Int /\ Len(s) \in Int /\ \A i \in k..Len(s) : s[i] \in S
    BY <1>1
  <2>2. v \in Seq(S) /\ Len(v) = (IF k <= Len(s) THEN Len(s) - k + 1 ELSE 0)
        /\ \A i \in 1..(Len(s) - k + 1) : v[i] = s[k + i - 1]
    BY <2>1, SubSeqProperties
  <2> HIDE DEF v
  <2>3. Len(v) = Len(s) - k + 1
    BY <2>2, <1>1
  <2> QED
    BY <2>2, <2>3, <1>1
<1> HIDE DEF u, v
<1>4. u \o x \in Seq(S) /\ Len(u \o x) = a + Len(x)
      /\ \A i \in 1..a + Len(x) : (u \o x)[i] = IF i <= a THEN s[i] ELSE x[i - a]
  <2>1. u \o x \in Seq(S) /\ Len(u \o x) = Len(u) + Len(x)
        /\ \A i \in 1..Len(u) + Len(x) : (u \o x)[i] = IF i <= Len(u) THEN u[i] ELSE x[i - Len(u)]
    BY <1>2, ConcatProperties
  <2>2. ASSUME NEW i \in 1..a + Len(x) PROVE (u \o x)[i] = IF i <= a THEN s[i] ELSE x[i - a]
    <3>1. (u \o x)[i] = IF i <= a THEN u[i] ELSE x[i - a]
      BY <1>2, <2>1
    <3>2. i <= a => i \in 1..a
      BY <1>1
    <3> QED
      BY <1>2, <3>1, <3>2
  <2> QED
    BY <1>2, <2>1, <2>2
<1>5. r = (u \o x) \o v
  BY <1>a DEF r, u, v, Splice
<1> DEFINE y == u \o x
<1> HIDE DEF y
<1>6. r \in Seq(S) /\ Len(r) = Len(y) + Len(v)
      /\ \A i \in 1..Len(r) : r[i] = IF i <= Len(y) THEN y[i] ELSE v[i - Len(y)]
  <2>1. y \in Seq(S) /\ v \in Seq(S) /\ r = y \o v
    BY <1>3, <1>4, <1>5 DEF y
  <2> HIDE DEF v
  <2>2. y \o v \in Seq(S) /\ Len(y \o v) = Len(y) + Len(v)
        /\ \A i \in 1..Len(y) + Len(v) : (y \o v)[i] = IF i <= Len(y) THEN y[i] ELSE v[i - Len(y)]
    BY <2>1, ConcatProperties
  <2> QED
    BY <2>1, <2>2
<1>7. Len(y) = a + Len(x) /\ \A i \in 1..a + Len(x) : y[i] = IF i <= a THEN s[i] ELSE x[i - a]
  BY <1>4 DEF y
<1>8. ASSUME NEW i \in 1..Len(r)
      PROVE  r[i] = IF i <= a THEN s[i]
                     ELSE IF i <= a + Len(x) THEN x[i - a] ELSE s[k + (i - (a + Len(x))) - 1]
  <2>1. i <= a => i <= a + Len(x)
    BY <1>1
  <2>2. CASE i <= a + Len(x)
    BY <1>6, <1>7, <2>2, <1>1
  <2>3. CASE ~(i <= a + Len(x))
    <3>1. i - (a + Len(x)) \in 1..Len(v)
      <4>1. a \in Nat /\ Len(x) \in Nat /\ Len(v) \in Nat /\ i \in 1..(a + Len(x)) + Len(v)
        BY <1>1, <1>3, <1>6, <1>7
      <4> QED
        BY <2>3, <4>1
    <3> QED
      BY <1>3, <1>6, <1>7, <2>1, <2>3, <3>1
  <2> QED
    BY <2>2, <2>3
<1>9. Len(r) = a + Len(x) + (Len(s) + 1 - k)
  BY <1>3, <1>6, <1>7
<1>10. \A i \in 1..Len(r) : r[i] = SpliceAt(s, x, a, k, i)
  BY <1>8 DEF SpliceAt
<1> QED
  BY <1>a, <1>6, <1>9, <1>10 DEF r

-----------------------------------------------------------------------------
(* A file of notes and its rewriting. *)

\* The records of one source, in the order of their headings.
RecordsOK(path, recs) ==
  /\ IsSeq(recs)
  /\ \A i \in 1..Len(recs) : recs[i].head \in Headings /\ SourceOf[recs[i].head] = path
  /\ Ascending(recs)

\* A rewriting puts at most one record in, of the heading that was looked for.
IsRecord(h, rec) == rec = <<>> \/ \E body : rec = <<Record(h, body)>>

LEMMA RecordFacts ==
  ASSUME NEW h, NEW rec, IsRecord(h, rec)
  PROVE  IsSeq(rec) /\ Len(rec) \in {0, 1} /\ (Len(rec) = 1 => rec[1].head = h)
<1>1. CASE rec = <<>>
  BY <1>1 DEF IsSeq
<1>2. CASE \E body : rec = <<Record(h, body)>>
  <2>1. PICK body : rec = <<Record(h, body)>>
    BY <1>2
  <2>2. rec \in Seq({Record(h, body)}) /\ Len(rec) = 1 /\ rec[1] = Record(h, body)
    BY <2>1
  <2> QED
    BY <2>2 DEF IsSeq, Record
<1> QED
  BY <1>1, <1>2 DEF IsRecord

LEMMA BothSeq ==
  ASSUME NEW s, NEW x, IsSeq(s), IsSeq(x)
  PROVE  \E S : s \in Seq(S) /\ x \in Seq(S)
<1>1. PICK S : s \in Seq(S)
  BY DEF IsSeq
<1>2. PICK T : x \in Seq(T)
  BY DEF IsSeq
<1>3. s \in Seq(S \union T) /\ x \in Seq(S \union T)
  BY <1>1, <1>2
<1> QED
  BY <1>3

\* Where HasRecord finds the heading, and what the records around it are.
LEMMA AroundBound ==
  ASSUME NEW path, NEW recs, RecordsOK(path, recs), NEW h \in Headings
  PROVE  LET pos == LowerBound(recs, h)
             k == IF HasRecord(recs, h) THEN pos + 1 ELSE pos
         IN  /\ Len(recs) \in Nat /\ pos \in 1..Len(recs) + 1 /\ k \in {pos, pos + 1} /\ k <= Len(recs) + 1
             /\ \A i \in 1..Len(recs) : (i < pos => recs[i].head < h) /\ (i >= k => h < recs[i].head)
<1> DEFINE pos == LowerBound(recs, h)
           k == IF HasRecord(recs, h) THEN pos + 1 ELSE pos
<1>1. Len(recs) \in Nat /\ h \in Nat /\ Ascending(recs)
      /\ \A i \in 1..Len(recs) : recs[i].head \in Nat
  <2>1. PICK S : recs \in Seq(S)
    BY DEF RecordsOK, IsSeq
  <2>2. Headings \subseteq Nat
    BY NotesAssumption
  <2>3. Ascending(recs) /\ \A i \in 1..Len(recs) : recs[i].head \in Headings
    BY DEF RecordsOK
  <2>4. Len(recs) \in Nat
    BY <2>1
  <2> QED
    BY <2>2, <2>3, <2>4
<1>2. IsBound(recs, h, pos)
  BY <1>1, LowerBoundIs
<1>3. HasRecord(recs, h) <=> pos <= Len(recs) /\ recs[pos].head = h
  BY DEF HasRecord
<1> HIDE DEF pos
<1>4. pos \in 1..Len(recs) + 1 /\ \A i \in 1..Len(recs) : recs[i].head < h <=> i < pos
  BY <1>2 DEF IsBound
<1>5. k \in {pos, pos + 1} /\ k <= Len(recs) + 1
  BY <1>1, <1>3, <1>4
<1>6. ASSUME NEW i \in 1..Len(recs), i >= k PROVE h < recs[i].head
  <2>1. i >= pos /\ ~(recs[i].head < h) /\ pos \in 1..Len(recs)
    BY <1>1, <1>4, <1>5, <1>6
  <2>2. CASE i = pos
    <3>1. ~HasRecord(recs, h)
      BY <1>4, <1>6, <2>2
    <3> QED
      BY <1>1, <1>3, <2>1, <2>2, <3>1
  <2>3. CASE i # pos
    <3>1. recs[pos].head < recs[i].head
      BY <1>1, <2>1, <2>3 DEF Ascending
    <3>2. ~(recs[pos].head < h)
      BY <1>4, <2>1
    <3> QED
      BY <1>1, <2>1, <3>1, <3>2
  <2> QED
    BY <2>2, <2>3
<1> HIDE DEF k
<1>7. \A i \in 1..Len(recs) : (i < pos => recs[i].head < h) /\ (i >= k => h < recs[i].head)
  BY <1>4, <1>6
<1> QED
  BY <1>1, <1>4, <1>5, <1>7 DEF pos, k

\* Whatever is written, the file stays in order, and of its source.
LEMMA RewrittenOK ==
  ASSUME NEW h \in Headings, NEW recs, RecordsOK(SourceOf[h], recs), NEW rec, IsRecord(h, rec)
  PROVE  RecordsOK(SourceOf[h], Rewritten(recs, h, rec))
<1> DEFINE pos == LowerBound(recs, h)
           k == IF HasRecord(recs, h) THEN pos + 1 ELSE pos
           r == Rewritten(recs, h, rec)
<1>1. /\ Len(recs) \in Nat /\ pos \in 1..Len(recs) + 1 /\ k \in {pos, pos + 1} /\ k <= Len(recs) + 1
      /\ \A i \in 1..Len(recs) : (i < pos => recs[i].head < h) /\ (i >= k => h < recs[i].head)
  BY AroundBound
<1>2. r = Splice(recs, pos, k, rec)
  BY DEF Rewritten
<1> HIDE DEF pos, k, r
<1>3. IsSeq(rec) /\ Len(rec) \in {0, 1} /\ (Len(rec) = 1 => rec[1].head = h)
  BY RecordFacts
<1>4. PICK S : recs \in Seq(S) /\ rec \in Seq(S)
  BY <1>3, BothSeq DEF RecordsOK
<1>5. pos - 1 \in 0..Len(recs) /\ k \in 1..Len(recs) + 1
  BY <1>1
<1> DEFINE a == pos - 1
<1> HIDE DEF a
<1>6. /\ r \in Seq(S) /\ Len(r) = a + Len(rec) + (Len(recs) + 1 - k)
      /\ \A i \in 1..Len(r) : r[i] = SpliceAt(recs, rec, a, k, i)
  <2>1. pos \in 1..Len(recs) + 1
    BY <1>1
  <2>2. /\ Splice(recs, pos, k, rec) \in Seq(S)
        /\ Len(Splice(recs, pos, k, rec)) = (pos - 1) + Len(rec) + (Len(recs) + 1 - k)
        /\ \A i \in 1..Len(Splice(recs, pos, k, rec)) :
             Splice(recs, pos, k, rec)[i] = SpliceAt(recs, rec, pos - 1, k, i)
    BY <1>4, <1>5, <2>1, Spliced
  <2> QED
    BY <1>2, <2>2 DEF a
<1>7. pos = a + 1 /\ a \in Nat /\ k \in Nat
  BY <1>1 DEF a
\* The record that the ith of the new ones is.
<1> DEFINE from(i) == k + (i - (a + Len(rec))) - 1
<1>8. ASSUME NEW i \in 1..Len(r)
      PROVE  \/ i <= a /\ i \in 1..Len(recs) /\ r[i] = recs[i] /\ recs[i].head < h
             \/ i = a + 1 /\ Len(rec) = 1 /\ r[i].head = h
             \/ /\ i > a + Len(rec) /\ from(i) \in 1..Len(recs) /\ from(i) >= k
                /\ r[i] = recs[from(i)] /\ h < recs[from(i)].head
  <2>1. CASE i <= a
    <3>1. i \in 1..Len(recs) /\ i < pos
      BY <1>1, <1>7, <2>1
    <3> QED
      BY <1>1, <1>6, <2>1, <3>1 DEF SpliceAt
  <2>2. CASE i > a /\ i <= a + Len(rec)
    <3>1. Len(rec) = 1 /\ i = a + 1 /\ i - a = 1
      <4>1. Len(rec) = 0 => ~(i <= a + Len(rec))
        BY <1>7, <2>2
      <4>2. Len(rec) = 1 => i = a + 1
        BY <1>7, <2>2
      <4> QED
        BY <1>3, <1>7, <2>2, <4>1, <4>2
    <3>2. r[i] = rec[1]
      BY <1>6, <2>2, <3>1, <1>7 DEF SpliceAt
    <3> QED
      BY <1>3, <3>1, <3>2
  <2>3. CASE i > a + Len(rec)
    <3>1. from(i) \in 1..Len(recs) /\ from(i) >= k
      BY <1>1, <1>3, <1>5, <1>6, <1>7, <2>3
    <3>2. r[i] = recs[from(i)]
      BY <1>3, <1>6, <1>7, <2>3 DEF SpliceAt
    <3> HIDE DEF from
    <3> QED
      BY <1>1, <2>3, <3>1, <3>2
  <2> QED
    BY <1>3, <1>7, <2>1, <2>2, <2>3
<1>9. ASSUME NEW i \in 1..Len(r), NEW j \in 1..Len(r), i < j
      PROVE  r[i].head < r[j].head
  <2>1. h \in Nat /\ \A n \in 1..Len(recs) : recs[n].head \in Nat
    BY NotesAssumption DEF RecordsOK
  <2>2. \A m, n \in 1..Len(recs) : m < n => recs[m].head < recs[n].head
    BY DEF RecordsOK, Ascending
  <2>3. CASE i <= a
    <3>1. i \in 1..Len(recs) /\ r[i] = recs[i] /\ recs[i].head < h
      BY <1>3, <1>7, <1>8, <2>3
    <3>2. CASE j <= a
      BY <1>3, <1>7, <1>8, <1>9, <2>2, <3>1, <3>2
    <3>3. CASE ~(j <= a)
      <4>1. r[j].head = h \/ \E n \in 1..Len(recs) : r[j] = recs[n] /\ h < recs[n].head
        BY <1>8, <3>3
      <4> QED
        BY <2>1, <3>1, <4>1
    <3> QED
      BY <3>2, <3>3
  <2>4. CASE i = a + 1 /\ Len(rec) = 1
    <3>1. r[i].head = h
      BY <1>7, <1>8, <2>4
    <3>2. j > a + Len(rec)
      BY <1>7, <1>9, <2>4
    <3>3. \E n \in 1..Len(recs) : r[j] = recs[n] /\ h < recs[n].head
      BY <1>7, <1>8, <2>4, <3>2
    <3> QED
      BY <3>1, <3>3
  <2>5. CASE i > a + Len(rec)
    <3>1. from(i) \in 1..Len(recs) /\ r[i] = recs[from(i)]
      BY <1>3, <1>7, <1>8, <2>5
    <3>2. from(j) \in 1..Len(recs) /\ r[j] = recs[from(j)]
      BY <1>3, <1>7, <1>8, <1>9, <2>5
    <3>3. from(i) < from(j)
      BY <1>3, <1>7, <1>9
    <3> HIDE DEF from
    <3> QED
      BY <2>2, <3>1, <3>2, <3>3
  <2>6. CASE Len(rec) = 0
    BY <1>7, <2>3, <2>5, <2>6
  <2>7. CASE Len(rec) = 1
    BY <1>7, <2>3, <2>4, <2>5, <2>7
  <2> QED
    BY <1>3, <2>6, <2>7
<1>10. ASSUME NEW i \in 1..Len(r)
       PROVE  r[i].head \in Headings /\ SourceOf[r[i].head] = SourceOf[h]
  <2>1. r[i].head = h \/ \E n \in 1..Len(recs) : r[i] = recs[n]
    BY <1>8
  <2> QED
    BY <2>1 DEF RecordsOK
<1>11. IsSeq(r) /\ Ascending(r)
  BY <1>6, <1>9 DEF IsSeq, Ascending
<1>12. RecordsOK(SourceOf[h], r)
  BY <1>10, <1>11 DEF RecordsOK
<1> QED
  BY <1>12 DEF r

-----------------------------------------------------------------------------
(* The folder. *)

LEMMA NoteFileIs ==
  ASSUME NEW dir, Len(dir) \in Nat, NEW s
  PROVE  /\ NoteFile(dir, s) \in 1..Len(dir) + 1
         /\ NoteFile(dir, s) <= Len(dir) => dir[NoteFile(dir, s)].path = s
         /\ \A i \in 1..Len(dir) : i < NoteFile(dir, s) => dir[i].path # s
<1> DEFINE I == {Len(dir) + 1} \union {i \in 1..Len(dir) : dir[i].path = s}
<1>1. I \subseteq Nat /\ I # {}
  OBVIOUS
<1>2. NoteFile(dir, s) = CHOOSE m \in I : \A k \in I : m <= k
  BY DEF NoteFile, Min
<1>3. \E m \in I : \A k \in I : m <= k
  <2> HIDE DEF I
  <2> QED
    BY <1>1, LeastIn
<1> DEFINE at == NoteFile(dir, s)
<1> HIDE DEF at
<1>4. at \in I /\ \A k \in I : at <= k
  <2> HIDE DEF I
  <2> QED
    BY <1>2, <1>3 DEF at
<1>5. at \in 1..Len(dir) + 1 /\ (at <= Len(dir) => dir[at].path = s)
  BY <1>4
<1>6. ASSUME NEW i \in 1..Len(dir), i < at PROVE dir[i].path # s
  BY <1>4, <1>5, <1>6
<1> QED
  BY <1>5, <1>6 DEF at

FileOK(file) == file = Empty \/ (file.path \in Nat \ {0} /\ RecordsOK(file.path, file.recs))

\* Every file has the notes of one source, and no source has two.
FolderOK(dir) ==
  /\ IsSeq(dir)
  /\ \A n \in 1..Len(dir) : FileOK(dir[n])
  /\ \A n, m \in 1..Len(dir) : n # m /\ dir[n] # Empty => dir[m].path # dir[n].path

\* What is to be written fits into the folder.
Fits(dir, at, file) ==
  /\ at \in 1..Len(dir)
  /\ file.path \in Nat \ {0} /\ RecordsOK(file.path, file.recs)
  /\ \A n \in 1..Len(dir) : n # at => dir[n].path # file.path

NoteInv ==
  /\ FolderOK(folder)
  /\ noteStep \in {"idle", "open", "truncated"}
  /\ noteStep # "idle" => Fits(folder, pending.at, pending.new)

LEMMA EmptyFile == Empty.path = 0 /\ Empty.recs = <<>>
  BY DEF Empty, File

\* A file of the folder is exchanged for one that fits, or is emptied.
LEMMA Exchanged ==
  ASSUME NEW dir, FolderOK(dir), NEW at, NEW file, Fits(dir, at, file), NEW x \in {file, Empty}
  PROVE  LET new == [dir EXCEPT ![at] = x] IN FolderOK(new) /\ Fits(new, at, file)
<1> DEFINE new == [dir EXCEPT ![at] = x]
<1>1. PICK S : dir \in Seq(S)
  BY DEF FolderOK, IsSeq
<1>2. at \in 1..Len(dir) /\ Len(dir) \in Nat
  BY <1>1 DEF Fits
<1>3. new \in Seq(S \union {x}) /\ Len(new) = Len(dir)
      /\ \A n \in 1..Len(dir) : new[n] = IF n = at THEN x ELSE dir[n]
  <2>1. dir \in Seq(S \union {x})
    BY <1>1
  <2> QED
    BY <1>2, <2>1, ExceptSeq
<1> HIDE DEF new
<1>4. FileOK(x)
  BY DEF FileOK, Fits
<1>5. \A n \in 1..Len(dir) : FileOK(new[n])
  BY <1>3, <1>4 DEF FolderOK
<1>6. ASSUME NEW n \in 1..Len(dir), NEW m \in 1..Len(dir), n # m, new[n] # Empty
      PROVE  new[m].path # new[n].path
  <2>1. CASE n = at
    <3>1. new[n] = file /\ new[m] = dir[m]
      BY <1>3, <1>6, <2>1
    <3> QED
      BY <1>6, <2>1, <3>1 DEF Fits
  <2>2. CASE m = at
    <3>1. new[n] = dir[n] /\ new[m] = x /\ dir[n] # Empty
      BY <1>3, <1>6, <2>2
    <3>2. dir[n].path # file.path /\ dir[n].path # 0
      BY <1>6, <2>2, <3>1 DEF Fits, FolderOK, FileOK
    <3> QED
      BY <3>1, <3>2, EmptyFile
  <2>3. CASE n # at /\ m # at
    BY <1>3, <1>6, <2>3 DEF FolderOK
  <2> QED
    BY <2>1, <2>2, <2>3
<1>7. FolderOK(new)
  BY <1>3, <1>5, <1>6 DEF FolderOK, IsSeq
<1>8. Fits(new, at, file)
  BY <1>2, <1>3 DEF Fits
<1> QED
  BY <1>7, <1>8 DEF new

LEMMA RewriteInv ==
  ASSUME NoteInv, NEW h \in Headings, NEW rec, IsRecord(h, rec), Rewrite(h, rec)
  PROVE  NoteInv'
<1> DEFINE s == SourceOf[h]
           at == NoteFile(folder, s)
           dir == IF at <= Len(folder) THEN folder ELSE Append(folder, File(s, <<>>))
           file == File(dir[at].path, Rewritten(dir[at].recs, h, rec))
<1>1. /\ folder' = dir /\ noteStep' = "open"
      /\ pending' = [at |-> at, old |-> dir[at], new |-> file]
  BY DEF Rewrite
<1>2. PICK S : folder \in Seq(S)
  BY DEF NoteInv, FolderOK, IsSeq
<1>3. Len(folder) \in Nat /\ s \in Nat \ {0}
  BY <1>2, NotesAssumption
<1>4. /\ at \in 1..Len(folder) + 1
      /\ at <= Len(folder) => folder[at].path = s
      /\ \A i \in 1..Len(folder) : i < at => folder[i].path # s
  BY <1>3, NoteFileIs
<1> HIDE DEF at
<1>5. /\ FolderOK(dir) /\ at \in 1..Len(dir) /\ dir[at].path = s /\ RecordsOK(s, dir[at].recs)
      /\ \A n \in 1..Len(dir) : n # at => dir[n].path # s
  <2>1. CASE at <= Len(folder)
    <3>1. dir = folder /\ at \in 1..Len(folder) /\ folder[at].path = s
      BY <1>3, <1>4, <2>1
    <3>2. folder[at] # Empty
      BY <1>3, <3>1, EmptyFile
    <3> QED
      BY <3>1, <3>2 DEF NoteInv, FolderOK, FileOK
  <2>2. CASE ~(at <= Len(folder))
    <3> DEFINE fresh == File(s, <<>>)
    <3>1. at = Len(folder) + 1 /\ dir = Append(folder, fresh)
      BY <1>3, <1>4, <2>2
    <3>2. fresh.path = s /\ fresh.recs = <<>>
      BY DEF File
    <3> HIDE DEF fresh
    <3>3. folder \in Seq(S \union {fresh})
      BY <1>2
    <3>4. /\ dir \in Seq(S \union {fresh}) /\ Len(dir) = at /\ dir[at] = fresh
          /\ \A n \in 1..Len(folder) : dir[n] = folder[n]
      BY <3>1, <3>3, AppendProperties
    <3> HIDE DEF dir
    <3>5. RecordsOK(s, <<>>)
      BY DEF RecordsOK, IsSeq, Ascending
    <3>6. FileOK(fresh)
      BY <1>3, <3>2, <3>5 DEF FileOK
    <3>7. \A n \in 1..Len(folder) : n < at /\ n \in 1..Len(dir)
      BY <1>3, <3>1, <3>4
    <3>8. \A n \in 1..Len(dir) : n = at \/ n \in 1..Len(folder)
      BY <1>3, <3>1, <3>4
    <3>9. \A n \in 1..Len(dir) : n # at => dir[n].path # s
      BY <1>4, <3>4, <3>7, <3>8
    <3>10. \A n \in 1..Len(dir) : FileOK(dir[n])
      BY <3>4, <3>6, <3>8 DEF NoteInv, FolderOK
    <3>11. ASSUME NEW n \in 1..Len(dir), NEW m \in 1..Len(dir), n # m, dir[n] # Empty
           PROVE  dir[m].path # dir[n].path
      <4>1. CASE n = at \/ m = at
        BY <3>2, <3>4, <3>9, <3>11, <4>1
      <4>2. CASE n # at /\ m # at
        BY <3>4, <3>8, <3>11, <4>2 DEF NoteInv, FolderOK
      <4> QED
        BY <4>1, <4>2
    <3>12. FolderOK(dir)
      BY <3>4, <3>10, <3>11 DEF FolderOK, IsSeq
    <3>13. at \in 1..Len(dir)
      BY <1>3, <3>1, <3>4
    <3> QED
      BY <3>2, <3>4, <3>5, <3>9, <3>12, <3>13
  <2> QED
    BY <2>1, <2>2
<1> HIDE DEF dir
<1>6. file.path = s /\ RecordsOK(s, file.recs)
  <2>1. RecordsOK(s, Rewritten(dir[at].recs, h, rec))
    BY <1>5, RewrittenOK
  <2>2. file.path = dir[at].path /\ file.recs = Rewritten(dir[at].recs, h, rec)
    BY DEF File
  <2> QED
    BY <1>5, <2>1, <2>2
<1> HIDE DEF file, s
<1>7. Fits(dir, at, file)
  BY <1>3, <1>5, <1>6 DEF Fits
<1>8. pending'.at = at /\ pending'.new = file
  BY <1>1
<1> QED
  BY <1>1, <1>5, <1>7, <1>8 DEF NoteInv

LEMMA CommandIs ==
  ASSUME NEW h \in Headings, Command(h)
  PROVE  \E rec : IsRecord(h, rec) /\ Rewrite(h, rec)
<1>1. ASSUME NEW lines, AppendNote(h, lines) PROVE \E rec : IsRecord(h, rec) /\ Rewrite(h, rec)
  BY <1>1 DEF AppendNote, IsRecord
<1>2. ASSUME DeleteNote(h) PROVE \E rec : IsRecord(h, rec) /\ Rewrite(h, rec)
  BY <1>2 DEF DeleteNote, IsRecord
<1>3. ASSUME NEW c, ProveNote(h, c) PROVE \E rec : IsRecord(h, rec) /\ Rewrite(h, rec)
  BY <1>3 DEF ProveNote, IsRecord
<1>4. ASSUME NEW c, NEW f, NEW p, AddPremise(h, c, f, p) \/ RemovePremise(h, c, f, p)
      PROVE  \E rec : IsRecord(h, rec) /\ Rewrite(h, rec)
  BY <1>4 DEF AddPremise, RemovePremise, IsRecord
<1> QED
  BY <1>1, <1>2, <1>3, <1>4 DEF Command

LEMMA NoteInvHolds == NotesSpec => []NoteInv
<1>1. NotesInit => NoteInv
  <2> SUFFICES ASSUME NotesInit PROVE NoteInv
    OBVIOUS
  <2>1. folder = <<>> /\ noteStep = "idle"
    BY DEF NotesInit
  <2>2. FolderOK(<<>>)
    BY DEF FolderOK, IsSeq
  <2> QED
    BY <2>1, <2>2 DEF NoteInv
<1>2. NoteInv /\ [NotesNext]_noteVars => NoteInv'
  <2> SUFFICES ASSUME NoteInv, [NotesNext]_noteVars PROVE NoteInv'
    OBVIOUS
  <2>1. ASSUME NEW h \in Headings, Command(h) PROVE NoteInv'
    BY <2>1, CommandIs, RewriteInv
  <2>2. ASSUME Truncate PROVE NoteInv'
    <3>1. /\ noteStep = "open" /\ noteStep' = "truncated" /\ pending' = pending
          /\ folder' = [folder EXCEPT ![pending.at] = Empty]
      BY <2>2 DEF Truncate
    <3>2. FolderOK(folder) /\ Fits(folder, pending.at, pending.new)
      BY <3>1 DEF NoteInv
    <3>3. FolderOK(folder') /\ Fits(folder', pending.at, pending.new)
      BY <3>1, <3>2, Exchanged
    <3> QED
      BY <3>1, <3>3 DEF NoteInv
  <2>3. ASSUME WriteBack PROVE NoteInv'
    <3>1. /\ noteStep = "truncated" /\ noteStep' = "idle"
          /\ folder' = [folder EXCEPT ![pending.at] = pending.new]
      BY <2>3 DEF WriteBack
    <3>2. FolderOK(folder) /\ Fits(folder, pending.at, pending.new)
      BY <3>1 DEF NoteInv
    <3>3. FolderOK(folder')
      BY <3>1, <3>2, Exchanged
    <3> QED
      BY <3>1, <3>3 DEF NoteInv
  <2>4. ASSUME WriteFails PROVE NoteInv'
    BY <2>4 DEF WriteFails, NoteInv
  <2>5. ASSUME UNCHANGED noteVars PROVE NoteInv'
    BY <2>5 DEF noteVars, NoteInv
  <2> QED
    BY <2>1, <2>2, <2>3, <2>4, <2>5 DEF NotesNext
<1> QED
  BY <1>1, <1>2, PTL DEF NotesSpec

LEMMA NoteInvOrders == NoteInv => NotesOrdered
<1> SUFFICES ASSUME NoteInv, NEW n \in 1..Len(folder)
             PROVE  LET file == folder[n] IN
                    /\ \A i \in 1..Len(file.recs) :
                         /\ SourceOf[file.recs[i].head] = file.path
                         /\ \A j \in i + 1..Len(file.recs) : file.recs[i].head < file.recs[j].head
                    /\ file # Empty => \A m \in n + 1..Len(folder) : folder[m].path # file.path
  BY DEF NotesOrdered
<1> DEFINE file == folder[n]
<1>1. Len(folder) \in Nat /\ \A m \in n + 1..Len(folder) : m \in 1..Len(folder) /\ n # m
  <2>1. PICK S : folder \in Seq(S)
    BY DEF NoteInv, FolderOK, IsSeq
  <2>2. Len(folder) \in Nat
    BY <2>1
  <2> QED
    BY <2>2
<1>2. file # Empty => \A m \in n + 1..Len(folder) : folder[m].path # file.path
  BY <1>1 DEF NoteInv, FolderOK
<1>3. CASE file = Empty
  <2>1. 1..Len(file.recs) = {}
    BY <1>3, EmptyFile
  <2> QED
    BY <1>2, <2>1
<1>4. CASE file # Empty
  <2>1. RecordsOK(file.path, file.recs)
    BY <1>4 DEF NoteInv, FolderOK, FileOK
  <2>2. Len(file.recs) \in Nat
    <3>1. PICK S : file.recs \in Seq(S)
      BY <2>1 DEF RecordsOK, IsSeq
    <3> QED
      BY <3>1
  <2>3. ASSUME NEW i \in 1..Len(file.recs), NEW j \in i + 1..Len(file.recs)
        PROVE  file.recs[i].head < file.recs[j].head
    <3>1. j \in 1..Len(file.recs) /\ i < j
      BY <2>2
    <3> QED
      BY <2>1, <3>1 DEF RecordsOK, Ascending
  <2>4. \A i \in 1..Len(file.recs) : SourceOf[file.recs[i].head] = file.path
    BY <2>1 DEF RecordsOK
  <2> HIDE DEF file
  <2>5. (\A i \in 1..Len(file.recs) :
          /\ SourceOf[file.recs[i].head] = file.path
          /\ \A j \in i + 1..Len(file.recs) : file.recs[i].head < file.recs[j].head)
    BY <2>3, <2>4
  <2> QED
    BY <1>2, <2>5 DEF file
<1> QED
  BY <1>3, <1>4

(***************************************************************************)
(* For all headings, sources and histories of commands, failed writes and  *)
(* restarts: the records of every note file are in the order the binary    *)
(* search supposes and of the file's own source, and no source has two.    *)
(***************************************************************************)
THEOREM NotesStayOrdered == NotesSpec => []NotesOrdered
  BY NoteInvHolds, NoteInvOrders, PTL

-----------------------------------------------------------------------------
(* The tree view. *)

\* There are finitely many propositions to ask for.
LEMMA NodesFinite == IsFiniteSet(Nodes) /\ Cardinality(Nodes) \in Nat
<1>1. IsFiniteSet(Headings \union {0}) /\ IsFiniteSet(Props)
  BY NotesAssumption, FS_AddElement
<1>2. IsFiniteSet((Headings \union {0}) \X Props)
  BY <1>1, FS_Product
<1> QED
  BY <1>2, FS_CardinalityType DEF Nodes

\* All premises are propositions that can be asked for.
InNodes(found) == \A k : Whens(found, k) \subseteq Nodes

\* One step further from the propositions of S.
Further(found, S) == S \union UNION {Whens(found, k) : k \in S}

\* The steps by which RestsOn collects.
Collects(found, key, R) ==
  /\ RestsOn(found, key) = R[Cardinality(Nodes)]
  /\ R[0] = Whens(found, key)
  /\ \A n \in Nat : n < Cardinality(Nodes) => R[n + 1] = Further(found, R[n])

LEMMA RestsSteps ==
  ASSUME NEW found, NEW key
  PROVE  \E R : Collects(found, key, R)
<1>1. PICK N : N = Cardinality(Nodes) /\ N \in Nat
  BY NodesFinite
<1> DEFINE Body(f) == [n \in 0..N |-> IF n = 0 THEN Whens(found, key) ELSE Further(found, f[n - 1])]
           Right(f, m) == \A n \in 0..N : n <= m => f[n] = Body(f)[n]
           bad == {m \in Nat : ~ \E f : DOMAIN f = 0..N /\ f = [n \in 0..N |-> f[n]] /\ Right(f, m)}
<1>2. ASSUME NEW f PROVE \E g : g = Body(f)
  OBVIOUS
<1>3. ASSUME bad # {} PROVE FALSE
  <2>1. PICK m \in bad : \A j \in bad : m <= j
    <3>1. bad \subseteq Nat
      OBVIOUS
    <3> HIDE DEF bad
    <3> QED
      BY <1>3, <3>1, LeastIn
  <2>2. CASE m = 0
    <3>1. PICK f : f = [n \in 0..N |-> Whens(found, key)]
      OBVIOUS
    <3>2. Right(f, 0)
      BY <1>1, <3>1
    <3> QED
      BY <2>1, <2>2, <3>1, <3>2
  <2>3. CASE m # 0
    <3>1. PICK a : a = m - 1
      OBVIOUS
    <3>2. a \in Nat /\ a + 1 = m /\ a \notin bad
      BY <2>1, <2>3, <3>1
    <3>3. PICK f : DOMAIN f = 0..N /\ Right(f, a)
      BY <3>2
    <3>4. PICK g : g = Body(f)
      OBVIOUS
    <3>5. ASSUME NEW n \in 0..N, n <= m PROVE g[n] = Body(g)[n]
      <4>1. CASE n = 0
        BY <3>4, <4>1
      <4>2. CASE n # 0
        <5>1. n - 1 \in 0..N /\ n - 1 <= a
          BY <1>1, <3>2, <3>5, <4>2
        <5>2. g[n - 1] = f[n - 1]
          BY <3>3, <3>4, <5>1
        <5> QED
          BY <3>4, <5>1, <5>2
      <4> QED
        BY <4>1, <4>2
    <3>6. g = [n \in 0..N |-> g[n]] /\ DOMAIN g = 0..N
      BY <3>4
    <3> QED
      BY <2>1, <3>5, <3>6
  <2> QED
    BY <2>2, <2>3
<1>4. PICK f : f = [n \in 0..N |-> f[n]] /\ Right(f, N)
  BY <1>1, <1>3
<1>5. f = Body(f)
  BY <1>1, <1>4
<1> DEFINE R == CHOOSE g : g = Body(g)
<1>6. R = Body(R)
  BY <1>5
<1>7. RestsOn(found, key) = R[N]
  BY <1>1 DEF RestsOn, Further
<1> HIDE DEF R
<1>8. R[0] = Whens(found, key)
  BY <1>1, <1>6
<1>9. ASSUME NEW n \in Nat, n < N PROVE R[n + 1] = Further(found, R[n])
  <2>1. n + 1 \in 0..N /\ n + 1 # 0 /\ (n + 1) - 1 = n
    BY <1>1, <1>9
  <2> QED
    BY <1>6, <2>1
<1> QED
  BY <1>1, <1>7, <1>8, <1>9 DEF Collects

\* Whatever a member of S has as a premise is in S.
IsWhole(found, S) == \A k \in S : Whens(found, k) \subseteq S

\* It collects the least whole set with the premises: as many steps as there are
\* propositions suffice, since every step but the last ones adds one.
LEMMA RestIs ==
  ASSUME NEW found, InNodes(found), NEW key
  PROVE  /\ Whens(found, key) \subseteq RestsOn(found, key)
         /\ RestsOn(found, key) \subseteq Nodes
         /\ IsWhole(found, RestsOn(found, key))
         /\ \A S : Whens(found, key) \subseteq S /\ IsWhole(found, S) => RestsOn(found, key) \subseteq S
<1>1. PICK R : Collects(found, key, R)
  BY RestsSteps
<1>2. PICK N : N = Cardinality(Nodes) /\ N \in Nat
  BY NodesFinite
<1>3. /\ RestsOn(found, key) = R[N] /\ R[0] = Whens(found, key)
      /\ \A n \in Nat : n < N => R[n + 1] = Further(found, R[n])
  BY <1>1, <1>2 DEF Collects
<1>4. \A S : S \subseteq Further(found, S)
  BY DEF Further
<1>5. \A S : S \subseteq Nodes => Further(found, S) \subseteq Nodes
  BY DEF Further, InNodes
<1>6. \A S : Further(found, S) = S => IsWhole(found, S)
  BY DEF Further, IsWhole
<1>7. \A S, T : S \subseteq T /\ IsWhole(found, T) => Further(found, S) \subseteq T
  BY DEF Further, IsWhole
<1> DEFINE Small(S) == S \subseteq Nodes /\ Whens(found, key) \subseteq S
                       /\ \A T : Whens(found, key) \subseteq T /\ IsWhole(found, T) => S \subseteq T
           Good(n) == Small(R[n]) /\ (Further(found, R[n]) = R[n] \/ Cardinality(R[n]) > n)
           bad == {n \in Nat : n <= N /\ ~Good(n)}
<1>8. \A S \in SUBSET Nodes : IsFiniteSet(S) /\ Cardinality(S) \in Nat /\ Cardinality(S) <= N
  BY <1>2, NodesFinite, FS_Subset, FS_CardinalityType
<1>9. Small(R[0])
  BY <1>3 DEF InNodes
<1>10. \A S : Small(S) => Small(Further(found, S))
  BY <1>4, <1>5, <1>7
<1> HIDE DEF Small
<1>11. \A S : Small(S) => S \in SUBSET Nodes
  BY DEF Small
<1>12. Good(0)
  <2>1. CASE R[0] = {}
    <3>1. Further(found, {}) = {}
      BY DEF Further
    <3> QED
      BY <1>9, <2>1, <3>1
  <2>2. CASE R[0] # {}
    <3>1. IsFiniteSet(R[0]) /\ Cardinality(R[0]) \in Nat
      BY <1>8, <1>9, <1>11
    <3>2. Cardinality(R[0]) # 0
      BY <2>2, <3>1, FS_EmptySet
    <3> QED
      BY <1>9, <3>1, <3>2
  <2> QED
    BY <2>1, <2>2
<1>13. ASSUME NEW n \in Nat, n < N, Good(n) PROVE Good(n + 1)
  <2>1. R[n + 1] = Further(found, R[n]) /\ Small(R[n + 1])
    BY <1>3, <1>10, <1>13
  <2>2. CASE Further(found, R[n]) = R[n]
    BY <2>1, <2>2
  <2>3. CASE Further(found, R[n]) # R[n]
    <3>1. R[n] \in SUBSET R[n + 1] /\ R[n] # R[n + 1]
      BY <1>4, <2>1, <2>3
    <3>2. IsFiniteSet(R[n + 1]) /\ Cardinality(R[n + 1]) \in Nat /\ Cardinality(R[n]) \in Nat
      BY <1>8, <1>11, <1>13, <2>1
    <3>3. Cardinality(R[n]) <= Cardinality(R[n + 1]) /\ Cardinality(R[n]) # Cardinality(R[n + 1])
      BY <3>1, <3>2, FS_Subset
    <3>4. Cardinality(R[n]) > n
      BY <1>13, <2>3
    <3> QED
      BY <2>1, <3>2, <3>3, <3>4
  <2> QED
    BY <2>2, <2>3
<1> HIDE DEF Good
<1>14. ASSUME bad # {} PROVE FALSE
  <2>1. PICK m \in bad : \A j \in bad : m <= j
    <3>1. bad \subseteq Nat
      OBVIOUS
    <3> HIDE DEF bad
    <3> QED
      BY <1>14, <3>1, LeastIn
  <2>2. m # 0
    BY <1>12, <2>1
  <2>3. PICK a : a = m - 1
    OBVIOUS
  <2>4. a \in Nat /\ a + 1 = m /\ a < N /\ a <= N /\ a \notin bad
    BY <1>2, <2>1, <2>2, <2>3
  <2>5. Good(a)
    BY <2>4
  <2>6. Good(a + 1)
    BY <1>13, <2>4, <2>5
  <2> QED
    BY <2>1, <2>4, <2>6
<1>15. Good(N)
  BY <1>2, <1>14
<1>16. Small(R[N]) /\ Further(found, R[N]) = R[N]
  <2>1. Cardinality(R[N]) \in Nat /\ Cardinality(R[N]) <= N
    BY <1>8, <1>11, <1>15 DEF Good
  <2> QED
    BY <1>2, <1>15, <2>1 DEF Good
<1> QED
  BY <1>3, <1>6, <1>16 DEF Small

\* What a proposition rests on are its premises and what they rest on.
LEMMA RestOf ==
  ASSUME NEW found, InNodes(found), NEW key
  PROVE  \A x : x \in RestsOn(found, key)
                 <=> \E c \in Whens(found, key) : x = c \/ x \in RestsOn(found, c)
<1> DEFINE S == {x \in Nodes : \E c \in Whens(found, key) : x = c \/ x \in RestsOn(found, c)}
<1>1. \A k : /\ Whens(found, k) \subseteq RestsOn(found, k)
              /\ RestsOn(found, k) \subseteq Nodes
              /\ IsWhole(found, RestsOn(found, k))
  BY RestIs
<1>2. Whens(found, key) \subseteq S
  BY DEF InNodes
<1>3. IsWhole(found, S)
  BY <1>1 DEF IsWhole, InNodes
<1>4. RestsOn(found, key) \subseteq S
  <2> HIDE DEF S
  <2> QED
    BY <1>2, <1>3, RestIs
<1>5. ASSUME NEW c \in Whens(found, key) PROVE RestsOn(found, c) \subseteq RestsOn(found, key)
  <2>1. c \in RestsOn(found, key)
    BY <1>1
  <2>2. Whens(found, c) \subseteq RestsOn(found, key)
    BY <1>1, <2>1 DEF IsWhole
  <2> QED
    BY <1>1, <2>2, RestIs
<1> QED
  BY <1>1, <1>4, <1>5

\* One call of the recursion of Resolve, "f" having the answers of all calls.
Below(found, A, k, f) == {f[<<A \union {k}, child>>] : child \in Whens(found, k)}
Judged(found, A, k, below) ==
  IF k \in A \/ k[1] \notin Headings \ StructHeadings THEN "throws"
  ELSE IF "throws" \in below THEN "throws"
  ELSE IF ~IsProved(found, k) THEN "unproven"
  ELSE IF below \subseteq {"proven"} THEN "proven" ELSE "conditional-proven"

\* The calls that Resolve makes.
Answers(found, key, F) ==
  /\ Resolve(found, key) = F[<<{}, key>>]
  /\ \A A \in SUBSET Nodes, k \in Nodes :
       F[<<A, k>>] = Judged(found, A, k, Below(found, A, k, F))

\* What is left to add to the ancestors.
Left(A) == Cardinality(Nodes \ A)

LEMMA LeftIs ==
  /\ \A A \in SUBSET Nodes : Left(A) \in Nat /\ Left(A) <= Cardinality(Nodes)
  /\ \A A \in SUBSET Nodes : \A k \in Nodes :
       k \notin A => A \union {k} \in SUBSET Nodes /\ Left(A \union {k}) < Left(A)
<1>1. ASSUME NEW A \in SUBSET Nodes
      PROVE  IsFiniteSet(Nodes \ A) /\ Left(A) \in Nat /\ Left(A) <= Cardinality(Nodes)
  BY NodesFinite, FS_Subset, FS_CardinalityType DEF Left
<1>2. ASSUME NEW A \in SUBSET Nodes, NEW k \in Nodes, k \notin A
      PROVE  A \union {k} \in SUBSET Nodes /\ Left(A \union {k}) < Left(A)
  <2>1. A \union {k} \in SUBSET Nodes
    OBVIOUS
  <2>2. /\ Nodes \ (A \union {k}) \in SUBSET (Nodes \ A)
        /\ Nodes \ (A \union {k}) # Nodes \ A
    BY <1>2
  <2>3. Left(A \union {k}) <= Left(A) /\ Left(A \union {k}) # Left(A)
    BY <1>1, <2>2, FS_Subset DEF Left
  <2>4. Left(A \union {k}) \in Nat /\ Left(A) \in Nat
    BY <1>1, <2>1
  <2> QED
    BY <2>1, <2>3, <2>4
<1> QED
  BY <1>1, <1>2

\* The recursion ends: a call has one more ancestor than its caller.
LEMMA ResolveCalls ==
  ASSUME NEW found, InNodes(found), NEW key \in Nodes
  PROVE  \E F : Answers(found, key, F)
<1> DEFINE D == (SUBSET Nodes) \X Nodes
           Body(f) == [p \in D |-> Judged(found, p[1], p[2], Below(found, p[1], p[2], f))]
           Right(f, m) == \A p \in D : Left(p[1]) <= m => f[p] = Body(f)[p]
           bad == {m \in Nat : ~ \E f : DOMAIN f = D /\ f = [p \in D |-> f[p]] /\ Right(f, m)}
<1>1. PICK N : N = Cardinality(Nodes) /\ N \in Nat
  BY NodesFinite
<1>2. \A p \in D : p[1] \in SUBSET Nodes /\ p[2] \in Nodes /\ Left(p[1]) \in Nat /\ Left(p[1]) <= N
  BY <1>1, LeftIs
<1>3. ASSUME NEW f, NEW g, NEW p \in D,
             p[2] \notin p[1] =>
               \A c \in Whens(found, p[2]) :
                 f[<<p[1] \union {p[2]}, c>>] = g[<<p[1] \union {p[2]}, c>>]
      PROVE  Judged(found, p[1], p[2], Below(found, p[1], p[2], f))
             = Judged(found, p[1], p[2], Below(found, p[1], p[2], g))
  <2>1. CASE p[2] \in p[1]
    BY <2>1 DEF Judged
  <2>2. CASE p[2] \notin p[1]
    <3>1. Below(found, p[1], p[2], f) = Below(found, p[1], p[2], g)
      BY <1>3, <2>2 DEF Below
    <3> QED
      BY <3>1
  <2> QED
    BY <2>1, <2>2
<1>4. ASSUME NEW m \in Nat, NEW f, \A p \in D : Left(p[1]) < m => f[p] = Body(f)[p]
      PROVE  Right(Body(f), m)
  <2>1. PICK g : g = Body(f)
    OBVIOUS
  <2>2. ASSUME NEW p \in D, Left(p[1]) <= m PROVE g[p] = Body(g)[p]
    <3>1. ASSUME p[2] \notin p[1], NEW c \in Whens(found, p[2])
          PROVE  f[<<p[1] \union {p[2]}, c>>] = g[<<p[1] \union {p[2]}, c>>]
      <4>1. PICK A : A = p[1] \union {p[2]}
        OBVIOUS
      <4>2. A \in SUBSET Nodes /\ Left(A) < Left(p[1]) /\ Left(A) \in Nat
        BY <1>2, <3>1, <4>1, LeftIs
      <4>3. <<A, c>> \in D /\ <<A, c>>[1] = A /\ Left(A) < m
        BY <1>2, <2>2, <4>2 DEF InNodes
      <4>4. f[<<A, c>>] = Body(f)[<<A, c>>]
        BY <1>4, <4>3
      <4> QED
        BY <2>1, <4>1, <4>4
    <3>2. Judged(found, p[1], p[2], Below(found, p[1], p[2], f))
          = Judged(found, p[1], p[2], Below(found, p[1], p[2], g))
      BY <1>3, <3>1
    <3> QED
      BY <2>1, <3>2
  <2> QED
    BY <2>1, <2>2
<1>5. \A f : DOMAIN Body(f) = D /\ Body(f) = [p \in D |-> Body(f)[p]]
  OBVIOUS
<1>6. \A m \in Nat : m \in bad <=> ~ \E f : DOMAIN f = D /\ f = [p \in D |-> f[p]] /\ Right(f, m)
  OBVIOUS
<1>7. ASSUME bad # {} PROVE FALSE
  <2>1. PICK m \in bad : \A j \in bad : m <= j
    <3>1. bad \subseteq Nat
      OBVIOUS
    <3> HIDE DEF bad
    <3> QED
      BY <1>7, <3>1, LeastIn
  <2>2. m \in Nat
    OBVIOUS
  <2>3. \E f : \A p \in D : Left(p[1]) < m => f[p] = Body(f)[p]
    <3>1. CASE m = 0
      <4>1. \A p \in D : ~(Left(p[1]) < m)
        BY <1>2, <3>1
      <4>2. \A p \in D : Left(p[1]) < m => <<>>[p] = Body(<<>>)[p]
        BY <4>1
      <4> HIDE DEF Body
      <4> QED
        BY <4>2
    <3>2. CASE m # 0
      <4>1. PICK a : a = m - 1
        OBVIOUS
      <4>2. a \in Nat /\ a < m /\ \A n \in Nat : n < m => n <= a
        BY <2>2, <3>2, <4>1
      <4>3. a \notin bad
        <5> HIDE DEF bad
        <5> QED
          BY <2>1, <2>2, <4>2
      <4>4. PICK f : Right(f, a)
        BY <1>6, <4>2, <4>3
      <4> QED
        BY <1>2, <4>2, <4>4
    <3> QED
      BY <3>1, <3>2
  <2>4. PICK f : Right(Body(f), m)
    <3>1. PICK f : \A p \in D : Left(p[1]) < m => f[p] = Body(f)[p]
      BY <2>3
    <3> HIDE DEF Right, Body
    <3>2. Right(Body(f), m)
      BY <1>4, <2>2, <3>1
    <3> QED
      BY <3>2
  <2>5. PICK g : g = Body(f)
    OBVIOUS
  <2>6. DOMAIN g = D /\ g = [p \in D |-> g[p]] /\ Right(g, m)
    BY <1>5, <2>4, <2>5
  <2> QED
    BY <1>6, <2>2, <2>6
<1>8. PICK f : f = [p \in D |-> f[p]] /\ Right(f, N)
  BY <1>1, <1>6, <1>7
<1>9. f = Body(f)
  BY <1>2, <1>8
<1> DEFINE F == CHOOSE g : g = Body(g)
<1>10. F = Body(F)
  BY <1>9
<1>11. Resolve(found, key) = F[<<{}, key>>]
  BY DEF Resolve, Judged, Below
<1> HIDE DEF F
<1>12. ASSUME NEW A \in SUBSET Nodes, NEW k \in Nodes
       PROVE  F[<<A, k>>] = Judged(found, A, k, Below(found, A, k, F))
  <2>1. <<A, k>> \in D
    OBVIOUS
  <2> QED
    BY <1>10, <2>1
<1> QED
  BY <1>11, <1>12 DEF Answers

\* A proposition that the tree cannot be drawn for.
Refused(found, x) == x[1] \notin Headings \ StructHeadings \/ x \in RestsOn(found, x)

\* What the call with the ancestors A says of k.
JudgedRight(found, A, k, status) ==
  /\ (status = "throws") <=>
       \E x \in RestsOn(found, k) \union {k} : x \in A \/ Refused(found, x)
  /\ status # "throws" =>
       /\ (status = "proven") <=> \A x \in RestsOn(found, k) \union {k} : IsProved(found, x)
       /\ (status = "unproven") <=> ~IsProved(found, k)

LEMMA AllJudgedRight ==
  ASSUME NEW found, InNodes(found), NEW key \in Nodes, NEW F, Answers(found, key, F),
         NEW A \in SUBSET Nodes, NEW k \in Nodes,
         k \notin A => \A c \in Whens(found, k) :
                         JudgedRight(found, A \union {k}, c, F[<<A \union {k}, c>>])
  PROVE  JudgedRight(found, A, k, F[<<A, k>>])
<1>1. PICK s : s = F[<<A, k>>]
  OBVIOUS
<1>2. s = Judged(found, A, k, Below(found, A, k, F))
  BY <1>1 DEF Answers
<1>3. \A x : x \in RestsOn(found, k)
               <=> \E c \in Whens(found, k) : x = c \/ x \in RestsOn(found, c)
  BY RestOf
<1> DEFINE G(c) == F[<<A \union {k}, c>>]
<1>4. \A t : t \in Below(found, A, k, F) <=> \E c \in Whens(found, k) : t = G(c)
  BY DEF Below
<1> HIDE DEF G
<1>5. CASE k \in A \/ k[1] \notin Headings \ StructHeadings
  <2>1. s = "throws"
    BY <1>2, <1>5 DEF Judged
  <2>2. \E x \in RestsOn(found, k) \union {k} : x \in A \/ Refused(found, x)
    BY <1>5 DEF Refused
  <2> QED
    BY <1>1, <2>1, <2>2 DEF JudgedRight
<1>6. CASE k \notin A /\ k[1] \in Headings \ StructHeadings
  <2>1. \A c \in Whens(found, k) : JudgedRight(found, A \union {k}, c, G(c))
    BY <1>6 DEF G
  <2>2. CASE \E c \in Whens(found, k) : G(c) = "throws"
    <3>1. PICK c \in Whens(found, k) : G(c) = "throws"
      BY <2>2
    <3>2. s = "throws"
      BY <1>2, <1>4, <3>1 DEF Judged
    <3>3. PICK x \in RestsOn(found, c) \union {c} : x \in A \union {k} \/ Refused(found, x)
      BY <2>1, <3>1 DEF JudgedRight
    <3>4. x \in RestsOn(found, k)
      BY <1>3, <3>3
    <3>5. x = k => Refused(found, x)
      BY <3>4 DEF Refused
    <3>6. \E y \in RestsOn(found, k) \union {k} : y \in A \/ Refused(found, y)
      BY <3>3, <3>4, <3>5
    <3> QED
      BY <1>1, <3>2, <3>6 DEF JudgedRight
  <2>3. CASE \A c \in Whens(found, k) : G(c) # "throws"
    <3>1. /\ ~IsProved(found, k) => s = "unproven"
          /\ IsProved(found, k) /\ (\A c \in Whens(found, k) : G(c) = "proven") => s = "proven"
          /\ IsProved(found, k) /\ (\E c \in Whens(found, k) : G(c) # "proven") => s = "conditional-proven"
      BY <1>2, <1>4, <1>6, <2>3 DEF Judged
    <3>2. \A c \in Whens(found, k) : \A x \in RestsOn(found, c) \union {c} :
            ~(x \in A \union {k} \/ Refused(found, x))
      BY <2>1, <2>3 DEF JudgedRight
    <3>3. \A x \in RestsOn(found, k) : x \notin A /\ x # k /\ ~Refused(found, x)
      BY <1>3, <3>2
    <3>4. ~Refused(found, k)
      BY <1>6, <3>3 DEF Refused
    <3>5. \A x \in RestsOn(found, k) \union {k} : ~(x \in A \/ Refused(found, x))
      BY <1>6, <3>3, <3>4
    <3>6. \A c \in Whens(found, k) :
            G(c) = "proven" <=> \A x \in RestsOn(found, c) \union {c} : IsProved(found, x)
      BY <2>1, <2>3 DEF JudgedRight
    <3>7. (\A c \in Whens(found, k) : G(c) = "proven")
            <=> \A x \in RestsOn(found, k) : IsProved(found, x)
      BY <1>3, <3>6
    <3>8. s # "throws"
      BY <3>1
    <3>9. (s = "proven") <=> \A x \in RestsOn(found, k) \union {k} : IsProved(found, x)
      BY <3>1, <3>7
    <3>10. (s = "unproven") <=> ~IsProved(found, k)
      BY <3>1
    <3> QED
      BY <1>1, <3>5, <3>8, <3>9, <3>10 DEF JudgedRight
  <2> QED
    BY <2>2, <2>3
<1> QED
  BY <1>5, <1>6

\* The answer that is shown.
LEMMA ResolveTrue ==
  ASSUME NEW found, InNodes(found), NEW key \in Nodes
  PROVE  JudgedRight(found, {}, key, Resolve(found, key))
<1>1. PICK F : Answers(found, key, F)
  BY ResolveCalls
<1> DEFINE Wrong(A, k) == ~JudgedRight(found, A, k, F[<<A, k>>])
           bad == {n \in Nat : \E A \in SUBSET Nodes, k \in Nodes : Left(A) = n /\ Wrong(A, k)}
<1>2. bad \subseteq Nat
  OBVIOUS
<1>3. \A A \in SUBSET Nodes, k \in Nodes : Left(A) \in Nat /\ (Wrong(A, k) => Left(A) \in bad)
  BY LeftIs
<1>4. ASSUME bad # {} PROVE FALSE
  <2>1. PICK m \in bad : \A j \in bad : m <= j
    <3> HIDE DEF bad
    <3> QED
      BY <1>2, <1>4, LeastIn
  <2>2. PICK A \in SUBSET Nodes, k \in Nodes : Left(A) = m /\ Wrong(A, k)
    BY <2>1
  <2> HIDE DEF bad
  <2>3. ASSUME k \notin A, NEW c \in Whens(found, k) PROVE ~Wrong(A \union {k}, c)
    <3>1. A \union {k} \in SUBSET Nodes /\ Left(A \union {k}) < m /\ Left(A \union {k}) \in Nat
      BY <2>2, <2>3, LeftIs
    <3>2. c \in Nodes
      BY <2>3 DEF InNodes
    <3>3. m \in Nat
      BY <1>2, <2>1
    <3> HIDE DEF Wrong
    <3> QED
      BY <1>3, <2>1, <3>1, <3>2, <3>3
  <2>4. JudgedRight(found, A, k, F[<<A, k>>])
    BY <1>1, <2>3, AllJudgedRight
  <2> QED
    BY <2>2, <2>4
<1>5. {} \in SUBSET Nodes
  OBVIOUS
<1>6. JudgedRight(found, {}, key, F[<<{}, key>>])
  <2>1. ~Wrong({}, key)
    <3> HIDE DEF Wrong, bad
    <3> QED
      BY <1>3, <1>4, <1>5
  <2> QED
    BY <2>1
<1> QED
  BY <1>1, <1>6 DEF Answers

-----------------------------------------------------------------------------
(* The lines of a record. *)

\* A When line names a heading or a local value, the lines below it propositions.
IsLine(line) ==
  /\ line = Line(line.t, line.a)
  /\ line.t = "when" => line.a \in Headings \union {0}
  /\ line.t = "child" => line.a \in Props

AllLines(body) == \A i \in 1..Len(body) : IsLine(body[i])
BodyOK(body)   == IsSeq(body) /\ AllLines(body)

LEMMA FirstIs ==
  ASSUME NEW S, S \subseteq Nat
  PROVE  First(S) = 0 \/ First(S) \in S
<1>1. CASE S = {}
  BY <1>1 DEF First
<1>2. CASE S # {}
  <2>1. \E m \in S : \A k \in S : m <= k
    BY <1>2, LeastIn
  <2>2. First(S) = CHOOSE m \in S : \A k \in S : m <= k
    BY <1>2 DEF First, Min
  <2> QED
    BY <2>1, <2>2
<1> QED
  BY <1>1, <1>2

LEMMA BlockEndIs ==
  ASSUME NEW body, Len(body) \in Nat, NEW i \in Nat
  PROVE  BlockEnd(body, i) \in 1..Len(body) + 1
<1> DEFINE I == {Len(body) + 1} \union {j \in i + 1..Len(body) : ~IsIndented(body[j])}
<1>1. I \subseteq Nat /\ I \subseteq 1..Len(body) + 1 /\ I # {}
  OBVIOUS
<1>2. BlockEnd(body, i) = CHOOSE m \in I : \A k \in I : m <= k
  BY DEF BlockEnd, Min
<1> HIDE DEF I
<1>3. \E m \in I : \A k \in I : m <= k
  BY <1>1, LeastIn
<1> QED
  BY <1>1, <1>2, <1>3

\* Lines that are put between the others.
LEMMA SplicedOK ==
  ASSUME NEW body, BodyOK(body), NEW ls, BodyOK(ls), NEW from \in 1..Len(body) + 1,
         NEW k \in 1..Len(body) + 1
  PROVE  /\ BodyOK(Splice(body, from, k, ls))
         /\ Len(Splice(body, from, k, ls)) = (from - 1) + Len(ls) + (Len(body) + 1 - k)
<1>1. PICK S : body \in Seq(S) /\ ls \in Seq(S)
  BY BothSeq DEF BodyOK
<1>2. PICK r : r = Splice(body, from, k, ls)
  OBVIOUS
<1>3. PICK a : a = from - 1
  OBVIOUS
<1>4. /\ r \in Seq(S) /\ Len(r) = (from - 1) + Len(ls) + (Len(body) + 1 - k)
      /\ \A i \in 1..Len(r) : r[i] = SpliceAt(body, ls, a, k, i)
  BY <1>1, <1>2, <1>3, Spliced
<1>5. Len(body) \in Nat /\ Len(ls) \in Nat /\ a \in Nat /\ a <= Len(body) /\ Len(r) = a + Len(ls) + (Len(body) + 1 - k)
  BY <1>1, <1>3, <1>4
<1>6. ASSUME NEW i \in 1..Len(r) PROVE IsLine(r[i])
  <2>1. CASE i <= a
    <3>1. i \in 1..Len(body) /\ r[i] = body[i]
      BY <1>4, <1>5, <2>1 DEF SpliceAt
    <3> QED
      BY <3>1 DEF BodyOK, AllLines
  <2>2. CASE ~(i <= a) /\ i <= a + Len(ls)
    <3>1. i - a \in 1..Len(ls) /\ r[i] = ls[i - a]
      BY <1>4, <1>5, <2>2 DEF SpliceAt
    <3> QED
      BY <3>1 DEF BodyOK, AllLines
  <2>3. CASE ~(i <= a) /\ ~(i <= a + Len(ls))
    <3>1. k + (i - (a + Len(ls))) - 1 \in 1..Len(body)
      BY <1>5, <2>3
    <3>2. r[i] = body[k + (i - (a + Len(ls))) - 1]
      BY <1>4, <2>3 DEF SpliceAt
    <3> QED
      BY <3>1, <3>2 DEF BodyOK, AllLines
  <2> QED
    BY <2>1, <2>2, <2>3
<1> QED
  BY <1>2, <1>4, <1>6 DEF BodyOK, AllLines, IsSeq

LEMMA ShortBodies ==
  /\ BodyOK(<<>>) /\ Len(<<>>) = 0
  /\ \A x : IsLine(x) => BodyOK(<<x>>)
  /\ \A x, y : IsLine(x) /\ IsLine(y) => BodyOK(<<x, y>>)
<1>1. BodyOK(<<>>) /\ Len(<<>>) = 0
  BY DEF BodyOK, AllLines, IsSeq
<1>2. ASSUME NEW x, IsLine(x) PROVE BodyOK(<<x>>)
  <2>1. PICK s : s = <<x>>
    OBVIOUS
  <2>2. s \in Seq({x}) /\ Len(s) = 1 /\ s[1] = x
    BY <2>1
  <2>3. \A i \in 1..Len(s) : IsLine(s[i])
    <3>1. \A i \in 1..1 : i = 1
      OBVIOUS
    <3> QED
      BY <1>2, <2>2, <3>1
  <2> QED
    BY <2>1, <2>2, <2>3 DEF BodyOK, AllLines, IsSeq
<1>3. ASSUME NEW x, NEW y, IsLine(x), IsLine(y) PROVE BodyOK(<<x, y>>)
  <2>1. PICK s : s = <<x, y>>
    OBVIOUS
  <2>2. s \in Seq({x, y}) /\ Len(s) = 2 /\ s[1] = x /\ s[2] = y
    BY <2>1
  <2>3. \A i \in 1..Len(s) : IsLine(s[i])
    <3>1. \A i \in 1..2 : i = 1 \/ i = 2
      OBVIOUS
    <3> QED
      BY <1>3, <2>2, <3>1
  <2> QED
    BY <2>1, <2>2, <2>3 DEF BodyOK, AllLines, IsSeq
<1> QED
  BY <1>1, <1>2, <1>3

LEMMA LinesAre ==
  /\ \A t, a : t \notin {"when", "child"} => IsLine(Line(t, a))
  /\ \A f \in Premises, p \in Props : IsLine(Line("when", f)) /\ IsLine(Line("child", p))
  BY NotesAssumption DEF IsLine, Line

LEMMA JoinedOK ==
  ASSUME NEW body, BodyOK(body), NEW ls, BodyOK(ls)
  PROVE  BodyOK(body \o ls)
<1>1. PICK S : body \in Seq(S) /\ ls \in Seq(S)
  BY BothSeq DEF BodyOK
<1>2. PICK r : r = body \o ls
  OBVIOUS
<1>3. /\ r \in Seq(S) /\ Len(r) = Len(body) + Len(ls)
      /\ \A i \in 1..Len(body) + Len(ls) : r[i] = IF i <= Len(body) THEN body[i] ELSE ls[i - Len(body)]
  BY <1>1, <1>2, ConcatProperties
<1>4. Len(body) \in Nat /\ Len(ls) \in Nat
  BY <1>1
<1>5. ASSUME NEW i \in 1..Len(r) PROVE IsLine(r[i])
  <2>1. CASE i <= Len(body)
    BY <1>3, <1>4, <2>1 DEF BodyOK, AllLines
  <2>2. CASE ~(i <= Len(body))
    <3>1. i - Len(body) \in 1..Len(ls) /\ r[i] = ls[i - Len(body)]
      BY <1>3, <1>4, <2>2
    <3> QED
      BY <3>1 DEF BodyOK, AllLines
  <2> QED
    BY <2>1, <2>2
<1> QED
  BY <1>2, <1>3, <1>5 DEF BodyOK, AllLines, IsSeq

LEMMA InsertOK ==
  ASSUME NEW body, BodyOK(body), NEW i \in Nat, NEW ls, BodyOK(ls)
  PROVE  BodyOK(Insert(body, BlockEnd(body, i), ls))
<1>1. Len(body) \in Nat
  <2>1. PICK S : body \in Seq(S)
    BY DEF BodyOK, IsSeq
  <2> QED
    BY <2>1
<1>2. BlockEnd(body, i) \in 1..Len(body) + 1
  BY <1>1, BlockEndIs
<1> QED
  BY <1>2, SplicedOK DEF Insert

LEMMA WithoutOK ==
  ASSUME NEW body, BodyOK(body), NEW i \in 1..Len(body)
  PROVE  BodyOK(Without(body, i)) /\ Len(Without(body, i)) = Len(body) - 1
<1>1. Len(body) \in Nat
  <2>1. PICK S : body \in Seq(S)
    BY DEF BodyOK, IsSeq
  <2> QED
    BY <2>1
<1>2. i \in 1..Len(body) + 1 /\ i + 1 \in 1..Len(body) + 1
  BY <1>1
<1>3. PICK k : k = i + 1
  OBVIOUS
<1>4. PICK e : e = <<>>
  OBVIOUS
<1>5. BodyOK(e)
  BY <1>4, ShortBodies
<1>6. Len(e) = 0
  BY <1>4, ShortBodies
<1>7. i \in 1..Len(body) + 1 /\ k \in 1..Len(body) + 1
  BY <1>2, <1>3
<1>8. \A from, to \in 1..Len(body) + 1 :
        /\ BodyOK(Splice(body, from, to, e))
        /\ Len(Splice(body, from, to, e)) = (from - 1) + Len(e) + (Len(body) + 1 - to)
  BY <1>5, SplicedOK
<1>9. BodyOK(Splice(body, i, k, e)) /\ Len(Splice(body, i, k, e)) = (i - 1) + Len(e) + (Len(body) + 1 - k)
  BY <1>7, <1>8
<1> QED
  BY <1>1, <1>3, <1>4, <1>9, <1>6 DEF Without

\* The places that the changes of a body are made at.
LEMMA PlacesAre ==
  ASSUME NEW body, Len(body) \in Nat, NEW c, NEW f, NEW p
  PROVE  /\ Con(body, c) \in 0..Len(body) /\ (Con(body, c) # 0 => body[Con(body, c)] = Line("conj", c))
         /\ WhenOf(body, c, f) \in 0..Len(body)
         /\ Child(body, c, f, p) \in 0..Len(body)
         /\ Child(body, c, f, p) # 0 => WhenOf(body, c, f) # 0 /\ WhenOf(body, c, f) < Child(body, c, f, p)
<1>1. /\ Is(body, "conj", c) \subseteq 1..Len(body)
      /\ \A i \in Is(body, "conj", c) : body[i] = Line("conj", c)
  BY DEF Is
<1>2. Con(body, c) = 0 \/ Con(body, c) \in Is(body, "conj", c)
  <2>1. Is(body, "conj", c) \subseteq Nat
    BY <1>1
  <2> QED
    BY <2>1, FirstIs DEF Con
<1> DEFINE W == {i \in Is(body, "when", f) : i > Con(body, c)}
<1>3. W \subseteq Nat /\ W \subseteq 1..Len(body)
  BY DEF Is
<1>4. WhenOf(body, c, f) = First(W)
  BY DEF WhenOf
<1> HIDE DEF W
<1>5. WhenOf(body, c, f) = 0 \/ WhenOf(body, c, f) \in 1..Len(body)
  BY <1>3, <1>4, FirstIs
<1>6. PICK w : w = WhenOf(body, c, f)
  OBVIOUS
<1> DEFINE C == {i \in Is(body, "child", p) : i \in w + 1..BlockEnd(body, w) - 1}
<1>7. CASE w = 0
  BY <1>1, <1>2, <1>5, <1>6, <1>7 DEF Child
<1>8. CASE w # 0
  <2>1. w \in 1..Len(body) /\ BlockEnd(body, w) \in 1..Len(body) + 1
    BY <1>5, <1>6, <1>8, BlockEndIs
  <2>2. C \subseteq Nat /\ \A i \in C : i \in 1..Len(body) /\ w < i
    BY <2>1 DEF Is
  <2>3. Child(body, c, f, p) = First(C)
    BY <1>6, <1>8 DEF Child
  <2> HIDE DEF C
  <2>4. First(C) = 0 \/ First(C) \in C
    BY <2>2, FirstIs
  <2>5. First(C) = 0 \/ (First(C) \in 1..Len(body) /\ w < First(C))
    BY <2>2, <2>4
  <2> QED
    BY <1>1, <1>2, <1>5, <1>6, <1>8, <2>3, <2>5
<1> QED
  BY <1>7, <1>8

LEMMA BodyLength == \A body : BodyOK(body) => Len(body) \in Nat
<1> SUFFICES ASSUME NEW body, BodyOK(body) PROVE Len(body) \in Nat
  OBVIOUS
<1>1. PICK S : body \in Seq(S)
  BY DEF BodyOK, IsSeq
<1> QED
  BY <1>1

LEMMA ProvedOK ==
  ASSUME NEW body, BodyOK(body), NEW c, Provable(body, c)
  PROVE  BodyOK(Proved(body, c))
<1>1. Len(body) \in Nat
  BY BodyLength
<1>2. PICK i : i = Con(body, c)
  OBVIOUS
<1>3. i \in 1..Len(body)
  BY <1>1, <1>2, PlacesAre DEF Provable
<1> DEFINE thm == Line("thm", c)
           b == [body EXCEPT ![i] = thm]
<1>4. IsLine(thm) /\ BodyOK(<<Line("proof", 0)>>)
  BY LinesAre, ShortBodies
<1> HIDE DEF thm
<1>5. BodyOK(b)
  <2>1. PICK S : body \in Seq(S)
    BY DEF BodyOK, IsSeq
  <2>2. body \in Seq(S \union {thm})
    BY <2>1
  <2>3. b \in Seq(S \union {thm}) /\ Len(b) = Len(body)
        /\ \A n \in 1..Len(body) : b[n] = IF n = i THEN thm ELSE body[n]
    BY <1>3, <2>2, ExceptSeq
  <2> HIDE DEF b
  <2> QED
    BY <1>4, <2>3 DEF BodyOK, AllLines, IsSeq
<1>6. Proved(body, c) = Splice(b, BlockEnd(body, i), BlockEnd(body, i), <<Line("proof", 0)>>)
  BY <1>2 DEF Proved, Insert, thm
<1>7. Len(b) = Len(body)
  <2>1. PICK S : body \in Seq(S)
    BY DEF BodyOK, IsSeq
  <2>2. body \in Seq(S \union {thm})
    BY <2>1
  <2> QED
    BY <1>3, <2>2, ExceptSeq
<1> HIDE DEF b
<1>8. BlockEnd(body, i) \in 1..Len(b) + 1
  BY <1>1, <1>3, <1>7, BlockEndIs
<1> QED
  BY <1>4, <1>5, <1>6, <1>8, SplicedOK

LEMMA PremiseAddedOK ==
  ASSUME NEW body, BodyOK(body), NEW c, NEW f \in Premises, NEW p \in Props
  PROVE  BodyOK(PremiseAdded(body, c, f, p))
<1>1. Len(body) \in Nat
  BY BodyLength
<1>2. WhenOf(body, c, f) \in Nat /\ Con(body, c) \in Nat
  BY <1>1, PlacesAre
<1>3. BodyOK(<<Line("child", p)>>) /\ BodyOK(<<Line("when", f), Line("child", p)>>)
  BY LinesAre, ShortBodies
<1> QED
  BY <1>2, <1>3, InsertOK DEF PremiseAdded

LEMMA PremiseRemovedOK ==
  ASSUME NEW body, BodyOK(body), NEW c, NEW f, NEW p, Child(body, c, f, p) # 0
  PROVE  BodyOK(PremiseRemoved(body, c, f, p))
<1>1. Len(body) \in Nat
  BY BodyLength
<1>2. PICK w, k : w = WhenOf(body, c, f) /\ k = Child(body, c, f, p)
  OBVIOUS
<1>3. k \in 1..Len(body) /\ w \in 1..Len(body) - 1
  BY <1>1, <1>2, PlacesAre
<1>4. PICK rest : rest = Without(body, k)
  OBVIOUS
<1>5. BodyOK(rest) /\ Len(rest) = Len(body) - 1
  BY <1>3, <1>4, WithoutOK
<1>6. BodyOK(Without(rest, w))
  <2>1. w \in 1..Len(rest)
    BY <1>3, <1>5
  <2> QED
    BY <1>5, <2>1, WithoutOK
<1> QED
  BY <1>2, <1>4, <1>5, <1>6 DEF PremiseRemoved

\* Premises are what can be asked for.
LEMMA PremisesOK ==
  ASSUME NEW body, BodyOK(body), NEW i \in Nat
  PROVE  PremisesAt(body, i) \subseteq Nodes
<1>1. Len(body) \in Nat /\ BlockEnd(body, i) \in 1..Len(body) + 1
  BY BodyLength, BlockEndIs
<1>2. PICK J : J = i + 1..BlockEnd(body, i) - 1
  OBVIOUS
<1>3. J \subseteq 1..Len(body)
  BY <1>1, <1>2
<1>4. ASSUME NEW q \in J \X J, q[1] < q[2], body[q[1]].t = "when",
             \A j \in q[1] + 1..q[2] : body[j].t = "child"
      PROVE  <<body[q[1]].a, body[q[2]].a>> \in Nodes
  <2>1. q[1] \in 1..Len(body) /\ q[2] \in 1..Len(body)
    BY <1>3
  <2>2. body[q[2]].t = "child"
    BY <1>1, <1>4, <2>1
  <2>3. IsLine(body[q[1]]) /\ IsLine(body[q[2]])
    BY <2>1 DEF BodyOK, AllLines
  <2> QED
    BY <1>4, <2>2, <2>3 DEF IsLine, Nodes
<1> QED
  BY <1>2, <1>4 DEF PremisesAt

LEMMA WhensOK ==
  ASSUME NEW found, \A h \in DOMAIN found : BodyOK(found[h])
  PROVE  InNodes(found)
<1> SUFFICES ASSUME NEW k, IsNoted(found, k) PROVE Whens(found, k) \subseteq Nodes
  BY DEF InNodes, Whens
<1>1. PICK body : body = found[k[1]]
  OBVIOUS
<1>2. BodyOK(body) /\ Len(body) \in Nat
  BY <1>1, BodyLength DEF IsNoted
<1>3. PICK i : i = Proposition(body, k[2])
  OBVIOUS
<1>4. i \in Nat
  <2>1. Is(body, "conj", k[2]) \union Is(body, "thm", k[2]) \subseteq Nat
    BY <1>2 DEF Is
  <2> QED
    BY <1>3, <2>1, FirstIs DEF Proposition
<1> QED
  BY <1>1, <1>2, <1>3, <1>4, PremisesOK DEF Whens

BodiesOK(recs) == \A i \in 1..Len(recs) : BodyOK(recs[i].body)

\* The bodies of all records, and of those that are being written.
BodiesInv ==
  /\ \A n \in 1..Len(folder) : BodiesOK(folder[n].recs)
  /\ noteStep # "idle" => BodiesOK(pending.new.recs)

\* A rewriting brings no body in but that of the record it writes.
LEMMA RewrittenBodies ==
  ASSUME NEW h \in Headings, NEW path, NEW recs, RecordsOK(path, recs), NEW rec, IsRecord(h, rec),
         BodiesOK(recs), BodiesOK(rec)
  PROVE  BodiesOK(Rewritten(recs, h, rec))
<1> DEFINE pos == LowerBound(recs, h)
           k == IF HasRecord(recs, h) THEN pos + 1 ELSE pos
<1>1. Len(recs) \in Nat /\ pos \in 1..Len(recs) + 1 /\ k \in {pos, pos + 1} /\ k <= Len(recs) + 1
  BY AroundBound
<1>2. PICK r : r = Rewritten(recs, h, rec)
  OBVIOUS
<1>3. r = Splice(recs, pos, k, rec)
  BY <1>2 DEF Rewritten
<1> HIDE DEF pos, k
<1>4. IsSeq(rec) /\ Len(rec) \in Nat
  BY RecordFacts
<1>5. PICK S : recs \in Seq(S) /\ rec \in Seq(S)
  BY <1>4, BothSeq DEF RecordsOK
<1>6. PICK a : a = pos - 1
  OBVIOUS
<1>7. a \in Nat /\ a <= Len(recs) /\ k \in 1..Len(recs) + 1
  BY <1>1, <1>6
<1>8. /\ Len(r) = (pos - 1) + Len(rec) + (Len(recs) + 1 - k)
      /\ \A i \in 1..Len(r) : r[i] = SpliceAt(recs, rec, a, k, i)
  BY <1>1, <1>3, <1>5, <1>6, <1>7, Spliced
<1>9. ASSUME NEW i \in 1..Len(r) PROVE BodyOK(r[i].body)
  <2>1. CASE i <= a
    <3>1. i \in 1..Len(recs) /\ r[i] = recs[i]
      BY <1>1, <1>7, <1>8, <2>1 DEF SpliceAt
    <3> QED
      BY <3>1 DEF BodiesOK
  <2>2. CASE ~(i <= a) /\ i <= a + Len(rec)
    <3>1. i - a \in 1..Len(rec) /\ r[i] = rec[i - a]
      BY <1>4, <1>7, <1>8, <2>2 DEF SpliceAt
    <3> QED
      BY <3>1 DEF BodiesOK
  <2>3. CASE ~(i <= a) /\ ~(i <= a + Len(rec))
    <3>1. k + (i - (a + Len(rec))) - 1 \in 1..Len(recs)
      BY <1>1, <1>4, <1>6, <1>7, <1>8, <2>3
    <3>2. r[i] = recs[k + (i - (a + Len(rec))) - 1]
      BY <1>8, <2>3 DEF SpliceAt
    <3> QED
      BY <3>1, <3>2 DEF BodiesOK
  <2> QED
    BY <2>1, <2>2, <2>3
<1> QED
  BY <1>2, <1>9 DEF BodiesOK

\* What a source's file has of a heading.
LEMMA FoundBodies ==
  ASSUME NoteInv, BodiesInv, NEW found, found = RecordsFound(folder)
  PROVE  DOMAIN found \subseteq Headings /\ \A h \in DOMAIN found : BodyOK(found[h])
<1> DEFINE at(h) == NoteFile(folder, SourceOf[h])
           RecsOf(h) == IF at(h) <= Len(folder) THEN folder[at(h)].recs ELSE <<>>
<1>1. found = [h \in {g \in Headings : HasRecord(RecsOf(g), g)} |->
                RecsOf(h)[LowerBound(RecsOf(h), h)].body]
  BY DEF RecordsFound
<1>2. ASSUME NEW h \in Headings, HasRecord(RecsOf(h), h)
      PROVE  BodyOK(RecsOf(h)[LowerBound(RecsOf(h), h)].body)
  <2>1. PICK S : folder \in Seq(S)
    BY DEF NoteInv, FolderOK, IsSeq
  <2>2. Len(folder) \in Nat /\ SourceOf[h] \in Nat \ {0}
    BY <2>1, NotesAssumption
  <2>3. /\ at(h) \in 1..Len(folder) + 1
        /\ at(h) <= Len(folder) => folder[at(h)].path = SourceOf[h]
    BY <2>2, NoteFileIs
  <2>4. RecordsOK(SourceOf[h], RecsOf(h)) /\ BodiesOK(RecsOf(h))
    <3>1. CASE at(h) <= Len(folder)
      <4>1. PICK n : n = at(h)
        OBVIOUS
      <4>2. n \in 1..Len(folder) /\ folder[n].path = SourceOf[h] /\ RecsOf(h) = folder[n].recs
        BY <2>2, <2>3, <3>1, <4>1
      <4>3. folder[n] # Empty
        BY <2>2, <4>2, EmptyFile
      <4> QED
        BY <4>2, <4>3 DEF NoteInv, FolderOK, FileOK, BodiesInv
    <3>2. CASE ~(at(h) <= Len(folder))
      <4>1. RecsOf(h) = <<>>
        BY <3>2
      <4>2. RecordsOK(SourceOf[h], <<>>) /\ BodiesOK(<<>>)
        BY DEF RecordsOK, IsSeq, Ascending, BodiesOK
      <4> QED
        BY <4>1, <4>2
    <3> QED
      BY <3>1, <3>2
  <2>5. PICK recs : recs = RecsOf(h)
    OBVIOUS
  <2> HIDE DEF RecsOf
  <2>6. Len(recs) \in Nat /\ LowerBound(recs, h) \in 1..Len(recs) + 1
    BY <2>4, <2>5, AroundBound
  <2>7. LowerBound(recs, h) \in 1..Len(recs)
    BY <1>2, <2>5, <2>6 DEF HasRecord
  <2> QED
    BY <2>4, <2>5, <2>7 DEF BodiesOK
<1> HIDE DEF RecsOf
<1> QED
  BY <1>1, <1>2

\* The record that a command writes has lines of the four kinds that commands know.
LEMMA CommandBodies ==
  ASSUME NoteInv, BodiesInv, NEW h \in Headings, Command(h)
  PROVE  \E rec : IsRecord(h, rec) /\ BodiesOK(rec) /\ Rewrite(h, rec)
<1> DEFINE Goal == \E rec : IsRecord(h, rec) /\ BodiesOK(rec) /\ Rewrite(h, rec)
<1>1. \A body \in NoteOf(h) : BodyOK(body)
  <2>1. PICK found : found = RecordsFound(folder)
    OBVIOUS
  <2>2. \A g \in DOMAIN found : BodyOK(found[g])
    BY <2>1, FoundBodies
  <2> QED
    BY <2>1, <2>2 DEF NoteOf
<1>2. ASSUME NEW body, BodyOK(body), Rewrite(h, <<Record(h, body)>>) PROVE Goal
  <2>1. PICK rec : rec = <<Record(h, body)>>
    OBVIOUS
  <2>2. Len(rec) = 1 /\ rec[1].body = body
    BY <2>1 DEF Record
  <2>3. BodiesOK(rec)
    <3>1. \A i \in 1..1 : i = 1
      OBVIOUS
    <3> QED
      BY <1>2, <2>2, <3>1 DEF BodiesOK
  <2> QED
    BY <1>2, <2>1, <2>3 DEF IsRecord
<1>3. ASSUME NEW lines, BodyOK(lines), AppendNote(h, lines) PROVE Goal
  <2>1. PICK body \in IF NoteOf(h) = {} THEN {<<>>} ELSE NoteOf(h) : Rewrite(h, <<Record(h, body \o lines)>>)
    BY <1>3 DEF AppendNote
  <2>2. BodyOK(body)
    BY <1>1, ShortBodies
  <2>3. BodyOK(body \o lines)
    BY <1>3, <2>2, JoinedOK
  <2> HIDE DEF Goal
  <2> QED
    BY <1>2, <2>1, <2>3
<1>4. ASSUME DeleteNote(h) PROVE Goal
  <2>1. BodiesOK(<<>>)
    BY DEF BodiesOK
  <2> QED
    BY <1>4, <2>1 DEF DeleteNote, IsRecord
<1>5. ASSUME NEW c, ProveNote(h, c) PROVE Goal
  <2>1. PICK body \in NoteOf(h) : Provable(body, c) /\ Rewrite(h, <<Record(h, Proved(body, c))>>)
    BY <1>5 DEF ProveNote
  <2>2. BodyOK(Proved(body, c))
    BY <1>1, <2>1, ProvedOK
  <2> HIDE DEF Goal
  <2> QED
    BY <1>2, <2>1, <2>2
<1>6. ASSUME NEW c, NEW f \in Premises, NEW p \in Props, AddPremise(h, c, f, p) PROVE Goal
  <2>1. PICK body \in NoteOf(h) : Rewrite(h, <<Record(h, PremiseAdded(body, c, f, p))>>)
    BY <1>6 DEF AddPremise
  <2>2. BodyOK(PremiseAdded(body, c, f, p))
    BY <1>1, PremiseAddedOK
  <2> HIDE DEF Goal
  <2> QED
    BY <1>2, <2>1, <2>2
<1>7. ASSUME NEW c, NEW f \in Premises, NEW p \in Props, RemovePremise(h, c, f, p) PROVE Goal
  <2>1. PICK body \in NoteOf(h) :
          Child(body, c, f, p) # 0 /\ Rewrite(h, <<Record(h, PremiseRemoved(body, c, f, p))>>)
    BY <1>7 DEF RemovePremise
  <2>2. BodyOK(PremiseRemoved(body, c, f, p))
    BY <1>1, <2>1, PremiseRemovedOK
  <2> HIDE DEF Goal
  <2> QED
    BY <1>2, <2>1, <2>2
<1>8. BodyOK(<<Line("text", 0)>>) /\ \A c : BodyOK(<<Line("conj", c), Line("dsc", 0)>>)
  BY LinesAre, ShortBodies
<1> HIDE DEF Goal
<1>9. Goal
  BY <1>3, <1>4, <1>5, <1>6, <1>7, <1>8 DEF Command
<1> QED
  BY <1>9 DEF Goal

LEMMA RewriteBodies ==
  ASSUME NoteInv, BodiesInv, NEW h \in Headings, NEW rec, IsRecord(h, rec), BodiesOK(rec), Rewrite(h, rec)
  PROVE  BodiesInv'
<1> DEFINE s == SourceOf[h]
           at == NoteFile(folder, s)
           dir == IF at <= Len(folder) THEN folder ELSE Append(folder, File(s, <<>>))
           file == File(dir[at].path, Rewritten(dir[at].recs, h, rec))
<1>1. folder' = dir /\ pending' = [at |-> at, old |-> dir[at], new |-> file]
  BY DEF Rewrite
<1>2. PICK S : folder \in Seq(S)
  BY DEF NoteInv, FolderOK, IsSeq
<1>3. Len(folder) \in Nat /\ s \in Nat \ {0}
  BY <1>2, NotesAssumption
<1>4. /\ at \in 1..Len(folder) + 1
      /\ at <= Len(folder) => folder[at].path = s
  BY <1>3, NoteFileIs
<1> HIDE DEF at
<1>5. /\ \A n \in 1..Len(dir) : BodiesOK(dir[n].recs)
      /\ RecordsOK(s, dir[at].recs) /\ BodiesOK(dir[at].recs)
  <2>1. CASE at <= Len(folder)
    <3>1. dir = folder /\ at \in 1..Len(folder) /\ folder[at].path = s
      BY <1>3, <1>4, <2>1
    <3>2. folder[at] # Empty
      BY <1>3, <3>1, EmptyFile
    <3> QED
      BY <3>1, <3>2 DEF NoteInv, FolderOK, FileOK, BodiesInv
  <2>2. CASE ~(at <= Len(folder))
    <3> DEFINE fresh == File(s, <<>>)
    <3>1. at = Len(folder) + 1 /\ dir = Append(folder, fresh)
      BY <1>3, <1>4, <2>2
    <3>2. fresh.recs = <<>>
      BY DEF File
    <3> HIDE DEF fresh
    <3>3. folder \in Seq(S \union {fresh})
      BY <1>2
    <3>4. /\ Len(dir) = at /\ dir[at] = fresh
          /\ \A n \in 1..Len(folder) : dir[n] = folder[n]
      BY <3>1, <3>3, AppendProperties
    <3> HIDE DEF dir
    <3>5. RecordsOK(s, <<>>) /\ BodiesOK(<<>>)
      BY DEF RecordsOK, IsSeq, Ascending, BodiesOK
    <3>6. \A n \in 1..Len(dir) : n = at \/ n \in 1..Len(folder)
      BY <1>3, <3>1, <3>4
    <3> QED
      BY <3>2, <3>4, <3>5, <3>6 DEF BodiesInv
  <2> QED
    BY <2>1, <2>2
<1> HIDE DEF dir
<1>6. BodiesOK(file.recs)
  <2>1. BodiesOK(Rewritten(dir[at].recs, h, rec))
    BY <1>5, RewrittenBodies
  <2> QED
    BY <2>1 DEF File
<1>7. pending'.new = file
  BY <1>1
<1> HIDE DEF file
<1> QED
  BY <1>1, <1>5, <1>6, <1>7 DEF BodiesInv

LEMMA BodiesInvHolds == NotesSpec => []BodiesInv
<1>1. NotesInit => BodiesInv
  BY DEF NotesInit, BodiesInv
<1>2. NoteInv /\ BodiesInv /\ [NotesNext]_noteVars => BodiesInv'
  <2> SUFFICES ASSUME NoteInv, BodiesInv, [NotesNext]_noteVars PROVE BodiesInv'
    OBVIOUS
  <2>1. ASSUME NEW h \in Headings, Command(h) PROVE BodiesInv'
    <3>1. PICK rec : IsRecord(h, rec) /\ BodiesOK(rec) /\ Rewrite(h, rec)
      BY <2>1, CommandBodies
    <3> QED
      BY <3>1, RewriteBodies
  <2>2. ASSUME NEW x, BodiesOK(x.recs), noteStep # "idle", folder' = [folder EXCEPT ![pending.at] = x]
        PROVE  \A n \in 1..Len(folder') : BodiesOK(folder'[n].recs)
    <3>1. PICK S : folder \in Seq(S)
      BY DEF NoteInv, FolderOK, IsSeq
    <3>2. pending.at \in 1..Len(folder) /\ folder \in Seq(S \union {x})
      BY <2>2, <3>1 DEF NoteInv, Fits
    <3>3. Len(folder') = Len(folder)
          /\ \A n \in 1..Len(folder) : folder'[n] = IF n = pending.at THEN x ELSE folder[n]
      BY <2>2, <3>2, ExceptSeq
    <3> QED
      BY <2>2, <3>3 DEF BodiesInv
  <2>3. ASSUME Truncate PROVE BodiesInv'
    <3>1. BodiesOK(Empty.recs)
      BY EmptyFile DEF BodiesOK
    <3>2. /\ noteStep = "open" /\ pending' = pending
          /\ folder' = [folder EXCEPT ![pending.at] = Empty]
      BY <2>3 DEF Truncate
    <3> QED
      BY <2>2, <3>1, <3>2 DEF BodiesInv
  <2>4. ASSUME WriteBack PROVE BodiesInv'
    <3>1. /\ noteStep = "truncated" /\ noteStep' = "idle"
          /\ folder' = [folder EXCEPT ![pending.at] = pending.new]
      BY <2>4 DEF WriteBack
    <3> QED
      BY <2>2, <3>1 DEF BodiesInv
  <2>5. ASSUME WriteFails PROVE BodiesInv'
    BY <2>5 DEF WriteFails, BodiesInv
  <2>6. ASSUME UNCHANGED noteVars PROVE BodiesInv'
    BY <2>6 DEF noteVars, BodiesInv
  <2> QED
    BY <2>1, <2>3, <2>4, <2>5, <2>6 DEF NotesNext
<1> QED
  BY <1>1, <1>2, NoteInvHolds, PTL DEF NotesSpec

LEMMA BodiesShowTrue == NoteInv /\ BodiesInv => TreeTrue
<1> SUFFICES ASSUME NoteInv, BodiesInv, NEW found, found = RecordsFound(folder),
                    NEW key \in Nodes, IsNoted(found, key)
             PROVE  LET below == RestsOn(found, key)  status == Resolve(found, key) IN
                    /\ (status = "throws") <=>
                         \E k \in below \union {key} :
                           k[1] \notin Headings \ StructHeadings \/ k \in RestsOn(found, k)
                    /\ status # "throws" =>
                         /\ (status = "proven") <=> \A k \in below \union {key} : IsProved(found, k)
                         /\ (status = "unproven") <=> ~IsProved(found, key)
  BY DEF TreeTrue
<1>1. InNodes(found)
  BY FoundBodies, WhensOK
<1>2. JudgedRight(found, {}, key, Resolve(found, key))
  BY <1>1, ResolveTrue
<1> QED
  BY <1>2 DEF JudgedRight, Refused

(***************************************************************************)
(* For all headings, propositions and histories of commands, failed writes *)
(* and restarts: the tree view (resolve, QueryInterface.cpp) is refused    *)
(* exactly for what rests, at whatever distance, on itself or on a name    *)
(* that no function or global has, and otherwise "proven" means that       *)
(* everything it rests on is proved.                                       *)
(***************************************************************************)
THEOREM TreeViewIsTrue == NotesSpec => []TreeTrue
  BY NoteInvHolds, BodiesInvHolds, BodiesShowTrue, PTL

-----------------------------------------------------------------------------
(* The blocks of a record, by the list of the lines that begin them. *)

\* e names the elements of S in their order.
Lists(e, m, S) ==
  /\ m \in Nat /\ e \in [1..m -> S]
  /\ \A j, k \in 1..m : j < k => e[j] < e[k]
  /\ \A i \in S : \E k \in 1..m : e[k] = i

\* Nothing is listed of nothing.
LEMMA NoneListed == Lists(<<>>, 0, {})
<1>1. <<>> \in [1..0 -> {}] /\ 1..0 = {}
  OBVIOUS
<1> QED
  BY <1>1 DEF Lists

\* One more behind the others.
LEMMA OneMoreListed ==
  ASSUME NEW S \in SUBSET Nat, NEW m, NEW e, Lists(e, m, S), NEW x \in Nat, \A i \in S : i < x
  PROVE  Lists([k \in 1..m + 1 |-> IF k = m + 1 THEN x ELSE e[k]], m + 1, S \union {x})
<1> DEFINE f == [k \in 1..m + 1 |-> IF k = m + 1 THEN x ELSE e[k]]
<1>1. /\ m \in Nat /\ e \in [1..m -> S]
      /\ \A j, k \in 1..m : j < k => e[j] < e[k]
      /\ \A i \in S : \E k \in 1..m : e[k] = i
  BY DEF Lists
<1>2. m + 1 \in Nat /\ 1..m \subseteq 1..m + 1 /\ m + 1 \in 1..m + 1 /\ m + 1 \notin 1..m
      /\ \A k \in 1..m + 1 : k = m + 1 \/ (k \in 1..m /\ k # m + 1 /\ k < m + 1)
  BY <1>1
<1>3. \A k \in 1..m + 1 : f[k] = IF k = m + 1 THEN x ELSE e[k]
  OBVIOUS
<1>4. f \in [1..m + 1 -> S \union {x}]
  BY <1>1, <1>2
<1> HIDE DEF f
<1>5. ASSUME NEW j \in 1..m + 1, NEW k \in 1..m + 1, j < k PROVE f[j] < f[k]
  <2>1. j \in 1..m /\ j # m + 1
    BY <1>1, <1>5
  <2>2. f[j] = e[j] /\ e[j] \in S
    BY <1>1, <1>3, <2>1
  <2>3. CASE k = m + 1
    BY <1>3, <2>2, <2>3
  <2>4. CASE k # m + 1
    BY <1>1, <1>2, <1>3, <1>5, <2>1, <2>2, <2>4
  <2> QED
    BY <2>3, <2>4
<1>6. ASSUME NEW i \in S \union {x} PROVE \E k \in 1..m + 1 : f[k] = i
  <2>1. CASE i = x
    BY <1>2, <1>3, <2>1
  <2>2. CASE i \in S
    <3>1. PICK k \in 1..m : e[k] = i
      BY <1>1, <2>2
    <3> QED
      BY <1>2, <1>3, <3>1
  <2> QED
    BY <2>1, <2>2
<1> QED
  BY <1>2, <1>4, <1>5, <1>6 DEF Lists, f

\* Every set of places has its list.
LEMMA ListingExists ==
  ASSUME NEW L \in Nat, NEW S \in SUBSET (1..L)
  PROVE  \E m, e : Lists(e, m, S)
<1> DEFINE T(n) == {i \in S : i <= n}
           ListedTo(n) == \E m, e : Lists(e, m, T(n))
           B == {n \in 0..L : ~ListedTo(n)}
<1>1. S \subseteq Nat /\ \A i \in S : i \in Nat /\ 1 <= i /\ i <= L
  OBVIOUS
<1>2. ListedTo(0)
  <2>0. \A i \in S : ~(i <= 0)
    BY <1>1
  <2>1. T(0) = {}
    BY <2>0
  <2> QED
    BY <2>1, NoneListed
<1>3. ASSUME NEW n \in 1..L, ListedTo(n - 1) PROVE ListedTo(n)
  <2>1. PICK m, e : Lists(e, m, T(n - 1))
    BY <1>3
  <2>0. n \in Nat /\ \A i \in S : (i <= n <=> i <= n - 1 \/ i = n) /\ (i <= n - 1 => i < n)
    BY <1>1, <1>3
  <2>2. CASE n \in S
    <3>1. T(n) = T(n - 1) \union {n}
      <4>1. \A i : i \in T(n) <=> i \in T(n - 1) \/ i = n
        BY <2>0, <2>2
      <4> QED
        BY <4>1
    <3>2. T(n - 1) \in SUBSET Nat /\ n \in Nat /\ \A i \in T(n - 1) : i < n
      BY <1>1, <2>0
    <3> HIDE DEF T
    <3>3. Lists([k \in 1..m + 1 |-> IF k = m + 1 THEN n ELSE e[k]], m + 1, T(n - 1) \union {n})
      BY <2>1, <3>2, OneMoreListed
    <3> QED
      BY <3>1, <3>3
  <2>3. CASE n \notin S
    <3>1. T(n) = T(n - 1)
      <4>1. \A i : i \in T(n) <=> i \in T(n - 1)
        BY <2>0, <2>3
      <4> QED
        BY <4>1
    <3> HIDE DEF T
    <3> QED
      BY <2>1, <3>1
  <2> QED
    BY <2>2, <2>3
<1>4. B = {}
  <2> SUFFICES ASSUME B # {} PROVE FALSE
    OBVIOUS
  <2> HIDE DEF ListedTo
  <2>1. B \subseteq Nat /\ B \subseteq 0..L /\ \A n \in 0..L : n \notin B <=> ListedTo(n)
    OBVIOUS
  <2> HIDE DEF B
  <2>2. PICK n \in B : \A k \in B : n <= k
    BY <2>1, LeastIn
  <2>3. n # 0
    BY <1>2, <2>1
  <2>4. n - 1 \in 0..L /\ n - 1 \notin B /\ n \in 1..L
    BY <2>1, <2>2, <2>3
  <2> QED
    BY <1>3, <2>1, <2>4
<1>5. T(L) = S
  <2>1. \A i \in S : i <= L
    BY <1>1
  <2> QED
    BY <2>1
<1>6. ListedTo(L)
  <2> HIDE DEF ListedTo
  <2> QED
    BY <1>4
<1> QED
  BY <1>5, <1>6

\* The nth of a listing is the one that has n up to it.
LEMMA ListedRank ==
  ASSUME NEW S \in SUBSET Nat, NEW m, NEW e, Lists(e, m, S), NEW n \in 1..m
  PROVE  Cardinality({j \in S : j <= e[n]}) = n
<1> DEFINE U(k) == {e[j] : j \in 1..k}
           Counted(k) == IsFiniteSet(U(k)) /\ Cardinality(U(k)) = k
           B == {k \in 0..m : ~Counted(k)}
<1>1. /\ m \in Nat /\ e \in [1..m -> S] /\ S \subseteq Nat
      /\ \A j, k \in 1..m : j < k => e[j] < e[k]
      /\ \A i \in S : \E k \in 1..m : e[k] = i
  BY DEF Lists
<1>2. Counted(0)
  <2>1. U(0) = {}
    OBVIOUS
  <2> QED
    BY <2>1, FS_EmptySet
<1>3. ASSUME NEW k \in 1..m, Counted(k - 1) PROVE Counted(k)
  <2>1. k \in Nat /\ k - 1 \in Nat /\ \A j : j \in 1..k <=> j \in 1..k - 1 \/ j = k
    BY <1>1, <1>3
  <2>2. U(k) = U(k - 1) \union {e[k]}
    BY <2>1
  <2>3. ASSUME NEW j \in 1..k - 1 PROVE e[j] # e[k]
    <3>1. j \in 1..m /\ j < k
      BY <1>1, <1>3, <2>1, <2>3
    <3>2. e[j] < e[k] /\ e[j] \in Nat /\ e[k] \in Nat
      BY <1>1, <1>3, <3>1
    <3> QED
      BY <3>2
  <2>4. e[k] \notin U(k - 1)
    BY <2>3
  <2> HIDE DEF U
  <2>5. IsFiniteSet(U(k - 1)) /\ Cardinality(U(k - 1)) = k - 1
    BY <1>3
  <2>6. IsFiniteSet(U(k - 1) \union {e[k]})
        /\ Cardinality(U(k - 1) \union {e[k]}) = Cardinality(U(k - 1)) + 1
    BY <2>4, <2>5, FS_AddElement
  <2> QED
    BY <2>1, <2>2, <2>5, <2>6
<1>4. B = {}
  <2> SUFFICES ASSUME B # {} PROVE FALSE
    OBVIOUS
  <2> HIDE DEF Counted
  <2>1. B \subseteq Nat /\ B \subseteq 0..m /\ \A k \in 0..m : k \notin B <=> Counted(k)
    OBVIOUS
  <2> HIDE DEF B
  <2>2. PICK k \in B : \A j \in B : k <= j
    BY <2>1, LeastIn
  <2>3. k # 0
    BY <1>2, <2>1
  <2>4. k - 1 \in 0..m /\ k - 1 \notin B /\ k \in 1..m
    BY <1>1, <2>1, <2>2, <2>3
  <2> QED
    BY <1>3, <2>1, <2>4
<1>5. Counted(n)
  <2>1. n \in 0..m
    BY <1>1
  <2> HIDE DEF Counted
  <2> QED
    BY <1>4, <2>1
<1>6. n \in Nat /\ \A k \in 1..m : (e[k] <= e[n] <=> k \in 1..n) /\ e[k] \in Nat
  <2>0. \A k \in 1..m : e[k] \in Nat
    BY <1>1
  <2>1. n \in Nat /\ n <= m /\ e[n] \in Nat
    BY <1>1, <2>0
  <2>2. ASSUME NEW k \in 1..m PROVE (e[k] <= e[n] <=> k \in 1..n) /\ e[k] \in Nat
    <3>1. e[k] \in Nat /\ k \in Nat /\ 1 <= k
      BY <1>1, <2>0, <2>2
    <3>2. k < n => e[k] < e[n]
      BY <1>1, <2>2
    <3>3. n < k => e[n] < e[k]
      BY <1>1, <2>2
    <3>4. k \in 1..n <=> ~(n < k)
      BY <2>1, <3>1
    <3>5. ~(n < k) => k < n \/ k = n
      BY <2>1, <3>1
    <3> QED
      BY <2>1, <3>1, <3>2, <3>3, <3>4, <3>5
  <2> QED
    BY <2>1, <2>2
<1>7. \A k \in 1..n : k \in 1..m
  <2>1. n \in Nat /\ n <= m
    BY <1>1
  <2> QED
    BY <1>1, <2>1
<1>8. ASSUME NEW i PROVE i \in U(n) <=> i \in S /\ i <= e[n]
  <2>1. ASSUME i \in U(n) PROVE i \in S /\ i <= e[n]
    BY <1>1, <1>6, <1>7, <2>1
  <2>2. ASSUME i \in S, i <= e[n] PROVE i \in U(n)
    <3>1. PICK k \in 1..m : e[k] = i
      BY <1>1, <2>2
    <3>2. k \in 1..n
      BY <1>6, <2>2, <3>1
    <3> QED
      BY <3>1, <3>2
  <2> QED
    BY <2>1, <2>2
<1>9. {j \in S : j <= e[n]} = U(n)
  <2> HIDE DEF U
  <2> QED
    BY <1>8
<1> QED
  BY <1>5, <1>9

\* The blocks of a record, when its lines that are not indented are listed.
LEMMA BlocksListed ==
  ASSUME NEW body, NEW m, NEW e, Lists(e, m, BlockStarts(body))
  PROVE  BlocksOf(body) = [n \in 1..m |-> BlockAt(body, e[n])]
<1> DEFINE S == BlockStarts(body)
           Nth(n) == CHOOSE i \in S : Cardinality({j \in S : j <= i}) = n
<1>1. S \subseteq Nat
  BY DEF BlockStarts
<1> HIDE DEF S
<1>2. Lists(e, m, S)
  BY DEF S
<1>3. /\ m \in Nat /\ e \in [1..m -> S]
      /\ \A j, k \in 1..m : j < k => e[j] < e[k]
      /\ \A i \in S : \E k \in 1..m : e[k] = i
  BY <1>2 DEF Lists
<1>4. \A n \in 1..m : Cardinality({j \in S : j <= e[n]}) = n
  BY <1>1, <1>2, ListedRank
<1>5. Cardinality(S) = m
  <2>1. CASE m = 0
    <3>1. S = {}
      BY <1>3, <2>1
    <3> QED
      BY <2>1, <3>1, FS_EmptySet
  <2>2. CASE m # 0
    <3>1. m \in 1..m
      BY <1>3, <2>2
    <3>2. \A i \in S : i <= e[m]
      <4> SUFFICES ASSUME NEW i \in S PROVE i <= e[m]
        OBVIOUS
      <4>1. PICK k \in 1..m : e[k] = i
        BY <1>3
      <4>2. k = m \/ e[k] < e[m]
        BY <1>3, <3>1
      <4>3. e[k] \in Nat /\ e[m] \in Nat
        BY <1>1, <1>3, <3>1
      <4> QED
        BY <4>1, <4>2, <4>3
    <3>3. {j \in S : j <= e[m]} = S
      BY <3>2
    <3> QED
      BY <1>4, <3>1, <3>3
  <2> QED
    BY <2>1, <2>2
<1>6. \A n \in 1..m : Nth(n) = e[n]
  <2> SUFFICES ASSUME NEW n \in 1..m PROVE Nth(n) = e[n]
    OBVIOUS
  <2>1. e[n] \in S /\ Cardinality({j \in S : j <= e[n]}) = n
    BY <1>3, <1>4
  <2>2. ASSUME NEW i \in S, Cardinality({j \in S : j <= i}) = n PROVE i = e[n]
    <3>1. PICK k \in 1..m : e[k] = i
      BY <1>3
    <3> QED
      BY <1>4, <2>2, <3>1
  <2> QED
    BY <2>1, <2>2
<1>7. BlocksOf(body) = [n \in 1..Cardinality(S) |-> BlockAt(body, Nth(n))]
  BY DEF BlocksOf, S
<1> HIDE DEF Nth
<1> QED
  BY <1>5, <1>6, <1>7

\* The lines from i + 1 to k are those below line i.
Under(body, i, k) == k \in i + 1..Len(body) /\ \A j \in i + 1..k : IsIndented(body[j])

\* The block of a line goes to the next line that is not indented, or to the end.
LEMMA EndIs ==
  ASSUME NEW body, Len(body) \in Nat, NEW i \in 0..Len(body)
  PROVE  /\ BlockEnd(body, i) \in i + 1..Len(body) + 1
         /\ BlockEnd(body, i) = Len(body) + 1 \/ ~IsIndented(body[BlockEnd(body, i)])
         /\ \A j \in i + 1..BlockEnd(body, i) - 1 : j \in 1..Len(body) /\ IsIndented(body[j])
<1> DEFINE I == {Len(body) + 1} \union {j \in i + 1..Len(body) : ~IsIndented(body[j])}
<1>1. i \in Nat /\ i <= Len(body)
  OBVIOUS
<1>2. BlockEnd(body, i) = CHOOSE m \in I : \A k \in I : m <= k
  BY DEF BlockEnd, Min
<1>3. I \subseteq Nat /\ I # {} /\ (\A j \in I : j = Len(body) + 1 \/ (j \in i + 1..Len(body) /\ ~IsIndented(body[j])))
      /\ \A j \in i + 1..Len(body) : IsIndented(body[j]) \/ j \in I
  BY <1>1
<1> HIDE DEF I
<1>4. \E m \in I : \A k \in I : m <= k
  BY <1>3, LeastIn
<1>5. PICK z : z = BlockEnd(body, i)
  OBVIOUS
<1>6. z \in I /\ \A k \in I : z <= k
  BY <1>2, <1>4, <1>5
<1>7. z \in i + 1..Len(body) + 1 /\ (z = Len(body) + 1 \/ ~IsIndented(body[z]))
  BY <1>1, <1>3, <1>6
<1>8. ASSUME NEW j \in i + 1..z - 1 PROVE j \in 1..Len(body) /\ IsIndented(body[j])
  <2>1. j \in Nat /\ j < z /\ j \in i + 1..Len(body) /\ j \in 1..Len(body)
    BY <1>1, <1>7, <1>8
  <2>2. j \notin I
    BY <1>6, <1>7, <2>1
  <2> QED
    BY <1>3, <2>1, <2>2
<1> QED
  BY <1>5, <1>7, <1>8

\* What is before the end of the block is below the line.
LEMMA UnderIs ==
  ASSUME NEW body, Len(body) \in Nat, NEW i \in 0..Len(body)
  PROVE  \A k : k \in i + 1..BlockEnd(body, i) - 1 <=> Under(body, i, k)
<1>1. PICK z : z = BlockEnd(body, i)
  OBVIOUS
<1>2. i \in Nat /\ i <= Len(body) /\ z \in i + 1..Len(body) + 1
      /\ (z = Len(body) + 1 \/ ~IsIndented(body[z]))
      /\ \A j \in i + 1..z - 1 : j \in 1..Len(body) /\ IsIndented(body[j])
  BY <1>1, EndIs
<1>3. ASSUME NEW k, k \in i + 1..z - 1 PROVE Under(body, i, k)
  <2>1. k \in i + 1..Len(body)
    BY <1>2, <1>3
  <2>2. \A j \in i + 1..k : j \in i + 1..z - 1
    BY <1>2, <1>3
  <2> QED
    BY <1>2, <2>1, <2>2 DEF Under
<1>4. ASSUME NEW k, Under(body, i, k) PROVE k \in i + 1..z - 1
  <2>1. k \in i + 1..Len(body) /\ \A j \in i + 1..k : IsIndented(body[j])
    BY <1>4 DEF Under
  <2>2. ~(z <= k)
    <3> SUFFICES ASSUME z <= k PROVE FALSE
      OBVIOUS
    <3>1. z \in i + 1..k /\ z # Len(body) + 1
      BY <1>2, <2>1
    <3> QED
      BY <1>2, <2>1, <3>1
  <2> QED
    BY <1>2, <2>1, <2>2
<1> QED
  BY <1>1, <1>3, <1>4

\* Line k lists a premise of the When line w, in the block of line i.
Premise(body, i, w, k) ==
  /\ Under(body, i, k) /\ i < w /\ w < k
  /\ body[w].t = "when" /\ \A j \in w + 1..k : body[j].t = "child"

\* The premises are those that a When line and a line below it say.
LEMMA PremisesAre ==
  ASSUME NEW body, Len(body) \in Nat, NEW i \in 0..Len(body)
  PROVE  \A x : x \in PremisesAt(body, i) <=>
           \E w, k \in 1..Len(body) : Premise(body, i, w, k) /\ x = <<body[w].a, body[k].a>>
<1>1. PICK J : J = i + 1..BlockEnd(body, i) - 1
  OBVIOUS
<1>2. \A k : k \in J <=> Under(body, i, k)
  BY <1>1, UnderIs
<1>3. PICK Q : Q = {q \in J \X J : /\ q[1] < q[2] /\ body[q[1]].t = "when"
                                 /\ \A j \in q[1] + 1..q[2] : body[j].t = "child"}
  OBVIOUS
<1>4. PremisesAt(body, i) = {<<body[r[1]].a, body[r[2]].a>> : r \in Q}
  BY <1>1, <1>3 DEF PremisesAt
<1>5. ASSUME NEW x, x \in PremisesAt(body, i)
      PROVE  \E w, k \in 1..Len(body) : Premise(body, i, w, k) /\ x = <<body[w].a, body[k].a>>
  <2>1. PICK r \in Q : x = <<body[r[1]].a, body[r[2]].a>>
    BY <1>4, <1>5
  <2>2. PICK w, k : w = r[1] /\ k = r[2]
    OBVIOUS
  <2>3. /\ w \in J /\ k \in J /\ w < k /\ body[w].t = "when"
        /\ \A j \in w + 1..k : body[j].t = "child"
    BY <1>3, <2>1, <2>2
  <2>4. Under(body, i, w) /\ Under(body, i, k)
    BY <1>2, <2>3
  <2>5. w \in i + 1..Len(body) /\ k \in i + 1..Len(body)
    BY <2>4 DEF Under
  <2>6. w \in 1..Len(body) /\ k \in 1..Len(body) /\ i < w
    BY <2>5
  <2> QED
    BY <2>1, <2>2, <2>3, <2>4, <2>6 DEF Premise
<1>6. ASSUME NEW w \in 1..Len(body), NEW k \in 1..Len(body), Premise(body, i, w, k)
      PROVE  <<body[w].a, body[k].a>> \in PremisesAt(body, i)
  <2>1. Under(body, i, k) /\ i < w /\ w < k
    BY <1>6 DEF Premise
  <2>2. w \in i + 1..Len(body) /\ \A j \in i + 1..w : j \in i + 1..k
    BY <1>6, <2>1
  <2>3. Under(body, i, w)
    BY <2>1, <2>2 DEF Under
  <2>4. w \in J /\ k \in J
    BY <1>2, <2>1, <2>3
  <2>5. <<w, k>> \in Q
    BY <1>3, <1>6, <2>1, <2>4 DEF Premise
  <2>6. <<w, k>>[1] = w /\ <<w, k>>[2] = k
    OBVIOUS
  <2> QED
    BY <1>4, <2>5, <2>6
<1> QED
  BY <1>5, <1>6

-----------------------------------------------------------------------------
(* One line more. *)

\* b is body with one more line, in the place k, which begins no block.
Put(body, b, k) ==
  /\ Len(body) \in Nat /\ Len(b) = Len(body) + 1 /\ k \in 1..Len(body) + 1
  /\ IsIndented(b[k])
  /\ \A j \in 1..Len(body) : b[IF j < k THEN j ELSE j + 1] = body[j]

Shift(k, j) == IF j < k THEN j ELSE j + 1

\* Where the lines of body are in b.
Placed(body, b, k) ==
  /\ Len(body) \in Nat /\ Len(b) = Len(body) + 1 /\ k \in 1..Len(body) + 1 /\ IsIndented(b[k])
  /\ \A j \in 1..Len(body) : /\ Shift(k, j) \in 1..Len(b) /\ Shift(k, j) # k
                             /\ b[Shift(k, j)] = body[j]
  /\ \A i, j \in 1..Len(body) : i < j <=> Shift(k, i) < Shift(k, j)
  /\ \A j \in 1..Len(b) : j = k \/ \E i \in 1..Len(body) : j = Shift(k, i)

\* What is put in moves the lines behind it by one.
LEMMA Shifts == \A body, b, k : Put(body, b, k) => Placed(body, b, k)
<1> SUFFICES ASSUME NEW body, NEW b, NEW k, Put(body, b, k) PROVE Placed(body, b, k)
  OBVIOUS
<1>1. /\ Len(body) \in Nat /\ Len(b) = Len(body) + 1 /\ k \in 1..Len(body) + 1 /\ IsIndented(b[k])
      /\ \A j \in 1..Len(body) : b[Shift(k, j)] = body[j]
  BY DEF Put, Shift
<1>2. \A j \in 1..Len(body) : Shift(k, j) \in 1..Len(b) /\ Shift(k, j) # k
  BY <1>1 DEF Shift
<1>3. \A i, j \in 1..Len(body) : i < j <=> Shift(k, i) < Shift(k, j)
  BY <1>1 DEF Shift
<1>4. ASSUME NEW j \in 1..Len(b), j # k PROVE \E i \in 1..Len(body) : j = Shift(k, i)
  <2>1. CASE j < k
    <3>1. j \in 1..Len(body) /\ j = Shift(k, j)
      BY <1>1, <1>4, <2>1 DEF Shift
    <3> QED
      BY <3>1
  <2>2. CASE k < j
    <3>1. j - 1 \in 1..Len(body) /\ j = Shift(k, j - 1)
      BY <1>1, <1>4, <2>2 DEF Shift
    <3> QED
      BY <3>1
  <2> QED
    BY <1>1, <1>4, <2>1, <2>2
<1> QED
  BY <1>1, <1>2, <1>3, <1>4 DEF Placed

\* It begins no block.
LEMMA PutListed ==
  ASSUME NEW body, NEW b, NEW k, Put(body, b, k), NEW m, NEW e, Lists(e, m, BlockStarts(body))
  PROVE  Lists([n \in 1..m |-> Shift(k, e[n])], m, BlockStarts(b))
<1> DEFINE f == [n \in 1..m |-> Shift(k, e[n])]
           S == BlockStarts(body)
           T == BlockStarts(b)
<1>1. /\ m \in Nat /\ e \in [1..m -> S]
      /\ \A j, n \in 1..m : j < n => e[j] < e[n]
      /\ \A i \in S : \E n \in 1..m : e[n] = i
  BY DEF Lists
<1>0. Placed(body, b, k)
  BY Shifts
<1>2. /\ Len(body) \in Nat /\ Len(b) = Len(body) + 1 /\ IsIndented(b[k])
      /\ \A j \in 1..Len(body) : /\ Shift(k, j) \in 1..Len(b) /\ Shift(k, j) # k
                                 /\ b[Shift(k, j)] = body[j]
      /\ \A i, j \in 1..Len(body) : i < j <=> Shift(k, i) < Shift(k, j)
      /\ \A j \in 1..Len(b) : j = k \/ \E i \in 1..Len(body) : j = Shift(k, i)
  BY <1>0 DEF Placed
<1>3. \A i \in S : i \in 1..Len(body) /\ Shift(k, i) \in T
  BY <1>2 DEF BlockStarts
<1>4. \A j \in T : \E i \in S : j = Shift(k, i)
  <2> SUFFICES ASSUME NEW j \in T PROVE \E i \in S : j = Shift(k, i)
    OBVIOUS
  <2>1. j \in 1..Len(b) /\ ~IsIndented(b[j])
    BY DEF BlockStarts
  <2>2. PICK i \in 1..Len(body) : j = Shift(k, i)
    BY <1>2, <2>1
  <2>3. i \in S
    BY <1>2, <2>1, <2>2 DEF BlockStarts
  <2> QED
    BY <2>2, <2>3
<1> HIDE DEF S, T
<1>5. f \in [1..m -> T] /\ \A n \in 1..m : f[n] = Shift(k, e[n])
  BY <1>1, <1>3
<1> HIDE DEF f
<1>6. \A j, n \in 1..m : j < n => f[j] < f[n]
  BY <1>1, <1>2, <1>3, <1>5
<1>7. \A i \in T : \E n \in 1..m : f[n] = i
  <2> SUFFICES ASSUME NEW j \in T PROVE \E n \in 1..m : f[n] = j
    OBVIOUS
  <2>1. PICK i \in S : j = Shift(k, i)
    BY <1>4
  <2>2. PICK n \in 1..m : e[n] = i
    BY <1>1
  <2> QED
    BY <1>5, <2>1, <2>2
<1> QED
  BY <1>1, <1>5, <1>6, <1>7 DEF Lists, f, T

\* The line below k begins a block, or there is none.
Last(b, k) == k = Len(b) \/ ~IsIndented(b[k + 1])
Calm(b, k) == b[k].t = "child" \/ Last(b, k)

\* It leaves what is below what.
LEMMA PutUnder ==
  ASSUME NEW body, NEW b, NEW k, Put(body, b, k), NEW i \in 1..Len(body), NEW j \in 1..Len(body)
  PROVE  Under(b, Shift(k, i), Shift(k, j)) <=> Under(body, i, j)
<1>0. Placed(body, b, k)
  BY Shifts
<1>1. /\ Len(body) \in Nat /\ Len(b) = Len(body) + 1 /\ k \in 1..Len(body) + 1 /\ IsIndented(b[k])
      /\ \A n \in 1..Len(body) : /\ Shift(k, n) \in 1..Len(b) /\ Shift(k, n) # k
                                 /\ b[Shift(k, n)] = body[n]
      /\ \A n, p \in 1..Len(body) : n < p <=> Shift(k, n) < Shift(k, p)
      /\ \A n \in 1..Len(b) : n = k \/ \E p \in 1..Len(body) : n = Shift(k, p)
  BY <1>0 DEF Placed
<1>2. Shift(k, i) \in 1..Len(b) /\ Shift(k, j) \in 1..Len(b)
  BY <1>1
<1>3. ASSUME Under(body, i, j) PROVE Under(b, Shift(k, i), Shift(k, j))
  <2>1. i < j /\ \A n \in i + 1..j : IsIndented(body[n])
    BY <1>3 DEF Under
  <2>2. Shift(k, j) \in Shift(k, i) + 1..Len(b)
    BY <1>1, <1>2, <2>1
  <2>3. ASSUME NEW p \in Shift(k, i) + 1..Shift(k, j) PROVE IsIndented(b[p])
    <3>1. p \in 1..Len(b) /\ Shift(k, i) < p /\ ~(Shift(k, j) < p)
      BY <1>1, <1>2, <2>3
    <3>2. CASE p = k
      BY <1>1, <3>2
    <3>3. CASE p # k
      <4>1. PICK n \in 1..Len(body) : p = Shift(k, n)
        BY <1>1, <3>1, <3>3
      <4>2. i < n /\ ~(j < n)
        BY <1>1, <3>1, <4>1
      <4>3. n \in i + 1..j
        BY <1>1, <4>2
      <4> QED
        BY <1>1, <2>1, <4>1, <4>3
    <3> QED
      BY <3>2, <3>3
  <2> QED
    BY <2>2, <2>3 DEF Under
<1>4. ASSUME Under(b, Shift(k, i), Shift(k, j)) PROVE Under(body, i, j)
  <2>1. Shift(k, i) < Shift(k, j) /\ \A p \in Shift(k, i) + 1..Shift(k, j) : IsIndented(b[p])
    BY <1>2, <1>4 DEF Under
  <2>2. i < j
    BY <1>1, <2>1
  <2>3. ASSUME NEW n \in i + 1..j PROVE IsIndented(body[n])
    <3>1. n \in 1..Len(body) /\ i < n /\ ~(j < n)
      BY <1>1, <2>3
    <3>2. Shift(k, i) < Shift(k, n) /\ ~(Shift(k, j) < Shift(k, n)) /\ Shift(k, n) \in 1..Len(b)
      BY <1>1, <3>1
    <3>3. Shift(k, n) \in Shift(k, i) + 1..Shift(k, j)
      BY <1>1, <1>2, <3>2
    <3> QED
      BY <1>1, <2>1, <3>1, <3>3
  <2>4. j \in i + 1..Len(body)
    BY <1>1, <2>2
  <2> QED
    BY <2>3, <2>4 DEF Under
<1> QED
  BY <1>3, <1>4

\* The premises that were there are there.
LEMMA PutPremise ==
  ASSUME NEW body, NEW b, NEW k, Put(body, b, k), Calm(b, k),
         NEW i \in 1..Len(body), NEW w \in 1..Len(body), NEW j \in 1..Len(body)
  PROVE  Premise(b, Shift(k, i), Shift(k, w), Shift(k, j)) <=> Premise(body, i, w, j)
<1>0. Placed(body, b, k)
  BY Shifts
<1>1. /\ Len(body) \in Nat /\ Len(b) = Len(body) + 1 /\ k \in 1..Len(body) + 1 /\ IsIndented(b[k])
      /\ \A n \in 1..Len(body) : /\ Shift(k, n) \in 1..Len(b) /\ Shift(k, n) # k
                                 /\ b[Shift(k, n)] = body[n]
      /\ \A n, p \in 1..Len(body) : n < p <=> Shift(k, n) < Shift(k, p)
      /\ \A n \in 1..Len(b) : n = k \/ \E p \in 1..Len(body) : n = Shift(k, p)
  BY <1>0 DEF Placed
<1>2. Under(b, Shift(k, i), Shift(k, j)) <=> Under(body, i, j)
  BY PutUnder
<1>3. (i < w <=> Shift(k, i) < Shift(k, w)) /\ (w < j <=> Shift(k, w) < Shift(k, j)) /\ b[Shift(k, w)] = body[w]
      /\ Shift(k, i) \in 1..Len(b) /\ Shift(k, w) \in 1..Len(b) /\ Shift(k, j) \in 1..Len(b)
  BY <1>1
<1>4. ASSUME Premise(b, Shift(k, i), Shift(k, w), Shift(k, j)), NEW n \in w + 1..j
      PROVE  body[n].t = "child"
  <2>1. n \in 1..Len(body) /\ w < n /\ ~(j < n)
    BY <1>1, <1>4
  <2>2. Shift(k, w) < Shift(k, n) /\ ~(Shift(k, j) < Shift(k, n)) /\ Shift(k, n) \in 1..Len(b)
    BY <1>1, <2>1
  <2>3. Shift(k, n) \in Shift(k, w) + 1..Shift(k, j)
    BY <1>1, <1>3, <2>2
  <2>4. b[Shift(k, n)].t = "child"
    BY <1>4, <2>3 DEF Premise
  <2> QED
    BY <1>1, <2>1, <2>4
<1>5. ASSUME Premise(body, i, w, j), NEW p \in Shift(k, w) + 1..Shift(k, j)
      PROVE  b[p].t = "child"
  <2>1. p \in 1..Len(b) /\ Shift(k, w) < p /\ ~(Shift(k, j) < p)
    BY <1>1, <1>3, <1>5
  <2>2. CASE p # k
    <3>1. PICK n \in 1..Len(body) : p = Shift(k, n)
      BY <1>1, <2>1, <2>2
    <3>2. w < n /\ ~(j < n)
      BY <1>1, <2>1, <3>1
    <3>3. n \in w + 1..j
      BY <1>1, <3>2
    <3> QED
      BY <1>1, <1>5, <3>1, <3>3 DEF Premise
  <2>3. CASE p = k
    <3> SUFFICES ASSUME Last(b, k) PROVE FALSE
      BY <2>3 DEF Calm
    <3>1. Shift(k, j) # k /\ Shift(k, j) \in 1..Len(b)
      BY <1>1
    <3>2. k < Shift(k, j) /\ k # Len(b) /\ k + 1 \in 1..Len(b)
      BY <1>1, <2>1, <2>3, <3>1
    <3>3. ~IsIndented(b[k + 1])
      BY <3>2 DEF Last
    <3>4. Under(b, Shift(k, i), Shift(k, j)) /\ Shift(k, i) < Shift(k, w)
      BY <1>2, <1>3, <1>5 DEF Premise
    <3>5. k + 1 \in Shift(k, i) + 1..Shift(k, j)
      BY <1>1, <1>3, <2>1, <2>3, <3>1, <3>2, <3>4
    <3> QED
      BY <3>3, <3>4, <3>5 DEF Under
  <2> QED
    BY <2>2, <2>3
<1> QED
  BY <1>2, <1>3, <1>4, <1>5 DEF Premise

\* Block by block.
LEMMA BlocksAre ==
  ASSUME NEW body, NEW m, NEW e, Lists(e, m, BlockStarts(body))
  PROVE  /\ BlocksOf(body) = [n \in 1..m |-> BlockAt(body, e[n])]
         /\ Len(BlocksOf(body)) = m /\ m \in Nat
         /\ IsSeq(BlocksOf(body))
         /\ \A n \in 1..m : BlocksOf(body)[n] = BlockAt(body, e[n])
<1>1. BlocksOf(body) = [n \in 1..m |-> BlockAt(body, e[n])]
  BY BlocksListed
<1>2. m \in Nat
  BY DEF Lists
<1>3. PICK S : S = {BlockAt(body, e[n]) : n \in 1..m}
  OBVIOUS
<1>4. PICK rec : rec = BlocksOf(body)
  OBVIOUS
<1>5. rec \in [1..m -> S]
  BY <1>1, <1>3, <1>4
<1>6. rec \in Seq(S)
  BY <1>2, <1>5, SeqDef
<1>7. DOMAIN rec = 1..Len(rec) /\ Len(rec) \in Nat
  BY <1>6, LenProperties
<1>8. DOMAIN rec = 1..m
  BY <1>5
<1>9. Len(rec) = m
  <2>1. PICK l : l = Len(rec)
    OBVIOUS
  <2>2. l \in Nat /\ \A i : i \in 1..l <=> i \in 1..m
    BY <1>7, <1>8, <2>1
  <2>3. (l \in 1..l \/ l = 0) /\ (m \in 1..m \/ m = 0)
    BY <1>2, <2>2
  <2>4. l = m
    BY <1>2, <2>2, <2>3
  <2> QED
    BY <2>1, <2>4
<1> QED
  BY <1>1, <1>2, <1>4, <1>6, <1>9 DEF IsSeq

\* The lines that begin blocks have a list.
LEMMA BlocksHaveList ==
  ASSUME NEW body, Len(body) \in Nat
  PROVE  \E m, e : Lists(e, m, BlockStarts(body))
<1>1. BlockStarts(body) \in SUBSET (1..Len(body))
  BY DEF BlockStarts
<1> QED
  BY <1>1, ListingExists

\* What the line k adds to the premises of line i.
AddedAt(b, i, k) == {<<b[v].a, b[k].a>> : v \in {w \in 1..Len(b) : Premise(b, i, w, k)}}

\* The premises of a line are those it had and those of the new line.
LEMMA PutPremises ==
  ASSUME NEW body, NEW b, NEW k, Put(body, b, k), Calm(b, k), NEW i \in 1..Len(body)
  PROVE  PremisesAt(b, Shift(k, i)) = PremisesAt(body, i) \union AddedAt(b, Shift(k, i), k)
<1>0. Placed(body, b, k)
  BY Shifts
<1>1. /\ Len(body) \in Nat /\ Len(b) = Len(body) + 1 /\ k \in 1..Len(body) + 1 /\ IsIndented(b[k])
      /\ \A n \in 1..Len(body) : /\ Shift(k, n) \in 1..Len(b) /\ Shift(k, n) # k
                                 /\ b[Shift(k, n)] = body[n]
      /\ \A n, p \in 1..Len(body) : n < p <=> Shift(k, n) < Shift(k, p)
      /\ \A n \in 1..Len(b) : n = k \/ \E p \in 1..Len(body) : n = Shift(k, p)
  BY <1>0 DEF Placed
<1>2. Len(b) \in Nat /\ k \in 1..Len(b) /\ i \in 0..Len(body) /\ Shift(k, i) \in 0..Len(b)
  BY <1>1
<1>3. \A x : x \in PremisesAt(body, i) <=>
         \E w, j \in 1..Len(body) : Premise(body, i, w, j) /\ x = <<body[w].a, body[j].a>>
  BY <1>1, <1>2, PremisesAre
<1>4. \A x : x \in PremisesAt(b, Shift(k, i)) <=>
         \E w, j \in 1..Len(b) : Premise(b, Shift(k, i), w, j) /\ x = <<b[w].a, b[j].a>>
  BY <1>2, PremisesAre
<1>5. \A w, j \in 1..Len(body) : Premise(b, Shift(k, i), Shift(k, w), Shift(k, j)) <=> Premise(body, i, w, j)
  BY PutPremise
<1>6. ASSUME NEW w \in 1..Len(b), NEW j \in 1..Len(b), Premise(b, Shift(k, i), w, j), j # k
      PROVE  <<b[w].a, b[j].a>> \in PremisesAt(body, i)
  <2>1. w # k
    <3> SUFFICES ASSUME w = k PROVE FALSE
      OBVIOUS
    <3>1. b[k].t = "when" /\ k < j /\ Shift(k, i) < k /\ Under(b, Shift(k, i), j)
      BY <1>6 DEF Premise
    <3>2. k # Len(b) /\ k + 1 \in Shift(k, i) + 1..j
      BY <1>1, <1>2, <1>6, <3>1
    <3>3. IsIndented(b[k + 1])
      BY <3>1, <3>2 DEF Under
    <3> QED
      BY <3>1, <3>2, <3>3 DEF Calm, Last
  <2>2. PICK v \in 1..Len(body) : w = Shift(k, v)
    BY <1>1, <1>6, <2>1
  <2>3. PICK n \in 1..Len(body) : j = Shift(k, n)
    BY <1>1, <1>6
  <2>4. Premise(body, i, v, n) /\ b[w] = body[v] /\ b[j] = body[n]
    BY <1>1, <1>5, <1>6, <2>2, <2>3
  <2> QED
    BY <1>3, <2>4
<1>7. ASSUME NEW x, x \in PremisesAt(b, Shift(k, i))
      PROVE  x \in PremisesAt(body, i) \union AddedAt(b, Shift(k, i), k)
  <2>1. PICK w, j \in 1..Len(b) : Premise(b, Shift(k, i), w, j) /\ x = <<b[w].a, b[j].a>>
    BY <1>4, <1>7
  <2>2. CASE j = k
    BY <2>1, <2>2 DEF AddedAt
  <2>3. CASE j # k
    BY <1>6, <2>1, <2>3
  <2> QED
    BY <2>2, <2>3
<1>8. ASSUME NEW x, x \in PremisesAt(body, i)
      PROVE  x \in PremisesAt(b, Shift(k, i))
  <2>1. PICK w, j \in 1..Len(body) : Premise(body, i, w, j) /\ x = <<body[w].a, body[j].a>>
    BY <1>3, <1>8
  <2>2. /\ Premise(b, Shift(k, i), Shift(k, w), Shift(k, j))
        /\ Shift(k, w) \in 1..Len(b) /\ Shift(k, j) \in 1..Len(b)
        /\ b[Shift(k, w)] = body[w] /\ b[Shift(k, j)] = body[j]
    BY <1>1, <1>5, <2>1
  <2>3. \E v, n \in 1..Len(b) : Premise(b, Shift(k, i), v, n) /\ x = <<b[v].a, b[n].a>>
    BY <2>1, <2>2
  <2> QED
    BY <1>4, <2>3
<1>9. ASSUME NEW x, x \in AddedAt(b, Shift(k, i), k)
      PROVE  x \in PremisesAt(b, Shift(k, i))
  <2>1. PICK w \in 1..Len(b) : Premise(b, Shift(k, i), w, k) /\ x = <<b[w].a, b[k].a>>
    BY <1>9 DEF AddedAt
  <2> QED
    BY <1>2, <1>4, <2>1
<1> QED
  BY <1>7, <1>8, <1>9

\* A line can be below one When line of one block only.
LEMMA OnePremise ==
  ASSUME NEW b, Len(b) \in Nat, NEW k \in 1..Len(b),
         NEW i \in BlockStarts(b), NEW j \in BlockStarts(b), NEW v \in 1..Len(b), NEW w \in 1..Len(b),
         Premise(b, i, v, k), Premise(b, j, w, k)
  PROVE  i = j /\ v = w
<1>1. \A n \in BlockStarts(b) : n \in 1..Len(b) /\ ~IsIndented(b[n])
  BY DEF BlockStarts
<1>2. i < v /\ v < k /\ b[v].t = "when" /\ (\A n \in v + 1..k : b[n].t = "child") /\ \A n \in i + 1..k : IsIndented(b[n])
  BY DEF Premise, Under
<1>3. j < w /\ w < k /\ b[w].t = "when" /\ (\A n \in w + 1..k : b[n].t = "child") /\ \A n \in j + 1..k : IsIndented(b[n])
  BY DEF Premise, Under
<1>4. ~(i < j)
  <2> SUFFICES ASSUME i < j PROVE FALSE
    OBVIOUS
  <2>1. j \in i + 1..k
    BY <1>1, <1>2, <1>3
  <2> QED
    BY <1>1, <1>2, <2>1
<1>5. ~(j < i)
  <2> SUFFICES ASSUME j < i PROVE FALSE
    OBVIOUS
  <2>1. i \in j + 1..k
    BY <1>1, <1>2, <1>3
  <2> QED
    BY <1>1, <1>3, <2>1
<1>6. ~(v < w)
  <2> SUFFICES ASSUME v < w PROVE FALSE
    OBVIOUS
  <2>1. w \in v + 1..k
    BY <1>3
  <2>2. b[w].t = "child"
    BY <1>2, <2>1
  <2> QED
    BY <1>3, <2>2
<1>7. ~(w < v)
  <2> SUFFICES ASSUME w < v PROVE FALSE
    OBVIOUS
  <2>1. v \in w + 1..k
    BY <1>2
  <2>2. b[v].t = "child"
    BY <1>3, <2>1
  <2> QED
    BY <1>2, <2>2
<1>8. i \in Nat /\ j \in Nat
  BY <1>1
<1> QED
  BY <1>4, <1>5, <1>6, <1>7, <1>8

\* Block by block.
LEMMA PutBlocks ==
  ASSUME NEW body, NEW b, NEW k, Put(body, b, k), Calm(b, k), NEW m, NEW e, Lists(e, m, BlockStarts(body))
  PROVE  /\ m \in Nat /\ Len(BlocksOf(body)) = m /\ Len(BlocksOf(b)) = m
         /\ IsSeq(BlocksOf(body)) /\ IsSeq(BlocksOf(b))
         /\ \A n \in 1..m :
              /\ e[n] \in 1..Len(body) /\ Shift(k, e[n]) \in BlockStarts(b)
              /\ BlocksOf(body)[n] = BlockAt(body, e[n])
              /\ BlocksOf(b)[n] = [BlocksOf(body)[n] EXCEPT !.premises = @ \union AddedAt(b, Shift(k, e[n]), k)]
<1>1. PICK f : f = [n \in 1..m |-> Shift(k, e[n])]
  OBVIOUS
<1>2. Lists(f, m, BlockStarts(b))
  BY <1>1, PutListed
<1>3. /\ Len(BlocksOf(body)) = m /\ m \in Nat /\ IsSeq(BlocksOf(body))
      /\ \A n \in 1..m : BlocksOf(body)[n] = BlockAt(body, e[n])
  BY BlocksAre
<1>4. /\ Len(BlocksOf(b)) = m /\ IsSeq(BlocksOf(b))
      /\ \A n \in 1..m : BlocksOf(b)[n] = BlockAt(b, f[n])
  BY <1>2, BlocksAre
<1>5. ASSUME NEW n \in 1..m
      PROVE  /\ e[n] \in 1..Len(body) /\ Shift(k, e[n]) \in BlockStarts(b)
             /\ BlockAt(b, f[n]) = [BlockAt(body, e[n]) EXCEPT !.premises = @ \union AddedAt(b, Shift(k, e[n]), k)]
  <2>1. e[n] \in BlockStarts(body) /\ f[n] \in BlockStarts(b) /\ f[n] = Shift(k, e[n])
    BY <1>1, <1>2 DEF Lists
  <2>2. PICK i \in 1..Len(body) : i = e[n]
    BY <2>1 DEF BlockStarts
  <2>3. b[Shift(k, i)] = body[i]
    BY Shifts DEF Placed
  <2>4. PremisesAt(b, Shift(k, i)) = PremisesAt(body, i) \union AddedAt(b, Shift(k, i), k)
    BY PutPremises
  <2>5. PICK P, Q, A : P = PremisesAt(body, i) /\ Q = PremisesAt(b, Shift(k, i)) /\ A = AddedAt(b, Shift(k, i), k)
    OBVIOUS
  <2>6. Q = P \union A
    BY <2>4, <2>5
  <2>7. PICK x : x = body[i]
    OBVIOUS
  <2>8. BlockAt(body, i) = [kind |-> x.t, name |-> x.a, premises |-> P]
        /\ BlockAt(b, Shift(k, i)) = [kind |-> x.t, name |-> x.a, premises |-> Q]
    BY <2>3, <2>5, <2>7 DEF BlockAt
  <2>9. BlockAt(b, Shift(k, i)) = [BlockAt(body, i) EXCEPT !.premises = @ \union A]
    <3>1. PICK r, t, a : r = BlockAt(body, i) /\ t = x.t /\ a = x.a
      OBVIOUS
    <3>2. r = [kind |-> t, name |-> a, premises |-> P]
      BY <2>8, <3>1
    <3>3. r.premises = P
      BY <3>2
    <3>4. \A X : [r EXCEPT !.premises = X] = [kind |-> t, name |-> a, premises |-> X]
      BY <3>2
    <3> QED
      BY <2>6, <2>8, <3>1, <3>3, <3>4
  <2> QED
    BY <2>1, <2>2, <2>5, <2>9
<1> QED
  BY <1>3, <1>4, <1>5

\* Sequences that agree everywhere are equal.
LEMMA AllAtMost ==
  ASSUME NEW s, NEW r, IsSeq(s), IsSeq(r), Len(s) = Len(r), \A i \in 1..Len(s) : s[i] = r[i]
  PROVE  s = r
<1>1. PICK S : s \in Seq(S) /\ r \in Seq(S)
  BY BothSeq
<1> QED
  BY <1>1, SeqEqual

\* A sequence of blocks in which one differs.
LEMMA OneBlock ==
  ASSUME NEW s, NEW r, IsSeq(s), IsSeq(r), Len(r) = Len(s), NEW n \in 1..Len(s), NEW x,
         r[n] = x, \A i \in 1..Len(s) : i # n => r[i] = s[i]
  PROVE  r = [s EXCEPT ![n] = x]
<1>1. PICK S : s \in Seq(S)
  BY DEF IsSeq
<1>2. s \in Seq(S \union {x})
  BY <1>1
<1>3. PICK q : q = [s EXCEPT ![n] = x]
  OBVIOUS
<1>4. q \in Seq(S \union {x}) /\ Len(q) = Len(s) /\ \A i \in 1..Len(s) : q[i] = IF i = n THEN x ELSE s[i]
  BY <1>2, <1>3, ExceptSeq
<1>5. IsSeq(q)
  BY <1>4 DEF IsSeq
<1>6. \A i \in 1..Len(r) : r[i] = q[i]
  BY <1>4
<1>7. r = q
  BY <1>4, <1>5, <1>6, AllAtMost
<1> QED
  BY <1>3, <1>7

\* A block with more premises.
LEMMA BlockWith ==
  ASSUME NEW body, NEW i, NEW A
  PROVE  [BlockAt(body, i) EXCEPT !.premises = @ \union A]
         = [kind |-> body[i].t, name |-> body[i].a, premises |-> PremisesAt(body, i) \union A]
<1>1. PICK P, r, t, a : P = PremisesAt(body, i) /\ r = BlockAt(body, i) /\ t = body[i].t /\ a = body[i].a
  OBVIOUS
<1>2. r = [kind |-> t, name |-> a, premises |-> P]
  BY <1>1 DEF BlockAt
<1>3. r.premises = P
  BY <1>2
<1>4. \A X : [r EXCEPT !.premises = X] = [kind |-> t, name |-> a, premises |-> X]
  BY <1>2
<1> QED
  BY <1>1, <1>3, <1>4

\* A block with no more premises.
LEMMA SameBlock ==
  ASSUME NEW body, NEW i, NEW A, A = {}
  PROVE  [BlockAt(body, i) EXCEPT !.premises = @ \union A] = BlockAt(body, i)
<1>1. PremisesAt(body, i) \union A = PremisesAt(body, i)
  OBVIOUS
<1> QED
  BY <1>1, BlockWith DEF BlockAt

\* A line at the end of a block that lists no premise.
LEMMA PutQuiet ==
  ASSUME NEW body, NEW b, NEW k, Put(body, b, k), Last(b, k), b[k].t # "child"
  PROVE  BlocksOf(b) = BlocksOf(body)
<1>1. Calm(b, k)
  BY DEF Calm
<1>2. Len(body) \in Nat /\ k \in Nat
  BY DEF Put
<1>3. PICK m, e : Lists(e, m, BlockStarts(body))
  BY <1>2, BlocksHaveList
<1>4. /\ m \in Nat /\ Len(BlocksOf(body)) = m /\ Len(BlocksOf(b)) = m
      /\ IsSeq(BlocksOf(body)) /\ IsSeq(BlocksOf(b))
      /\ \A n \in 1..m :
           /\ e[n] \in 1..Len(body) /\ Shift(k, e[n]) \in BlockStarts(b)
           /\ BlocksOf(body)[n] = BlockAt(body, e[n])
           /\ BlocksOf(b)[n] = [BlocksOf(body)[n] EXCEPT !.premises = @ \union AddedAt(b, Shift(k, e[n]), k)]
  BY <1>1, <1>3, PutBlocks
<1>5. \A i : AddedAt(b, i, k) = {}
  <2> SUFFICES ASSUME NEW i, NEW w \in 1..Len(b), Premise(b, i, w, k) PROVE FALSE
    BY DEF AddedAt
  <2>1. w < k /\ \A j \in w + 1..k : b[j].t = "child"
    BY DEF Premise
  <2>2. k \in w + 1..k
    BY <1>2, <2>1
  <2> QED
    BY <2>1, <2>2
<1>6. \A n \in 1..m : BlocksOf(b)[n] = BlocksOf(body)[n]
  <2> SUFFICES ASSUME NEW n \in 1..m PROVE BlocksOf(b)[n] = BlocksOf(body)[n]
    OBVIOUS
  <2>1. PICK A : A = AddedAt(b, Shift(k, e[n]), k)
    OBVIOUS
  <2>2. A = {}
    BY <1>5, <2>1
  <2>3. BlocksOf(b)[n] = [BlockAt(body, e[n]) EXCEPT !.premises = @ \union A] /\ BlocksOf(body)[n] = BlockAt(body, e[n])
    BY <1>4, <2>1
  <2> QED
    BY <2>2, <2>3, SameBlock
<1> QED
  BY <1>4, <1>6, AllAtMost

-----------------------------------------------------------------------------
(* One premise more. *)

\* Lines are told apart by their kind and what they name.
LEMMA LineIs ==
  /\ \A t, a : Line(t, a).t = t /\ Line(t, a).a = a
  /\ \A line, t, a : IsLine(line) /\ line.t = t /\ line.a = a => line = Line(t, a)
  /\ \A c : ~IsIndented(Line("conj", c)) /\ ~IsIndented(Line("thm", c)) /\ ~IsIndented(Line("text", c))
  BY DEF Line, IsLine, IsIndented

\* The blocks keep their kinds and names.
LEMMA PutTitles ==
  ASSUME NEW body, NEW b, NEW k, Put(body, b, k)
  PROVE  Book!Titles(BlocksOf(b)) = Book!Titles(BlocksOf(body))
<1>1. Len(body) \in Nat /\ \A j \in 1..Len(body) : b[Shift(k, j)] = body[j]
  BY Shifts DEF Placed
<1>2. PICK m, e : Lists(e, m, BlockStarts(body))
  BY <1>1, BlocksHaveList
<1>3. PICK f : f = [n \in 1..m |-> Shift(k, e[n])]
  OBVIOUS
<1>4. Lists(f, m, BlockStarts(b))
  BY <1>2, <1>3, PutListed
<1>5. \A n \in 1..m : b[f[n]] = body[e[n]]
  <2> SUFFICES ASSUME NEW n \in 1..m PROVE b[f[n]] = body[e[n]]
    OBVIOUS
  <2>1. e[n] \in 1..Len(body) /\ f[n] = Shift(k, e[n])
    BY <1>2, <1>3 DEF Lists, BlockStarts
  <2> QED
    BY <1>1, <2>1
<1>6. PICK old, new : /\ old = BlocksOf(body) /\ old = [n \in 1..m |-> BlockAt(body, e[n])]
                      /\ new = BlocksOf(b) /\ new = [n \in 1..m |-> BlockAt(b, f[n])]
  BY <1>2, <1>4, BlocksAre
<1>7. DOMAIN old = 1..m /\ DOMAIN new = 1..m
  BY <1>6
<1>8. ASSUME NEW n \in 1..m PROVE <<new[n].kind, new[n].name>> = <<old[n].kind, old[n].name>>
  <2>1. new[n] = BlockAt(b, f[n]) /\ old[n] = BlockAt(body, e[n])
    BY <1>6
  <2>2. new[n].kind = b[f[n]].t /\ new[n].name = b[f[n]].a /\ old[n].kind = body[e[n]].t /\ old[n].name = body[e[n]].a
    BY <2>1 DEF BlockAt
  <2> QED
    BY <1>5, <2>2
<1>9. [n \in DOMAIN new |-> <<new[n].kind, new[n].name>>] = [n \in DOMAIN old |-> <<old[n].kind, old[n].name>>]
  BY <1>7, <1>8
<1> QED
  BY <1>6, <1>9 DEF Book!Titles

\* A block keeps its number.
LEMMA PutNumber ==
  ASSUME NEW body, NEW b, NEW k, Put(body, b, k), NEW i \in BlockStarts(body)
  PROVE  BlockNumber(b, Shift(k, i)) = BlockNumber(body, i)
<1>1. Len(body) \in Nat /\ BlockStarts(body) \in SUBSET Nat /\ BlockStarts(b) \in SUBSET Nat
  BY DEF Put, BlockStarts
<1>2. PICK m, e : Lists(e, m, BlockStarts(body))
  BY <1>1, BlocksHaveList
<1>3. PICK f : f = [n \in 1..m |-> Shift(k, e[n])]
  OBVIOUS
<1>4. Lists(f, m, BlockStarts(b))
  BY <1>2, <1>3, PutListed
<1>5. PICK n \in 1..m : e[n] = i
  BY <1>2 DEF Lists
<1>6. f[n] = Shift(k, i)
  BY <1>3, <1>5
<1>7. Cardinality({j \in BlockStarts(body) : j <= e[n]}) = n
  BY <1>1, <1>2, ListedRank
<1>8. Cardinality({j \in BlockStarts(b) : j <= f[n]}) = n
  BY <1>1, <1>4, ListedRank
<1> QED
  BY <1>5, <1>6, <1>7, <1>8 DEF BlockNumber

\* A line that lists a premise is one pair of the block that has it.
LEMMA PutChild ==
  ASSUME NEW body, NEW b, NEW k, Put(body, b, k), b[k].t = "child",
         NEW s \in BlockStarts(body), NEW v \in 1..Len(b), Premise(b, Shift(k, s), v, k)
  PROVE  BlocksOf(b) = WithPremise(BlocksOf(body), BlockNumber(body, s), <<b[v].a, b[k].a>>)
<1>1. Calm(b, k)
  BY DEF Calm
<1>0. Placed(body, b, k)
  BY Shifts
<1>2. /\ Len(body) \in Nat /\ Len(b) = Len(body) + 1 /\ k \in 1..Len(body) + 1 /\ IsIndented(b[k])
      /\ \A n \in 1..Len(body) : /\ Shift(k, n) \in 1..Len(b) /\ Shift(k, n) # k
                                 /\ b[Shift(k, n)] = body[n]
      /\ \A n, p \in 1..Len(body) : n < p <=> Shift(k, n) < Shift(k, p)
  BY <1>0 DEF Placed
<1>3. PICK m, e : Lists(e, m, BlockStarts(body))
  BY <1>2, BlocksHaveList
<1>4. PICK old, new : old = BlocksOf(body) /\ new = BlocksOf(b)
  OBVIOUS
<1> DEFINE Add(n) == AddedAt(b, Shift(k, e[n]), k)
<1>5. /\ m \in Nat /\ Len(old) = m /\ Len(new) = m /\ IsSeq(old) /\ IsSeq(new)
      /\ \A n \in 1..m :
           /\ e[n] \in 1..Len(body) /\ Shift(k, e[n]) \in BlockStarts(b)
           /\ old[n] = BlockAt(body, e[n])
           /\ new[n] = [old[n] EXCEPT !.premises = @ \union Add(n)]
  BY <1>1, <1>3, <1>4, PutBlocks
<1>6. \A n \in 1..m : Add(n) = {} => new[n] = old[n]
  <2> SUFFICES ASSUME NEW n \in 1..m, Add(n) = {} PROVE new[n] = old[n]
    OBVIOUS
  <2>1. PICK A : A = Add(n)
    OBVIOUS
  <2>2. new[n] = [BlockAt(body, e[n]) EXCEPT !.premises = @ \union A] /\ old[n] = BlockAt(body, e[n])
    BY <1>5, <2>1
  <2> QED
    BY <2>1, <2>2, SameBlock
<1>7. PICK n \in 1..m : e[n] = s
  BY <1>3 DEF Lists
<1>8. BlockNumber(body, s) = n
  <2>1. BlockStarts(body) \in SUBSET Nat
    BY DEF BlockStarts
  <2>2. Cardinality({j \in BlockStarts(body) : j <= e[n]}) = n
    BY <1>3, <2>1, ListedRank
  <2> QED
    BY <1>7, <2>2 DEF BlockNumber
<1>9. PICK i : i = Shift(k, e[n])
  OBVIOUS
<1>10. Premise(b, i, v, k)
  BY <1>7, <1>9
<1>11. Len(b) \in Nat /\ k \in 1..Len(b) /\ k \in Nat /\ i \in BlockStarts(b)
  BY <1>2, <1>5, <1>9
<1>12. PICK pair : pair = <<b[v].a, b[k].a>>
  OBVIOUS
<1>13. ASSUME NEW j \in BlockStarts(b), NEW w \in 1..Len(b), Premise(b, j, w, k) PROVE j = i /\ w = v
  BY <1>10, <1>11, <1>13, OnePremise
<1>14. Add(n) = {pair}
  <2>1. \A w \in 1..Len(b) : Premise(b, i, w, k) <=> w = v
    BY <1>10, <1>11, <1>13
  <2>2. AddedAt(b, i, k) = {pair}
    BY <1>12, <2>1 DEF AddedAt
  <2> QED
    BY <1>9, <2>2
<1>15. ASSUME NEW j \in 1..m, j # n PROVE Add(j) = {}
  <2>1. Shift(k, e[j]) # i
    <3>1. \A g, h \in 1..m : g < h => e[g] < e[h]
      BY <1>3 DEF Lists
    <3>2. j < n \/ n < j
      BY <1>5, <1>15
    <3>3. e[j] < e[n] \/ e[n] < e[j]
      BY <3>1, <3>2
    <3>4. e[j] \in 1..Len(body) /\ e[n] \in 1..Len(body)
      BY <1>5
    <3>5. Shift(k, e[j]) < i \/ i < Shift(k, e[j])
      BY <1>2, <1>9, <3>3, <3>4
    <3>6. i \in Nat /\ Shift(k, e[j]) \in Nat
      BY <1>2, <1>9, <3>4
    <3> QED
      BY <3>5, <3>6
  <2>2. Shift(k, e[j]) \in BlockStarts(b)
    BY <1>5
  <2>3. \A w \in 1..Len(b) : ~Premise(b, Shift(k, e[j]), w, k)
    BY <1>13, <2>1, <2>2
  <2> QED
    BY <2>3 DEF AddedAt
<1>16. PICK P, r, t, a : P = PremisesAt(body, e[n]) /\ r = old[n] /\ t = body[e[n]].t /\ a = body[e[n]].a
  OBVIOUS
<1>17. r = [kind |-> t, name |-> a, premises |-> P]
  BY <1>5, <1>16 DEF BlockAt
<1>18. PICK q : q = new[n]
  OBVIOUS
<1>19. q = [r EXCEPT !.premises = @ \union {pair}]
  <2>1. q = [r EXCEPT !.premises = @ \union Add(n)]
    BY <1>5, <1>16, <1>18
  <2> HIDE DEF Add
  <2> QED
    BY <1>14, <2>1
<1>20. \A j \in 1..m : j # n => new[j] = old[j]
  BY <1>6, <1>15
<1>21. new = [old EXCEPT ![n] = q]
  BY <1>5, <1>18, <1>20, OneBlock
<1>22. new = [old EXCEPT ![n].premises = @ \union {pair}]
  BY <1>16, <1>19, <1>21
<1> QED
  BY <1>4, <1>8, <1>12, <1>22 DEF WithPremise

\* A sequence of one line, and of two.
LEMMA OneLineSeq ==
  ASSUME NEW x PROVE IsSeq(<<x>>) /\ Len(<<x>>) = 1 /\ <<x>>[1] = x
<1>1. PICK s : s = <<x>>
  OBVIOUS
<1>2. s \in Seq({x}) /\ Len(s) = 1 /\ s[1] = x
  BY <1>1
<1> QED
  BY <1>1, <1>2 DEF IsSeq

LEMMA TwoLineSeq ==
  ASSUME NEW x, NEW y PROVE IsSeq(<<x, y>>) /\ Len(<<x, y>>) = 2 /\ <<x, y>>[1] = x /\ <<x, y>>[2] = y
<1>1. PICK s : s = <<x, y>>
  OBVIOUS
<1>2. s \in Seq({x, y}) /\ Len(s) = 2 /\ s[1] = x /\ s[2] = y
  BY <1>1
<1> QED
  BY <1>1, <1>2 DEF IsSeq

\* The three parts of what is spliced.
SplicedAs(s, x, a, k, b) ==
  /\ IsSeq(b) /\ Len(b) \in Nat /\ Len(s) \in Nat /\ Len(x) \in Nat
  /\ Len(b) = a + Len(x) + (Len(s) + 1 - k)
  /\ \A i \in 1..Len(b) : i <= a => b[i] = s[i]
  /\ \A i \in 1..Len(b) : i > a /\ i <= a + Len(x) => b[i] = x[i - a]
  /\ \A i \in 1..Len(b) : i > a + Len(x) => b[i] = s[k + (i - (a + Len(x))) - 1]

LEMMA SpliceParts ==
  ASSUME NEW s, IsSeq(s), NEW x, IsSeq(x), NEW from \in 1..Len(s) + 1, NEW k \in 1..Len(s) + 1,
         NEW b, b = Splice(s, from, k, x), NEW a, a = from - 1
  PROVE  SplicedAs(s, x, a, k, b)
<1>1. PICK S : s \in Seq(S) /\ x \in Seq(S)
  BY BothSeq
<1>2. /\ Splice(s, from, k, x) \in Seq(S)
      /\ Len(Splice(s, from, k, x)) = (from - 1) + Len(x) + (Len(s) + 1 - k)
      /\ \A i \in 1..Len(Splice(s, from, k, x)) :
              Splice(s, from, k, x)[i] = SpliceAt(s, x, from - 1, k, i)
  BY <1>1, Spliced
<1>3. b \in Seq(S) /\ Len(b) = a + Len(x) + (Len(s) + 1 - k) /\ \A i \in 1..Len(b) : b[i] = SpliceAt(s, x, a, k, i)
  BY <1>2
<1>4. Len(b) \in Nat /\ Len(s) \in Nat /\ Len(x) \in Nat /\ a \in Nat
  BY <1>1, <1>3
<1>5. ASSUME NEW i \in 1..Len(b) 
      PROVE  /\ i <= a => b[i] = s[i]
             /\ i > a /\ i <= a + Len(x) => b[i] = x[i - a]
             /\ i > a + Len(x) => b[i] = s[k + (i - (a + Len(x))) - 1]
  <2>1. b[i] = SpliceAt(s, x, a, k, i)
    BY <1>3
  <2> QED
    BY <1>4, <2>1 DEF SpliceAt
<1>6. IsSeq(b)
  BY <1>3 DEF IsSeq
<1> QED
  BY <1>3, <1>4, <1>5, <1>6 DEF SplicedAs

\* One line is put in.
LEMMA InsertPuts ==
  ASSUME NEW body, IsSeq(body), NEW k \in 1..Len(body) + 1, NEW x, IsIndented(x),
         NEW b, b = Insert(body, k, <<x>>)
  PROVE  Put(body, b, k) /\ b[k] = x /\ IsSeq(b)
<1>1. PICK one : one = <<x>>
  OBVIOUS
<1>2. IsSeq(one) /\ Len(one) = 1 /\ one[1] = x
  BY <1>1, OneLineSeq
<1>3. b = Splice(body, k, k, one)
  BY <1>1 DEF Insert
<1>4. PICK a : a = k - 1
  OBVIOUS
<1>5. /\ IsSeq(b) /\ Len(b) \in Nat /\ Len(body) \in Nat
      /\ Len(b) = a + Len(one) + (Len(body) + 1 - k)
      /\ \A i \in 1..Len(b) : i <= a => b[i] = body[i]
      /\ \A i \in 1..Len(b) : i > a /\ i <= a + Len(one) => b[i] = one[i - a]
      /\ \A i \in 1..Len(b) : i > a + Len(one) => b[i] = body[k + (i - (a + Len(one))) - 1]
  <2>1. SplicedAs(body, one, a, k, b)
    BY <1>2, <1>3, <1>4, SpliceParts
  <2> QED
    BY <2>1 DEF SplicedAs
<1>6. Len(b) = Len(body) + 1 /\ k \in Nat /\ 1 <= k /\ k <= Len(body) + 1
  BY <1>2, <1>4, <1>5
<1>7. b[k] = x
  <2>1. k \in 1..Len(b) /\ k > a /\ k <= a + Len(one) /\ k - a = 1
    BY <1>2, <1>4, <1>5, <1>6
  <2>2. b[k] = one[k - a]
    BY <1>5, <2>1
  <2> QED
    BY <1>2, <2>1, <2>2
<1>8. ASSUME NEW j \in 1..Len(body) PROVE b[IF j < k THEN j ELSE j + 1] = body[j]
  <2>1. CASE j < k
    <3>1. j \in 1..Len(b) /\ j <= a
      BY <1>4, <1>5, <1>6, <2>1
    <3> QED
      BY <1>5, <2>1, <3>1
  <2>2. CASE ~(j < k)
    <3>1. PICK i : i = j + 1
      OBVIOUS
    <3>2. i \in 1..Len(b) /\ i > a + Len(one) /\ k + (i - (a + Len(one))) - 1 = j
      BY <1>2, <1>4, <1>5, <1>6, <2>2, <3>1
    <3>3. b[i] = body[k + (i - (a + Len(one))) - 1]
      BY <1>5, <3>2
    <3> QED
      BY <2>2, <3>1, <3>2, <3>3
  <2> QED
    BY <2>1, <2>2
<1>9. Put(body, b, k)
  BY <1>5, <1>6, <1>7, <1>8 DEF Put
<1> QED
  BY <1>5, <1>7, <1>9

\* One line is taken out.
LEMMA WithoutPuts ==
  ASSUME NEW body, IsSeq(body), NEW k \in 1..Len(body), IsIndented(body[k]),
         NEW b, b = Without(body, k)
  PROVE  Put(b, body, k) /\ IsSeq(b)
<1>1. PICK none : none = <<>>
  OBVIOUS
<1>2. IsSeq(none) /\ Len(none) = 0
  BY <1>1 DEF IsSeq
<1>3. Len(body) \in Nat /\ k \in 1..Len(body) + 1 /\ k + 1 \in 1..Len(body) + 1
  <2>1. Len(body) \in Nat
    BY DEF IsSeq
  <2> QED
    BY <2>1
<1>4. PICK n : n = k + 1
  OBVIOUS
<1>5. b = Splice(body, k, n, none) /\ n \in 1..Len(body) + 1
  BY <1>1, <1>3, <1>4 DEF Without
<1>6. PICK a : a = k - 1
  OBVIOUS
<1>7. /\ IsSeq(b) /\ Len(b) \in Nat
      /\ Len(b) = a + Len(none) + (Len(body) + 1 - n)
      /\ \A i \in 1..Len(b) : i <= a => b[i] = body[i]
      /\ \A i \in 1..Len(b) : i > a + Len(none) => b[i] = body[n + (i - (a + Len(none))) - 1]
  <2>1. SplicedAs(body, none, a, n, b)
    BY <1>2, <1>3, <1>5, <1>6, SpliceParts
  <2> QED
    BY <2>1 DEF SplicedAs
<1>8. Len(body) = Len(b) + 1 /\ k \in 1..Len(b) + 1
  BY <1>2, <1>3, <1>4, <1>6, <1>7
<1>9. ASSUME NEW j \in 1..Len(b) PROVE body[IF j < k THEN j ELSE j + 1] = b[j]
  <2>1. CASE j < k
    <3>1. j <= a
      BY <1>3, <1>6, <2>1
    <3> QED
      BY <1>7, <2>1, <3>1
  <2>2. CASE ~(j < k)
    <3>1. j > a + Len(none) /\ n + (j - (a + Len(none))) - 1 = j + 1
      BY <1>2, <1>3, <1>4, <1>6, <1>7, <2>2
    <3>2. b[j] = body[n + (j - (a + Len(none))) - 1]
      BY <1>7, <3>1
    <3> QED
      BY <2>2, <3>1, <3>2
  <2> QED
    BY <2>1, <2>2
<1>10. Put(b, body, k)
  BY <1>7, <1>8, <1>9 DEF Put
<1> QED
  BY <1>7, <1>10

\* Two lines are put in one after the other.
LEMMA InsertTwice ==
  ASSUME NEW body, IsSeq(body), NEW k \in 1..Len(body) + 1, NEW x, IsIndented(x), NEW y, IsIndented(y),
         NEW c, c = Insert(body, k, <<x>>), NEW b, b = Insert(body, k, <<x, y>>)
  PROVE  Put(c, b, k + 1) /\ b[k + 1] = y
<1>1. PICK two : two = <<x, y>>
  OBVIOUS
<1>2. IsSeq(two) /\ Len(two) = 2 /\ two[1] = x /\ two[2] = y
  BY <1>1, TwoLineSeq
<1>3. b = Splice(body, k, k, two)
  BY <1>1 DEF Insert
<1>4. PICK a : a = k - 1
  OBVIOUS
<1>5. /\ Len(b) \in Nat /\ Len(body) \in Nat
      /\ Len(b) = a + Len(two) + (Len(body) + 1 - k)
      /\ \A i \in 1..Len(b) : i <= a => b[i] = body[i]
      /\ \A i \in 1..Len(b) : i > a /\ i <= a + Len(two) => b[i] = two[i - a]
      /\ \A i \in 1..Len(b) : i > a + Len(two) => b[i] = body[k + (i - (a + Len(two))) - 1]
  <2>1. SplicedAs(body, two, a, k, b)
    BY <1>2, <1>3, <1>4, SpliceParts
  <2> QED
    BY <2>1 DEF SplicedAs
<1>6. Len(b) = Len(body) + 2 /\ k \in Nat /\ 1 <= k /\ k <= Len(body) + 1
  BY <1>2, <1>4, <1>5
<1>7. Put(body, c, k) /\ c[k] = x
  BY InsertPuts
<1>8. Len(c) = Len(body) + 1 /\ \A j \in 1..Len(body) : c[IF j < k THEN j ELSE j + 1] = body[j]
  BY <1>7 DEF Put
<1>9. PICK q : q = k + 1
  OBVIOUS
<1>10. b[k] = x /\ b[q] = y
  <2>1. k \in 1..Len(b) /\ k > a /\ k <= a + Len(two) /\ k - a = 1
    BY <1>2, <1>4, <1>5, <1>6
  <2>2. q \in 1..Len(b) /\ q > a /\ q <= a + Len(two) /\ q - a = 2
    BY <1>2, <1>4, <1>5, <1>6, <1>9
  <2>3. b[k] = two[k - a]
    BY <1>5, <2>1
  <2>4. b[q] = two[q - a]
    BY <1>5, <2>2
  <2> QED
    BY <1>2, <2>1, <2>2, <2>3, <2>4
<1>14. Len(body) \in Nat /\ Len(b) = Len(body) + 2 /\ Len(c) = Len(body) + 1
  BY <1>5, <1>6, <1>8
<1>11. ASSUME NEW j \in 1..Len(c) PROVE b[IF j < q THEN j ELSE j + 1] = c[j]
  <2>1. CASE j < k
    <3>1. j \in 1..Len(b) /\ j <= a /\ j \in 1..Len(body) /\ j < q
      BY <1>4, <1>6, <1>9, <1>11, <1>14, <2>1
    <3>2. b[j] = body[j]
      BY <1>5, <3>1
    <3>3. c[j] = body[j]
      BY <1>8, <2>1, <3>1
    <3> QED
      BY <3>1, <3>2, <3>3
  <2>2. CASE j = k
    <3>1. j < q
      BY <1>6, <1>9, <2>2
    <3> QED
      BY <1>7, <1>10, <2>2, <3>1
  <2>3. CASE j > k
    <3>1. PICK i, n : i = j + 1 /\ n = j - 1
      OBVIOUS
    <3>2. i \in 1..Len(b) /\ i > a + Len(two) /\ k + (i - (a + Len(two))) - 1 = n
      BY <1>2, <1>4, <1>5, <1>6, <1>8, <2>3, <3>1
    <3>3. b[i] = body[n]
      <4>1. b[i] = body[k + (i - (a + Len(two))) - 1]
        BY <1>5, <3>2
      <4> QED
        BY <3>2, <4>1
    <3>4. n \in 1..Len(body) /\ ~(n < k) /\ n + 1 = j
      BY <1>5, <1>6, <1>8, <2>3, <3>1
    <3>5. c[n + 1] = body[n]
      BY <1>8, <3>4
    <3>6. ~(j < q)
      BY <1>5, <1>6, <1>8, <1>9, <2>3
    <3> QED
      BY <3>1, <3>3, <3>4, <3>5, <3>6
  <2> QED
    BY <1>5, <1>6, <1>8, <2>1, <2>2, <2>3
<1>12. Len(c) \in Nat /\ Len(b) = Len(c) + 1 /\ q \in 1..Len(c) + 1
  BY <1>5, <1>6, <1>8, <1>9
<1>13. Put(c, b, q)
  BY <1>10, <1>11, <1>12 DEF Put
<1> QED
  BY <1>9, <1>10, <1>13

\* What is at the places of two sequences, one after the other.
JoinedAs(s, t, b) ==
  /\ IsSeq(b) /\ Len(s) \in Nat /\ Len(t) \in Nat /\ Len(b) = Len(s) + Len(t)
  /\ \A j \in 1..Len(s) : b[j] = s[j]
  /\ \A j \in 1..Len(t) : b[Len(s) + j] = t[j]

LEMMA JoinedIs ==
  ASSUME NEW s, IsSeq(s), NEW t, IsSeq(t), NEW b, b = s \o t
  PROVE  JoinedAs(s, t, b)
<1>1. PICK S : s \in Seq(S) /\ t \in Seq(S)
  BY BothSeq
<1>2. s \o t \in Seq(S) /\ Len(s \o t) = Len(s) + Len(t) /\ Len(s) \in Nat /\ Len(t) \in Nat
  BY <1>1, ConcatProperties, LenProperties
<1>3. \A i \in 1..Len(s) + Len(t) : (s \o t)[i] = IF i <= Len(s) THEN s[i] ELSE t[i - Len(s)]
  BY <1>1, ConcatProperties
<1>4. IsSeq(b)
  BY <1>2 DEF IsSeq
<1>5. ASSUME NEW j \in 1..Len(s) PROVE b[j] = s[j]
  <2>1. j \in 1..Len(s) + Len(t) /\ j <= Len(s)
    BY <1>2
  <2> QED
    BY <1>3, <2>1
<1>6. ASSUME NEW j \in 1..Len(t) PROVE b[Len(s) + j] = t[j]
  <2>1. PICK i : i = Len(s) + j
    OBVIOUS
  <2>2. i \in 1..Len(s) + Len(t) /\ ~(i <= Len(s)) /\ i - Len(s) = j
    BY <1>2, <2>1
  <2>3. b[i] = t[j]
    BY <1>3, <2>2
  <2> QED
    BY <2>1, <2>3
<1> QED
  BY <1>2, <1>4, <1>5, <1>6 DEF JoinedAs

\* A line that is not indented begins a block without premises.
LEMMA OneMoreBlock ==
  ASSUME NEW body, IsSeq(body), NEW x, ~IsIndented(x), NEW one, Len(one) = 1, one[1] = x,
         NEW b, JoinedAs(body, one, b),
         NEW blk, blk = [kind |-> x.t, name |-> x.a, premises |-> {}]
  PROVE  BlocksOf(b) = Append(BlocksOf(body), blk)
<1>4. PICK L : L = Len(body)
  OBVIOUS
<1>5. PICK z : z = L + 1
  OBVIOUS
<1>6. L \in Nat /\ Len(b) = z /\ \A j \in 1..L : b[j] = body[j]
  BY <1>4, <1>5 DEF JoinedAs
<1>7. b[z] = x
  BY <1>4, <1>5 DEF JoinedAs
<1>8. PICK m, e : Lists(e, m, BlockStarts(body))
  BY <1>4, <1>6, BlocksHaveList
<1>9. BlockStarts(b) = BlockStarts(body) \union {z}
  <2>1. ASSUME NEW i, i \in BlockStarts(b) PROVE i \in BlockStarts(body) \union {z}
    BY <1>4, <1>5, <1>6, <1>7, <2>1 DEF BlockStarts
  <2>2. ASSUME NEW i, i \in BlockStarts(body) PROVE i \in BlockStarts(b)
    BY <1>4, <1>5, <1>6, <1>7, <2>2 DEF BlockStarts
  <2>3. z \in BlockStarts(b)
    BY <1>5, <1>6, <1>7 DEF BlockStarts
  <2> QED
    BY <2>1, <2>2, <2>3
<1>10. PICK f : f = [n \in 1..m + 1 |-> IF n = m + 1 THEN z ELSE e[n]]
  OBVIOUS
<1>11. Lists(f, m + 1, BlockStarts(b))
  <2>1. BlockStarts(body) \in SUBSET Nat
    BY DEF BlockStarts
  <2>2. z \in Nat /\ \A i \in BlockStarts(body) : i < z
    BY <1>4, <1>5, <1>6 DEF BlockStarts
  <2>3. Lists(f, m + 1, BlockStarts(body) \union {z})
    BY <1>8, <1>10, <2>1, <2>2, OneMoreListed
  <2> QED
    BY <1>9, <2>3
<1>12. PICK old, new : old = BlocksOf(body) /\ new = BlocksOf(b)
  OBVIOUS
<1>13. /\ m \in Nat /\ Len(old) = m /\ IsSeq(old) /\ \A n \in 1..m : old[n] = BlockAt(body, e[n])
  BY <1>8, <1>12, BlocksAre
<1>14. /\ Len(new) = m + 1 /\ IsSeq(new) /\ \A n \in 1..m + 1 : new[n] = BlockAt(b, f[n])
  BY <1>11, <1>12, BlocksAre
<1>15. ASSUME NEW i \in 1..L PROVE BlockAt(b, i) = BlockAt(body, i)
  <2>1. \A w, k \in 1..L : Premise(b, i, w, k) <=> Premise(body, i, w, k)
    <3> SUFFICES ASSUME NEW w \in 1..L, NEW k \in 1..L PROVE Premise(b, i, w, k) <=> Premise(body, i, w, k)
      OBVIOUS
    <3>1. k \in i + 1..Len(b) <=> k \in i + 1..Len(body)
      BY <1>4, <1>5, <1>6
    <3>2. \A j \in i + 1..k : j \in 1..L
      BY <1>6, <1>15
    <3>3. i < w => \A j \in w + 1..k : j \in 1..L
      BY <1>6, <1>15
    <3>4. Under(b, i, k) <=> Under(body, i, k)
      BY <1>6, <3>1, <3>2 DEF Under
    <3> QED
      BY <1>6, <3>3, <3>4 DEF Premise
  <2>2. \A w, k \in 1..Len(b) : Premise(b, i, w, k) => w \in 1..L /\ k \in 1..L
    <3> SUFFICES ASSUME NEW w \in 1..Len(b), NEW k \in 1..Len(b), Premise(b, i, w, k) PROVE w \in 1..L /\ k \in 1..L
      OBVIOUS
    <3>1. Under(b, i, k) /\ w < k
      BY DEF Premise
    <3>2. k # z
      <4> SUFFICES ASSUME k = z PROVE FALSE
        OBVIOUS
      <4>1. k \in i + 1..k
        BY <1>15, <3>1 DEF Under
      <4>2. IsIndented(b[k])
        BY <3>1, <4>1 DEF Under
      <4> QED
        BY <1>7, <4>2
    <3> QED
      BY <1>5, <1>6, <3>1, <3>2
  <2>3. i \in 0..Len(b) /\ i \in 0..Len(body) /\ Len(b) \in Nat /\ Len(body) \in Nat
    BY <1>4, <1>5, <1>6, <1>15
  <2>4. \A y : y \in PremisesAt(b, i) <=>
           \E w, k \in 1..Len(b) : Premise(b, i, w, k) /\ y = <<b[w].a, b[k].a>>
    BY <2>3, PremisesAre
  <2>5. \A y : y \in PremisesAt(body, i) <=>
           \E w, k \in 1..Len(body) : Premise(body, i, w, k) /\ y = <<body[w].a, body[k].a>>
    BY <2>3, PremisesAre
  <2>6. ASSUME NEW y, y \in PremisesAt(b, i) PROVE y \in PremisesAt(body, i)
    <3>1. PICK w, k \in 1..Len(b) : Premise(b, i, w, k) /\ y = <<b[w].a, b[k].a>>
      BY <2>4, <2>6
    <3>2. w \in 1..L /\ k \in 1..L
      BY <2>2, <3>1
    <3>3. Premise(body, i, w, k) /\ b[w] = body[w] /\ b[k] = body[k]
      BY <1>6, <2>1, <3>1, <3>2
    <3>4. y = <<body[w].a, body[k].a>>
      BY <3>1, <3>3
    <3> QED
      BY <1>4, <2>5, <3>2, <3>3, <3>4
  <2>7. ASSUME NEW y, y \in PremisesAt(body, i) PROVE y \in PremisesAt(b, i)
    <3>1. PICK w, k \in 1..Len(body) : Premise(body, i, w, k) /\ y = <<body[w].a, body[k].a>>
      BY <2>5, <2>7
    <3>2. w \in 1..L /\ k \in 1..L /\ w \in 1..Len(b) /\ k \in 1..Len(b)
      BY <1>4, <1>5, <1>6, <3>1
    <3>3. Premise(b, i, w, k) /\ b[w] = body[w] /\ b[k] = body[k]
      BY <1>6, <2>1, <3>1, <3>2
    <3>4. y = <<b[w].a, b[k].a>>
      BY <3>1, <3>3
    <3> QED
      BY <2>4, <3>2, <3>3, <3>4
  <2>8. PremisesAt(b, i) = PremisesAt(body, i)
    BY <2>6, <2>7
  <2>9. b[i] = body[i]
    BY <1>6, <1>15
  <2> QED
    BY <2>8, <2>9 DEF BlockAt
<1>16. BlockAt(b, z) = blk
  <2>1. z \in 0..Len(b) /\ Len(b) \in Nat
    BY <1>5, <1>6
  <2>2. \A y : y \in PremisesAt(b, z) <=>
           \E w, k \in 1..Len(b) : Premise(b, z, w, k) /\ y = <<b[w].a, b[k].a>>
    BY <2>1, PremisesAre
  <2>3. \A w, k \in 1..Len(b) : ~Premise(b, z, w, k)
    BY <1>5, <1>6 DEF Premise, Under
  <2>4. PremisesAt(b, z) = {}
    BY <2>2, <2>3
  <2> QED
    BY <1>7, <2>4 DEF BlockAt
<1>17. PICK app : app = Append(old, blk)
  OBVIOUS
<1>18. IsSeq(app) /\ Len(app) = m + 1 /\ \A n \in 1..m + 1 : app[n] = IF n = m + 1 THEN blk ELSE old[n]
  <2>1. PICK bb : bb = <<blk>>
    OBVIOUS
  <2>2. IsSeq(bb)
    BY <2>1, OneLineSeq
  <2>3. PICK S : old \in Seq(S) /\ bb \in Seq(S)
    BY <1>13, <2>2, BothSeq
  <2>4. blk \in S
    <3>1. Len(bb) = 1 /\ bb[1] = blk
      BY <2>1, OneLineSeq
    <3>2. \A i \in 1..Len(bb) : bb[i] \in S
      BY <2>3, ElementOfSeq
    <3> QED
      BY <3>1, <3>2
  <2>5. Append(old, blk) \in Seq(S) /\ Len(Append(old, blk)) = Len(old) + 1
        /\ \A i \in 1..Len(old) : Append(old, blk)[i] = old[i]
        /\ Append(old, blk)[Len(old) + 1] = blk
    BY <2>3, <2>4, AppendProperties
  <2>6. IsSeq(app) /\ Len(app) = m + 1 /\ app[m + 1] = blk /\ \A n \in 1..m : app[n] = old[n]
    <3>1. app \in Seq(S)
      BY <1>17, <2>5
    <3> QED
      BY <1>13, <1>17, <2>5, <3>1 DEF IsSeq
  <2>7. \A n \in 1..m + 1 : n # m + 1 => n \in 1..m
    BY <1>13
  <2> QED
    BY <2>6, <2>7
<1>19. ASSUME NEW n \in 1..m + 1 PROVE new[n] = app[n]
  <2>1. CASE n = m + 1
    <3>1. f[n] = z
      BY <1>10, <2>1
    <3>2. new[n] = BlockAt(b, f[n]) /\ app[n] = blk
      BY <1>14, <1>18, <2>1, <1>19
    <3> QED
      BY <1>16, <3>1, <3>2
  <2>2. CASE n # m + 1
    <3>1. n \in 1..m
      BY <1>13, <1>19, <2>2
    <3>2. f[n] = e[n]
      BY <1>10, <2>2
    <3>3. e[n] \in 1..L
      <4>1. e[n] \in BlockStarts(body)
        BY <1>8, <3>1 DEF Lists
      <4> QED
        BY <1>4, <4>1 DEF BlockStarts
    <3>4. new[n] = BlockAt(b, e[n]) /\ old[n] = BlockAt(body, e[n]) /\ app[n] = old[n]
      BY <1>13, <1>14, <1>18, <1>19, <2>2, <3>1, <3>2
    <3> QED
      BY <1>15, <3>3, <3>4
  <2> QED
    BY <2>1, <2>2
<1>20. new = app
  BY <1>14, <1>18, <1>19, AllAtMost
<1> QED
  BY <1>12, <1>17, <1>20

LEMMA AppendBlock ==
  ASSUME NEW body, IsSeq(body), NEW x, ~IsIndented(x), NEW b, b = body \o <<x>>,
         NEW blk, blk = [kind |-> x.t, name |-> x.a, premises |-> {}]
  PROVE  BlocksOf(b) = Append(BlocksOf(body), blk)
<1>1. PICK one : one = <<x>>
  OBVIOUS
<1>2. IsSeq(one) /\ Len(one) = 1 /\ one[1] = x
  BY <1>1, OneLineSeq
<1>3. JoinedAs(body, one, b)
  BY <1>1, <1>2, JoinedIs
<1> QED
  BY <1>2, <1>3, OneMoreBlock

\* With a line of its text.
LEMMA AppendTwo ==
  ASSUME NEW body, IsSeq(body), NEW x, ~IsIndented(x), NEW y, IsIndented(y), y.t # "child",
         NEW b, b = body \o <<x, y>>,
         NEW blk, blk = [kind |-> x.t, name |-> x.a, premises |-> {}]
  PROVE  BlocksOf(b) = Append(BlocksOf(body), blk)
<1>1. PICK one, two, c : one = <<x>> /\ two = <<x, y>> /\ c = body \o <<x>>
  OBVIOUS
<1>2. IsSeq(one) /\ Len(one) = 1 /\ one[1] = x /\ IsSeq(two) /\ Len(two) = 2 /\ two[1] = x /\ two[2] = y
  BY <1>1, OneLineSeq, TwoLineSeq
<1>3. JoinedAs(body, one, c) /\ JoinedAs(body, two, b)
  BY <1>1, <1>2, JoinedIs
<1>4. PICK L, z, q : L = Len(body) /\ z = L + 1 /\ q = L + 2
  OBVIOUS
<1>5. /\ L \in Nat /\ Len(c) = z /\ Len(b) = q
      /\ \A j \in 1..L : b[j] = body[j] /\ c[j] = body[j]
  BY <1>2, <1>3, <1>4 DEF JoinedAs
<1>6. c[z] = x /\ b[z] = x /\ b[q] = y
  BY <1>2, <1>3, <1>4 DEF JoinedAs
<1>7. ASSUME NEW j \in 1..Len(c) PROVE b[IF j < q THEN j ELSE j + 1] = c[j]
  <2>1. j < q /\ (j \in 1..L \/ j = z)
    BY <1>4, <1>5, <1>7
  <2> QED
    BY <1>5, <1>6, <2>1
<1>8. Put(c, b, q)
  <2>1. Len(c) \in Nat /\ Len(b) = Len(c) + 1 /\ q \in 1..Len(c) + 1
    BY <1>4, <1>5
  <2> QED
    BY <1>6, <1>7, <2>1 DEF Put
<1>9. Last(b, q) /\ b[q].t # "child"
  BY <1>5, <1>6 DEF Last
<1>10. BlocksOf(b) = BlocksOf(c)
  BY <1>8, <1>9, PutQuiet
<1> QED
  BY <1>1, <1>10, AppendBlock

LEMMA FirstLeast ==
  ASSUME NEW S, S \subseteq Nat, S # {}
  PROVE  First(S) \in S /\ \A k \in S : First(S) <= k
<1>1. \E m \in S : \A k \in S : m <= k
  BY LeastIn
<1>2. First(S) = CHOOSE m \in S : \A k \in S : m <= k
  BY DEF First, Min
<1> QED
  BY <1>1, <1>2

\* The first conjecture c of a record, the first When line of f behind it, and the
\* first line of p below that.
LEMMA ConIs ==
  ASSUME NEW body, Len(body) \in Nat, NEW c, NEW con, con = Con(body, c), con # 0
  PROVE  /\ con \in 1..Len(body) /\ body[con] = Line("conj", c)
         /\ \A i \in 1..con - 1 : body[i] # Line("conj", c)
<1>1. PICK S : S = Is(body, "conj", c)
  OBVIOUS
<1>2. con = First(S) /\ S # {} /\ S \subseteq Nat
  BY <1>1 DEF Con, First, Is
<1>3. con \in S /\ \A k \in S : con <= k
  BY <1>2, FirstLeast
<1>4. \A i : i \in S <=> i \in 1..Len(body) /\ body[i] = Line("conj", c)
  BY <1>1 DEF Is
<1>5. con \in 1..Len(body) /\ body[con] = Line("conj", c)
  BY <1>3, <1>4
<1>6. ASSUME NEW i \in 1..con - 1, body[i] = Line("conj", c) PROVE FALSE
  <2>1. i \in 1..Len(body) /\ i < con
    BY <1>5, <1>6
  <2>2. i \in S
    BY <1>4, <1>6, <2>1
  <2> QED
    BY <1>3, <1>5, <2>1, <2>2
<1> QED
  BY <1>5, <1>6

LEMMA WhenIs ==
  ASSUME NEW body, Len(body) \in Nat, NEW c, NEW f, NEW w, w = WhenOf(body, c, f), w # 0
  PROVE  w \in 1..Len(body) /\ body[w] = Line("when", f) /\ w > Con(body, c)
<1>1. PICK S : S = {i \in Is(body, "when", f) : i > Con(body, c)}
  OBVIOUS
<1>2. w = First(S) /\ S # {} /\ S \subseteq Nat
  BY <1>1 DEF WhenOf, First, Is
<1>3. w \in S
  BY <1>2, FirstLeast
<1> QED
  BY <1>1, <1>3 DEF Is

LEMMA ChildIs ==
  ASSUME NEW body, Len(body) \in Nat, NEW c, NEW f, NEW p, NEW k, k = Child(body, c, f, p), k # 0,
         NEW w, w = WhenOf(body, c, f)
  PROVE  /\ w # 0 /\ k \in 1..Len(body) /\ body[k] = Line("child", p)
         /\ k \in w + 1..BlockEnd(body, w) - 1
<1>1. PICK S : S = {i \in Is(body, "child", p) : i \in w + 1..BlockEnd(body, w) - 1}
  OBVIOUS
<1>2. w # 0 /\ k = First(S)
  BY <1>1 DEF Child
<1>3. S # {} /\ S \subseteq Nat
  BY <1>1, <1>2 DEF First, Is
<1>4. k \in S
  BY <1>2, <1>3, FirstLeast
<1> QED
  BY <1>1, <1>2, <1>4 DEF Is

\* A line is put in where the block of line i ends.
LEMMA EndPut ==
  ASSUME NEW body, IsSeq(body), NEW i \in 1..Len(body), NEW d, IsSeq(d), Len(d) = Len(body),
         \A j \in i + 1..Len(body) : d[j] = body[j], NEW x, IsIndented(x),
         NEW k, k = BlockEnd(body, i), NEW b, b = Insert(d, k, <<x>>)
  PROVE  Put(d, b, k) /\ b[k] = x /\ Last(b, k) /\ k > i /\ k \in 1..Len(body) + 1 /\ IsSeq(b)
<1>1. Len(body) \in Nat
  BY DEF IsSeq
<1>2. /\ k \in i + 1..Len(body) + 1
      /\ k = Len(body) + 1 \/ ~IsIndented(body[k])
  <2>1. i \in 0..Len(body)
    BY <1>1
  <2>2. PICK z : z = BlockEnd(body, i)
    OBVIOUS
  <2>3. z \in i + 1..Len(body) + 1 /\ (z = Len(body) + 1 \/ ~IsIndented(body[z]))
    BY <1>1, <2>1, <2>2, EndIs
  <2> QED
    BY <2>2, <2>3
<1>3. k \in 1..Len(d) + 1
  BY <1>1, <1>2
<1>4. Put(d, b, k) /\ b[k] = x /\ IsSeq(b)
  BY <1>3, InsertPuts
<1>5. Len(b) = Len(d) + 1 /\ \A j \in 1..Len(d) : b[IF j < k THEN j ELSE j + 1] = d[j]
  BY <1>4 DEF Put
<1>6. Last(b, k)
  <2>1. CASE k = Len(body) + 1
    BY <1>5, <2>1 DEF Last
  <2>2. CASE k # Len(body) + 1
    <3>1. k \in 1..Len(d) /\ k \in i + 1..Len(body) /\ ~(k < k)
      BY <1>1, <1>2, <2>2
    <3>2. b[k + 1] = d[k] /\ d[k] = body[k]
      BY <1>5, <3>1
    <3> QED
      BY <1>2, <2>2, <3>2 DEF Last
  <2> QED
    BY <2>1, <2>2
<1> QED
  BY <1>1, <1>2, <1>4, <1>6

\* The lines that are put in.
LEMMA PutLines ==
  /\ \A a : IsIndented(Line("when", a)) /\ IsIndented(Line("child", a)) /\ IsIndented(Line("proof", a)) /\ IsIndented(Line("dsc", a))
  /\ \A a : Line("proof", a).t # "child" /\ Line("dsc", a).t # "child" /\ Line("when", a).t # "child" /\ Line("child", a).t = "child"
  BY DEF Line, IsIndented

-----------------------------------------------------------------------------
(* What -a and -r do to the blocks. *)

\* The new line where there is a When line, and the two new lines where there is none.
LEMMA AddedPuts ==
  ASSUME NEW body, BodyOK(body), NEW c, Provable(body, c), NEW f, NEW p,
         NEW con, con = Con(body, c), NEW w, w = WhenOf(body, c, f), NEW b, b = PremiseAdded(body, c, f, p)
  PROVE  /\ con \in 1..Len(body) /\ con \in BlockStarts(body)
         /\ \/ /\ w # 0 /\ w \in 1..Len(body) /\ body[w] = Line("when", f) /\ w > con
               /\ Put(body, b, BlockEnd(body, w)) /\ b[BlockEnd(body, w)] = Line("child", p)
            \/ \E d, k : /\ w = 0 /\ k = BlockEnd(body, con)
                         /\ Put(body, d, k) /\ d[k] = Line("when", f) /\ Last(d, k)
                         /\ Put(d, b, k + 1) /\ b[k + 1] = Line("child", p)
<1>1. Len(body) \in Nat /\ IsSeq(body)
  BY BodyLength DEF BodyOK
<1>2. PICK x, y : x = Line("when", f) /\ y = Line("child", p)
  OBVIOUS
<1>3. IsIndented(x) /\ IsIndented(y)
  BY <1>2, PutLines
<1>4. con \in 1..Len(body) /\ body[con] = Line("conj", c)
  BY <1>1, ConIs DEF Provable
<1>5. con \in BlockStarts(body)
  BY <1>4, LineIs DEF BlockStarts
<1>6. CASE w # 0
  <2>1. w \in 1..Len(body) /\ body[w] = Line("when", f) /\ w > con
    BY <1>1, <1>6, WhenIs
  <2>2. PICK k : k = BlockEnd(body, w)
    OBVIOUS
  <2>3. b = Insert(body, k, <<y>>)
    BY <1>2, <1>6, <2>2 DEF PremiseAdded
  <2>4. Put(body, b, k) /\ b[k] = y
    BY <1>1, <1>3, <2>1, <2>2, <2>3, EndPut
  <2> QED
    BY <1>2, <1>4, <1>5, <1>6, <2>1, <2>2, <2>4
<1>7. CASE w = 0
  <2>1. PICK k : k = BlockEnd(body, con)
    OBVIOUS
  <2>2. PICK d : d = Insert(body, k, <<x>>)
    OBVIOUS
  <2>3. b = Insert(body, k, <<x, y>>)
    BY <1>2, <1>7, <2>1 DEF PremiseAdded
  <2>4. Put(body, d, k) /\ d[k] = x /\ Last(d, k) /\ k \in 1..Len(body) + 1
    BY <1>1, <1>3, <1>4, <2>1, <2>2, EndPut
  <2>5. Put(d, b, k + 1) /\ b[k + 1] = y
    BY <1>1, <1>3, <2>2, <2>3, <2>4, InsertTwice
  <2> QED
    BY <1>2, <1>4, <1>5, <1>7, <2>1, <2>4, <2>5
<1> QED
  BY <1>6, <1>7

LEMMA AddedTitles ==
  ASSUME NEW body, BodyOK(body), NEW c, Amendable(body, c), NEW f, NEW p
  PROVE  Book!Titles(BlocksOf(PremiseAdded(body, c, f, p))) = Book!Titles(BlocksOf(body))
<1>1. PICK con, w, b : con = Con(body, c) /\ w = WhenOf(body, c, f) /\ b = PremiseAdded(body, c, f, p)
  OBVIOUS
<1>2. Provable(body, c)
  BY DEF Amendable
<1>3. (\E k : Put(body, b, k)) \/ (\E d, k : Put(body, d, k) /\ Put(d, b, k + 1))
  BY <1>1, <1>2, AddedPuts
<1> QED
  BY <1>1, <1>3, PutTitles

\* The line that is taken out, and the When line that then has none.
LEMMA RemovedPuts ==
  ASSUME NEW body, BodyOK(body), NEW c, Provable(body, c), NEW f, NEW p, Child(body, c, f, p) # 0,
         NEW con, con = Con(body, c), NEW w, w = WhenOf(body, c, f), NEW k, k = Child(body, c, f, p),
         NEW b, b = PremiseRemoved(body, c, f, p)
  PROVE  /\ con \in 1..Len(body) /\ con \in BlockStarts(body)
         /\ w # 0 /\ w \in 1..Len(body) /\ body[w] = Line("when", f) /\ w > con
         /\ k \in 1..Len(body) /\ body[k] = Line("child", p) /\ k \in w + 1..BlockEnd(body, w) - 1
         /\ \E rest : /\ Put(rest, body, k) /\ BlocksOf(rest) = BlocksOf(b)
<1>1. Len(body) \in Nat /\ IsSeq(body)
  BY BodyLength DEF BodyOK
<1>2. PICK rest : rest = Without(body, k)
  OBVIOUS
<1>3. con \in 1..Len(body) /\ body[con] = Line("conj", c)
  BY <1>1, ConIs DEF Provable
<1>4. con \in BlockStarts(body)
  BY <1>3, LineIs DEF BlockStarts
<1>5. w # 0 /\ k \in 1..Len(body) /\ body[k] = Line("child", p) /\ k \in w + 1..BlockEnd(body, w) - 1
  BY <1>1, ChildIs
<1>6. w \in 1..Len(body) /\ body[w] = Line("when", f) /\ w > con
  BY <1>1, <1>5, WhenIs
<1>7. w < k
  BY <1>1, <1>5, <1>6
<1>8. IsIndented(body[k]) /\ IsIndented(body[w]) /\ body[w].t # "child"
  BY <1>5, <1>6, PutLines
<1>9. Put(rest, body, k) /\ IsSeq(rest)
  BY <1>1, <1>2, <1>5, <1>8, WithoutPuts
<1>10. Len(rest) \in Nat /\ Len(body) = Len(rest) + 1 /\ \A j \in 1..Len(rest) : body[IF j < k THEN j ELSE j + 1] = rest[j]
  BY <1>9 DEF Put
<1>11. BlocksOf(rest) = BlocksOf(b)
  <2>1. CASE BlockEnd(body, w) > w + 2
    BY <1>2, <2>1 DEF PremiseRemoved
  <2>2. CASE ~(BlockEnd(body, w) > w + 2)
    <3>1. PICK left : left = Without(rest, w)
      OBVIOUS
    <3>2. w \in 1..Len(rest) /\ rest[w] = body[w]
      <4>1. w \in 1..Len(rest)
        BY <1>1, <1>5, <1>6, <1>7, <1>10
      <4> QED
        BY <1>7, <1>10, <4>1
    <3>3. Put(left, rest, w)
      BY <1>8, <1>9, <3>1, <3>2, WithoutPuts
    <3>4. Last(rest, w)
      <4>1. PICK z : z = BlockEnd(body, w)
        OBVIOUS
      <4>2. z \in w + 1..Len(body) + 1 /\ (z = Len(body) + 1 \/ ~IsIndented(body[z]))
        BY <1>1, <1>6, <4>1, EndIs
      <4>3. k = w + 1 /\ z = w + 2
        BY <1>1, <1>5, <1>6, <2>2, <4>1, <4>2
      <4>4. CASE z = Len(body) + 1
        BY <1>1, <1>6, <1>10, <4>3, <4>4 DEF Last
      <4>5. CASE z # Len(body) + 1
        <5>1. k \in 1..Len(rest) /\ ~(k < k) /\ k + 1 = z
          BY <1>1, <1>5, <1>6, <1>10, <4>2, <4>3, <4>5
        <5>2. body[k + 1] = rest[k]
          BY <1>10, <5>1
        <5>3. ~IsIndented(rest[k])
          BY <4>2, <4>5, <5>1, <5>2
        <5> QED
          BY <4>3, <5>3 DEF Last
      <4> QED
        BY <4>4, <4>5
    <3>5. BlocksOf(rest) = BlocksOf(left)
      BY <1>8, <3>2, <3>3, <3>4, PutQuiet
    <3>6. b = left
      BY <1>2, <2>2, <3>1 DEF PremiseRemoved
    <3> QED
      BY <3>5, <3>6
  <2> QED
    BY <2>1, <2>2
<1> QED
  BY <1>3, <1>4, <1>5, <1>6, <1>9, <1>11

LEMMA RemovedTitles ==
  ASSUME NEW body, BodyOK(body), NEW c, Amendable(body, c), NEW f, NEW p, Child(body, c, f, p) # 0
  PROVE  Book!Titles(BlocksOf(PremiseRemoved(body, c, f, p))) = Book!Titles(BlocksOf(body))
<1>1. PICK con, w, k, b : /\ con = Con(body, c) /\ w = WhenOf(body, c, f) /\ k = Child(body, c, f, p)
                          /\ b = PremiseRemoved(body, c, f, p)
  OBVIOUS
<1>2. Provable(body, c)
  BY DEF Amendable
<1>3. PICK rest : Put(rest, body, k) /\ BlocksOf(rest) = BlocksOf(b)
  BY <1>1, <1>2, RemovedPuts
<1> QED
  BY <1>1, <1>3, PutTitles

-----------------------------------------------------------------------------
(* The premises that are named. *)

\* The When line of f is the last of the conjecture, or there is none.
LEMMA WhenUntangled ==
  ASSUME NEW body, Len(body) \in Nat, NEW c, NEW f, Untangled(body, c, f), Provable(body, c),
         NEW con, con = Con(body, c), NEW w, w = WhenOf(body, c, f), NEW z, z = BlockEnd(body, con)
  PROVE  w = 0 \/ (/\ w \in con + 1..z - 1 /\ BlockEnd(body, w) = z
                   /\ \A j \in w + 1..z - 1 : body[j].t = "child")
<1>1. con \in 1..Len(body)
  BY ConIs DEF Provable
<1>2. PICK W, own : /\ W = {i \in Is(body, "when", f) : i > con}
                    /\ own = Is(body, "when", f) \cap (con + 1..z - 1)
  OBVIOUS
<1>3. w = First(W) /\ W \subseteq Nat /\ own \subseteq W
  BY <1>1, <1>2 DEF WhenOf, Is
<1>4. CASE \A i \in Is(body, "when", f) : i < con
  <2>1. W = {}
    BY <1>1, <1>2, <1>4 DEF Is
  <2> QED
    BY <1>3, <2>1 DEF First
<1>5. CASE \E i \in own : own = {i} /\ \A j \in i + 1..z - 1 : body[j].t = "child"
  <2>1. PICK i \in own : own = {i} /\ \A j \in i + 1..z - 1 : body[j].t = "child"
    BY <1>5
  <2>2. w \in W /\ w <= i
    BY <1>3, <2>1, FirstLeast
  <2>3. z \in con + 1..Len(body) + 1 /\ (z = Len(body) + 1 \/ ~IsIndented(body[z]))
        /\ \A j \in con + 1..z - 1 : j \in 1..Len(body) /\ IsIndented(body[j])
    BY <1>1, EndIs
  <2>4. i \in con + 1..z - 1 /\ i \in Nat
    BY <1>1, <1>2, <2>1, <2>3
  <2>5. w \in own
    BY <1>1, <1>2, <1>3, <2>2, <2>3, <2>4
  <2>6. w = i
    BY <2>1, <2>5
  <2>7. PICK y : y = BlockEnd(body, w)
    OBVIOUS
  <2>8. y \in w + 1..Len(body) + 1 /\ (y = Len(body) + 1 \/ ~IsIndented(body[y]))
        /\ \A j \in w + 1..y - 1 : j \in 1..Len(body) /\ IsIndented(body[j])
    <3>1. w \in 0..Len(body)
      BY <1>1, <2>3, <2>4, <2>6
    <3> QED
      BY <2>7, <3>1, EndIs
  <2>9. ~(y < z)
    <3> SUFFICES ASSUME y < z PROVE FALSE
      OBVIOUS
    <3>1. y \in con + 1..z - 1 /\ y # Len(body) + 1
      BY <1>1, <2>3, <2>4, <2>6, <2>8
    <3> QED
      BY <2>3, <2>8, <3>1
  <2>10. ~(z < y)
    <3> SUFFICES ASSUME z < y PROVE FALSE
      OBVIOUS
    <3>1. z \in w + 1..y - 1 /\ z # Len(body) + 1
      BY <1>1, <2>3, <2>4, <2>6, <2>8
    <3> QED
      BY <2>3, <2>8, <3>1
  <2>11. y = z
    BY <1>1, <2>3, <2>4, <2>6, <2>8, <2>9, <2>10
  <2> QED
    BY <2>1, <2>4, <2>6, <2>7, <2>11
<1> QED
  BY <1>2, <1>4, <1>5 DEF Untangled, LinesBelow

LEMMA AddedAsNamed ==
  ASSUME NEW body, BodyOK(body), NEW c, Amendable(body, c), NEW f, NEW p, Untangled(body, c, f)
  PROVE  BlocksOf(PremiseAdded(body, c, f, p)) =
           WithPremise(BlocksOf(body), BlockNumber(body, Con(body, c)), <<f, p>>)
<1>1. Len(body) \in Nat /\ Provable(body, c)
  BY BodyLength DEF Amendable
<1>2. PICK con, w, z, b : /\ con = Con(body, c) /\ w = WhenOf(body, c, f) /\ z = BlockEnd(body, con)
                          /\ b = PremiseAdded(body, c, f, p)
  OBVIOUS
<1>3. /\ con \in 1..Len(body) /\ con \in BlockStarts(body)
      /\ \/ /\ w # 0 /\ w \in 1..Len(body) /\ body[w] = Line("when", f) /\ w > con
            /\ Put(body, b, BlockEnd(body, w)) /\ b[BlockEnd(body, w)] = Line("child", p)
         \/ \E d, k : /\ w = 0 /\ k = BlockEnd(body, con)
                      /\ Put(body, d, k) /\ d[k] = Line("when", f) /\ Last(d, k)
                      /\ Put(d, b, k + 1) /\ b[k + 1] = Line("child", p)
  BY <1>1, <1>2, AddedPuts
<1>4. /\ z \in con + 1..Len(body) + 1
      /\ \A j \in con + 1..z - 1 : j \in 1..Len(body) /\ IsIndented(body[j])
  <2>1. con \in 0..Len(body)
    BY <1>3
  <2> QED
    BY <1>1, <1>2, <2>1, EndIs
<1>5. CASE w # 0
  <2>1. /\ w \in con + 1..z - 1 /\ BlockEnd(body, w) = z
        /\ \A j \in w + 1..z - 1 : body[j].t = "child"
    BY <1>1, <1>2, <1>5, WhenUntangled
  <2>2. /\ body[w] = Line("when", f) /\ Put(body, b, z) /\ b[z] = Line("child", p)
    BY <1>3, <1>5, <2>1
  <2>3. Len(b) = Len(body) + 1 /\ IsIndented(b[z]) /\ \A j \in 1..Len(body) : j < z => b[j] = body[j]
    BY <2>2 DEF Put
  <2>4. Shift(z, con) = con /\ b[w] = body[w] /\ w \in 1..Len(b) /\ z \in 1..Len(b)
    BY <1>1, <1>3, <1>4, <2>1, <2>3 DEF Shift
  <2>5. b[w].t = "when" /\ b[w].a = f /\ b[z].t = "child" /\ b[z].a = p
    BY <2>2, <2>4, LineIs
  <2>6. \A j \in con + 1..z : IsIndented(b[j])
    <3> SUFFICES ASSUME NEW j \in con + 1..z, j # z PROVE IsIndented(b[j])
      BY <2>3
    <3>1. j \in con + 1..z - 1 /\ j < z
      BY <1>1, <1>3, <1>4
    <3> QED
      BY <1>4, <2>3, <3>1
  <2>7. \A j \in w + 1..z : b[j].t = "child"
    <3> SUFFICES ASSUME NEW j \in w + 1..z, j # z PROVE b[j].t = "child"
      BY <2>5
    <3>1. j \in w + 1..z - 1 /\ j < z /\ j \in con + 1..z - 1
      BY <1>1, <1>3, <1>4, <2>1
    <3> QED
      BY <1>4, <2>1, <2>3, <3>1
  <2>8. Premise(b, Shift(z, con), w, z)
    <3>1. z \in con + 1..Len(b) /\ con < w /\ w < z
      BY <1>1, <1>3, <1>4, <2>1, <2>3
    <3> QED
      BY <2>4, <2>5, <2>6, <2>7, <3>1 DEF Premise, Under
  <2> QED
    BY <1>2, <1>3, <2>2, <2>4, <2>5, <2>8, PutChild
<1>6. CASE w = 0
  <2>1. PICK d : /\ Put(body, d, z) /\ d[z] = Line("when", f) /\ Last(d, z)
                 /\ Put(d, b, z + 1) /\ b[z + 1] = Line("child", p)
    BY <1>2, <1>3, <1>6
  <2>2. BlocksOf(d) = BlocksOf(body)
    BY <2>1, PutLines, PutQuiet
  <2>3. Len(d) = Len(body) + 1 /\ IsIndented(d[z]) /\ \A j \in 1..Len(body) : j < z => d[j] = body[j]
    BY <2>1 DEF Put
  <2>4. Len(b) = Len(d) + 1 /\ IsIndented(b[z + 1]) /\ \A j \in 1..Len(d) : j < z + 1 => b[j] = d[j]
    BY <2>1 DEF Put
  <2>5. Shift(z, con) = con /\ Shift(z + 1, con) = con /\ z \in 1..Len(d) /\ z \in 1..Len(b) /\ z + 1 \in 1..Len(b)
    BY <1>1, <1>3, <1>4, <2>3, <2>4 DEF Shift
  <2>6. b[z] = d[z]
    BY <2>4, <2>5
  <2>7. b[z].t = "when" /\ b[z].a = f /\ b[z + 1].t = "child" /\ b[z + 1].a = p
    BY <2>1, <2>6, LineIs
  <2>8. \A j \in con + 1..z + 1 : IsIndented(b[j])
    <3> SUFFICES ASSUME NEW j \in con + 1..z + 1 PROVE IsIndented(b[j])
      OBVIOUS
    <3>1. j = z + 1 \/ j = z \/ (j \in con + 1..z - 1 /\ j < z)
      BY <1>1, <1>3, <1>4
    <3>2. CASE j \in con + 1..z - 1 /\ j < z
      <4>1. j \in 1..Len(body) /\ j \in 1..Len(d) /\ j < z + 1
        BY <1>1, <1>3, <1>4, <2>3, <3>2
      <4>2. b[j] = d[j] /\ d[j] = body[j]
        BY <2>3, <2>4, <3>2, <4>1
      <4> QED
        BY <1>4, <3>2, <4>2
    <3> QED
      BY <2>3, <2>4, <2>6, <3>1, <3>2
  <2>9. Premise(b, Shift(z + 1, con), z, z + 1)
    <3>1. z + 1 \in con + 1..Len(b) /\ con < z /\ z < z + 1
      BY <1>1, <1>3, <1>4, <2>5
    <3>2. \A j \in z + 1..z + 1 : b[j].t = "child"
      BY <1>3, <1>4, <2>7
    <3> QED
      BY <2>5, <2>7, <2>8, <3>1, <3>2 DEF Premise, Under
  <2>10. con \in BlockStarts(d)
    <3>1. d[con] = body[con] /\ con \in 1..Len(d)
      BY <1>1, <1>3, <1>4, <2>3
    <3> QED
      BY <1>3, <3>1 DEF BlockStarts
  <2>11. BlocksOf(b) = WithPremise(BlocksOf(d), BlockNumber(d, con), <<f, p>>)
    BY <2>1, <2>5, <2>7, <2>9, <2>10, PutChild
  <2>12. BlockNumber(d, con) = BlockNumber(body, con)
    BY <1>3, <2>1, <2>5, PutNumber
  <2> QED
    BY <1>2, <2>2, <2>11, <2>12
<1> QED
  BY <1>5, <1>6

LEMMA RemovedAsNamed ==
  ASSUME NEW body, BodyOK(body), NEW c, Amendable(body, c), NEW f, NEW p, Untangled(body, c, f),
         Child(body, c, f, p) # 0, NEW con, con = Con(body, c), NEW n, n = BlockNumber(body, con),
         NEW left, left = BlocksOf(PremiseRemoved(body, c, f, p))
  PROVE  /\ BlocksOf(body) = WithPremise(left, n, <<f, p>>)
         /\ Is(body, "child", p) \cap LinesBelow(body, con) = {Child(body, c, f, p)}
              => <<f, p>> \notin left[n].premises
<1>1. Len(body) \in Nat /\ Provable(body, c)
  BY BodyLength DEF Amendable
<1>2. PICK w, k, z, b : /\ w = WhenOf(body, c, f) /\ k = Child(body, c, f, p) /\ z = BlockEnd(body, con)
                        /\ b = PremiseRemoved(body, c, f, p)
  OBVIOUS
<1>3. /\ con \in 1..Len(body) /\ con \in BlockStarts(body)
      /\ w # 0 /\ w \in 1..Len(body) /\ body[w] = Line("when", f) /\ w > con
      /\ k \in 1..Len(body) /\ body[k] = Line("child", p) /\ k \in w + 1..BlockEnd(body, w) - 1
      /\ \E rest : Put(rest, body, k) /\ BlocksOf(rest) = BlocksOf(b)
  BY <1>1, <1>2, RemovedPuts
<1>4. PICK rest : Put(rest, body, k) /\ BlocksOf(rest) = left
  BY <1>2, <1>3
<1>5. /\ w \in con + 1..z - 1 /\ BlockEnd(body, w) = z
      /\ \A j \in w + 1..z - 1 : body[j].t = "child"
  BY <1>1, <1>2, <1>3, WhenUntangled
<1>6. \A j : j \in con + 1..z - 1 <=> Under(body, con, j)
  <2>1. con \in 0..Len(body)
    BY <1>3
  <2> QED
    BY <1>1, <1>2, <2>1, UnderIs
<1>7. z \in con + 1..Len(body) + 1
  <2>1. con \in 0..Len(body)
    BY <1>3
  <2> QED
    BY <1>1, <1>2, <2>1, EndIs
<1>8. Len(rest) \in Nat /\ Len(body) = Len(rest) + 1 /\ \A j \in 1..Len(rest) : body[Shift(k, j)] = rest[j]
  BY <1>4 DEF Put, Shift
<1>9. con < k /\ w < k /\ k \in con + 1..z - 1 /\ Shift(k, con) = con /\ con \in 1..Len(rest)
  BY <1>1, <1>3, <1>5, <1>7, <1>8 DEF Shift
<1>10. con \in BlockStarts(rest)
  BY <1>3, <1>8, <1>9 DEF BlockStarts
<1>11. body[w].t = "when" /\ body[w].a = f /\ body[k].t = "child" /\ body[k].a = p
  BY <1>3, LineIs
<1>12. Premise(body, Shift(k, con), w, k)
  <2>1. \A j \in w + 1..k : j \in w + 1..z - 1
    BY <1>1, <1>3, <1>7, <1>9
  <2> QED
    BY <1>3, <1>5, <1>6, <1>9, <1>11, <2>1 DEF Premise
<1>13. BlocksOf(body) = WithPremise(left, BlockNumber(rest, con), <<f, p>>)
  BY <1>3, <1>4, <1>10, <1>11, <1>12, PutChild
<1>14. BlockNumber(rest, con) = n
  BY <1>4, <1>9, <1>10, PutNumber
<1>15. ASSUME Is(body, "child", p) \cap LinesBelow(body, con) = {k}, <<f, p>> \in left[n].premises PROVE FALSE
  <2>1. PICK m, e : Lists(e, m, BlockStarts(rest))
    BY <1>8, BlocksHaveList
  <2>2. PICK i \in 1..m : e[i] = con
    BY <1>10, <2>1 DEF Lists
  <2>3. BlockStarts(rest) \in SUBSET Nat
    BY DEF BlockStarts
  <2>4. Cardinality({j \in BlockStarts(rest) : j <= e[i]}) = i
    BY <2>1, <2>3, ListedRank
  <2>5. i = n
    BY <1>14, <2>2, <2>4 DEF BlockNumber
  <2>6. left[n] = BlockAt(rest, con)
    BY <1>4, <2>1, <2>2, <2>5, BlocksAre
  <2>7. <<f, p>> \in PremisesAt(rest, con)
    BY <1>15, <2>6 DEF BlockAt
  <2>8. PICK v, j \in 1..Len(rest) : Premise(rest, con, v, j) /\ <<f, p>> = <<rest[v].a, rest[j].a>>
    <3>1. con \in 0..Len(rest)
      BY <1>9
    <3> QED
      BY <1>8, <2>7, <3>1, PremisesAre
  <2>9. Under(rest, con, j) /\ v < j /\ rest[j].t = "child" /\ rest[j].a = p
    <3>1. j \in v + 1..j
      BY <1>8, <2>8 DEF Premise
    <3> QED
      BY <2>8, <3>1 DEF Premise
  <2>10. Under(body, Shift(k, con), Shift(k, j))
    BY <1>4, <1>9, <2>8, <2>9, PutUnder
  <2>11. Shift(k, j) \in con + 1..z - 1
    BY <1>6, <1>9, <2>10
  <2>12. Shift(k, j) \in 1..Len(body) /\ Shift(k, j) # k /\ body[Shift(k, j)] = rest[j]
    BY <1>4, <2>8, Shifts DEF Placed
  <2>13. body[Shift(k, j)] = Line("child", p)
    <3>1. IsLine(body[Shift(k, j)])
      BY <2>12 DEF BodyOK, AllLines
    <3> QED
      BY <2>9, <2>12, <3>1, LineIs
  <2>14. Shift(k, j) \in Is(body, "child", p) \cap LinesBelow(body, con)
    BY <1>2, <2>11, <2>12, <2>13 DEF Is, LinesBelow
  <2> QED
    BY <1>15, <2>12, <2>14
<1> QED
  BY <1>2, <1>13, <1>14, <1>15

LEMMA BodiesNamePremises == NoteInv /\ BodiesInv => PremisesNamed
<1> SUFFICES ASSUME NoteInv, BodiesInv, NEW note \in AmendableNotes, NEW f \in Premises,
                    Untangled(note[1], note[2], f), NEW p \in Props
             PROVE  LET body == note[1]  c == note[2]  con == Con(body, c)  n == BlockNumber(body, con) IN
                    /\ BlocksOf(PremiseAdded(body, c, f, p)) = WithPremise(BlocksOf(body), n, <<f, p>>)
                    /\ Child(body, c, f, p) # 0 =>
                         LET left == BlocksOf(PremiseRemoved(body, c, f, p)) IN
                         /\ BlocksOf(body) = WithPremise(left, n, <<f, p>>)
                         /\ Is(body, "child", p) \cap LinesBelow(body, con) = {Child(body, c, f, p)}
                              => <<f, p>> \notin left[n].premises
  BY DEF PremisesNamed
<1>1. PICK found : found = IF noteStep = "idle" THEN RecordsFound(folder) ELSE [h \in {} |-> <<>>]
  OBVIOUS
<1>2. AmendableNotes = UNION {{<<found[h], c>> : c \in {d \in Props : Amendable(found[h], d)}} : h \in DOMAIN found}
  BY <1>1 DEF AmendableNotes
<1>3. PICK h \in DOMAIN found, c \in Props : Amendable(found[h], c) /\ note = <<found[h], c>>
  BY <1>2
<1>4. BodyOK(found[h])
  <2>1. CASE noteStep = "idle"
    BY <1>1, <1>3, <2>1, FoundBodies
  <2>2. CASE noteStep # "idle"
    <3>1. found = [g \in {} |-> <<>>]
      BY <1>1, <2>2
    <3>2. DOMAIN found = {}
      BY <3>1
    <3> QED
      BY <1>3, <3>2
  <2> QED
    BY <2>1, <2>2
<1>5. PICK body : body = found[h]
  OBVIOUS
<1>6. note[1] = body /\ note[2] = c /\ BodyOK(body) /\ Amendable(body, c) /\ Untangled(body, c, f)
  BY <1>3, <1>4, <1>5
<1>7. BlocksOf(PremiseAdded(body, c, f, p)) =
        WithPremise(BlocksOf(body), BlockNumber(body, Con(body, c)), <<f, p>>)
  BY <1>6, AddedAsNamed
<1>8. Child(body, c, f, p) # 0 =>
        /\ BlocksOf(body) = WithPremise(BlocksOf(PremiseRemoved(body, c, f, p)), BlockNumber(body, Con(body, c)), <<f, p>>)
        /\ Is(body, "child", p) \cap LinesBelow(body, Con(body, c)) = {Child(body, c, f, p)}
             => <<f, p>> \notin BlocksOf(PremiseRemoved(body, c, f, p))[BlockNumber(body, Con(body, c))].premises
  BY <1>6, RemovedAsNamed
<1> QED
  BY <1>6, <1>7, <1>8

(***************************************************************************)
(* For all headings, propositions and histories of commands, failed writes *)
(* and restarts: in every note that is found, -a and -r (parse, note -a and*)
(* -r) change the premise that is named, of the conjecture that is named,  *)
(* and no other, where its When line is the last of its block or there is  *)
(* none from there on.                                                     *)
(***************************************************************************)
THEOREM PremisesAreNamed == NotesSpec => []PremisesNamed
  BY NoteInvHolds, BodiesInvHolds, BodiesNamePremises, PTL

-----------------------------------------------------------------------------
(* What -p does to the blocks. *)

\* A conjecture line becomes a theorem line.
Renamed(body, con, c, d) ==
  /\ Len(body) \in Nat /\ con \in 1..Len(body) /\ IsSeq(d) /\ Len(d) = Len(body)
  /\ body[con] = Line("conj", c) /\ d[con] = Line("thm", c)
  /\ \A i \in 1..Len(body) : i # con => d[i] = body[i]

LEMMA RenamedIs ==
  ASSUME NEW body, IsSeq(body), NEW c, NEW con \in 1..Len(body), body[con] = Line("conj", c),
         NEW d, d = [body EXCEPT ![con] = Line("thm", c)]
  PROVE  Renamed(body, con, c, d)
<1>1. PICK x : x = Line("thm", c)
  OBVIOUS
<1>2. PICK one : one = <<x>>
  OBVIOUS
<1>3. IsSeq(one) /\ Len(one) = 1 /\ one[1] = x
  BY <1>2, OneLineSeq
<1>4. PICK S : body \in Seq(S) /\ one \in Seq(S)
  BY <1>3, BothSeq
<1>5. x \in S
  <2>1. \A i \in 1..Len(one) : one[i] \in S
    BY <1>4, ElementOfSeq
  <2> QED
    BY <1>3, <2>1
<1>6. PICK r : r = [body EXCEPT ![con] = x]
  OBVIOUS
<1>7. r \in Seq(S) /\ Len(r) = Len(body) /\ r[con] = x /\ (\A i \in 1..Len(body) : i # con => r[i] = body[i])
  BY <1>4, <1>5, <1>6
<1>8. d = r
  BY <1>1, <1>6
<1>9. Len(body) \in Nat
  BY <1>4
<1>10. IsSeq(r)
  BY <1>7 DEF IsSeq
<1> QED
  BY <1>1, <1>7, <1>8, <1>9, <1>10 DEF Renamed

\* It is neither a When line nor one below it.
LEMMA RenamedPremise ==
  ASSUME NEW body, NEW con, NEW c, NEW d, Renamed(body, con, c, d),
         NEW i \in 1..Len(body), NEW w \in 1..Len(body), NEW k \in 1..Len(body)
  PROVE  Premise(d, i, w, k) <=> Premise(body, i, w, k)
<1>1. /\ Len(body) \in Nat /\ Len(d) = Len(body)
      /\ body[con] = Line("conj", c) /\ d[con] = Line("thm", c)
      /\ \A j \in 1..Len(body) : j # con => d[j] = body[j]
  BY DEF Renamed
<1>2. /\ ~IsIndented(body[con]) /\ ~IsIndented(d[con])
      /\ body[con].t \notin {"when", "child"} /\ d[con].t \notin {"when", "child"}
  BY <1>1 DEF Line, IsIndented
<1>3. \A j \in 1..Len(body) : /\ IsIndented(d[j]) <=> IsIndented(body[j])
                              /\ d[j].t = "when" <=> body[j].t = "when"
                              /\ d[j].t = "child" <=> body[j].t = "child"
  <2> SUFFICES ASSUME NEW j \in 1..Len(body)
               PROVE  /\ IsIndented(d[j]) <=> IsIndented(body[j])
                      /\ d[j].t = "when" <=> body[j].t = "when"
                      /\ d[j].t = "child" <=> body[j].t = "child"
    OBVIOUS
  <2>1. CASE j = con
    BY <1>2, <2>1
  <2>2. CASE j # con
    <3>1. d[j] = body[j]
      BY <1>1, <2>2
    <3> QED
      BY <3>1
  <2> QED
    BY <2>1, <2>2
<1>4. \A j \in i + 1..k : j \in 1..Len(body)
  BY <1>1
<1>5. i < w => \A j \in w + 1..k : j \in 1..Len(body)
  BY <1>1
<1>6. Under(d, i, k) <=> Under(body, i, k)
  BY <1>1, <1>3, <1>4 DEF Under
<1> QED
  BY <1>3, <1>5, <1>6 DEF Premise

LEMMA RenamedPremises ==
  ASSUME NEW body, NEW con, NEW c, NEW d, Renamed(body, con, c, d), NEW i \in 1..Len(body)
  PROVE  PremisesAt(d, i) = PremisesAt(body, i)
<1>1. /\ Len(body) \in Nat /\ Len(d) = Len(body) /\ Len(d) \in Nat
      /\ body[con] = Line("conj", c) /\ d[con] = Line("thm", c)
      /\ \A j \in 1..Len(body) : j # con => d[j] = body[j]
  BY DEF Renamed
<1>2. i \in 0..Len(body) /\ i \in 0..Len(d)
  BY <1>1
<1>3. \A y : y \in PremisesAt(d, i) <=>
         \E w, k \in 1..Len(d) : Premise(d, i, w, k) /\ y = <<d[w].a, d[k].a>>
  BY <1>1, <1>2, PremisesAre
<1>4. \A y : y \in PremisesAt(body, i) <=>
         \E w, k \in 1..Len(body) : Premise(body, i, w, k) /\ y = <<body[w].a, body[k].a>>
  BY <1>1, <1>2, PremisesAre
<1>5. \A j \in 1..Len(body) : d[j].a = body[j].a
  <2> SUFFICES ASSUME NEW j \in 1..Len(body) PROVE d[j].a = body[j].a
    OBVIOUS
  <2>1. CASE j = con
    BY <1>1, <2>1, LineIs
  <2>2. CASE j # con
    <3>1. d[j] = body[j]
      BY <1>1, <2>2
    <3> QED
      BY <3>1
  <2> QED
    BY <2>1, <2>2
<1>6. ASSUME NEW y PROVE y \in PremisesAt(d, i) <=> y \in PremisesAt(body, i)
  <2>1. \A w, k \in 1..Len(body) : Premise(d, i, w, k) <=> Premise(body, i, w, k)
    BY RenamedPremise
  <2> QED
    BY <1>1, <1>3, <1>4, <1>5, <2>1
<1> QED
  BY <1>6

LEMMA RenamedBlocks ==
  ASSUME NEW body, BodyOK(body), NEW con, NEW c, NEW d, Renamed(body, con, c, d),
         \A i \in 1..con - 1 : body[i] # Line("conj", c)
  PROVE  BlocksOf(d) \in Book!Proved(BlocksOf(body), c)
<1>1. /\ Len(body) \in Nat /\ con \in 1..Len(body) /\ Len(d) = Len(body)
      /\ body[con] = Line("conj", c) /\ d[con] = Line("thm", c)
      /\ \A i \in 1..Len(body) : i # con => d[i] = body[i]
  BY DEF Renamed
<1>2. ~IsIndented(body[con]) /\ ~IsIndented(d[con])
  BY <1>1 DEF Line, IsIndented
<1>3. BlockStarts(d) = BlockStarts(body)
  <2>1. ASSUME NEW i PROVE i \in BlockStarts(d) <=> i \in BlockStarts(body)
    <3>1. CASE i = con
      BY <1>1, <1>2, <3>1 DEF BlockStarts
    <3>2. CASE i # con
      BY <1>1, <3>2 DEF BlockStarts
    <3> QED
      BY <3>1, <3>2
  <2> QED
    BY <2>1
<1>4. PICK m, e : Lists(e, m, BlockStarts(body))
  BY <1>1, BlocksHaveList
<1>5. PICK old, new : old = BlocksOf(body) /\ new = BlocksOf(d)
  OBVIOUS
<1>6. /\ m \in Nat /\ Len(old) = m /\ IsSeq(old) /\ \A n \in 1..m : old[n] = BlockAt(body, e[n])
  BY <1>4, <1>5, BlocksAre
<1>7. /\ Len(new) = m /\ IsSeq(new) /\ \A n \in 1..m : new[n] = BlockAt(d, e[n])
  BY <1>3, <1>4, <1>5, BlocksAre
<1>8. /\ e \in [1..m -> BlockStarts(body)]
      /\ \A j, k \in 1..m : j < k => e[j] < e[k]
      /\ \A i \in BlockStarts(body) : \E k \in 1..m : e[k] = i
  BY <1>4 DEF Lists
<1>9. \A n \in 1..m : e[n] \in 1..Len(body)
  BY <1>8 DEF BlockStarts
<1>10. PICK n \in 1..m : e[n] = con
  BY <1>1, <1>2, <1>8 DEF BlockStarts
<1>11. \A j \in 1..m : j # n => e[j] # con
  <2> SUFFICES ASSUME NEW j \in 1..m, j # n PROVE e[j] # con
    OBVIOUS
  <2>1. j < n \/ n < j
    BY <1>6
  <2> QED
    BY <1>8, <1>9, <1>10, <2>1
<1>12. \A j \in 1..m : j # n => new[j] = old[j]
  <2> SUFFICES ASSUME NEW j \in 1..m, j # n PROVE new[j] = old[j]
    OBVIOUS
  <2>1. d[e[j]] = body[e[j]]
    BY <1>1, <1>9, <1>11
  <2>2. PremisesAt(d, e[j]) = PremisesAt(body, e[j])
    BY <1>9, RenamedPremises
  <2> QED
    BY <1>6, <1>7, <2>1, <2>2 DEF BlockAt
<1>13. PICK P : P = PremisesAt(body, con)
  OBVIOUS
<1>14. old[n] = [kind |-> "conj", name |-> c, premises |-> P] /\ new[n] = [kind |-> "thm", name |-> c, premises |-> P]
  <2>1. PremisesAt(d, con) = P
    BY <1>1, <1>13, RenamedPremises
  <2>2. body[con].t = "conj" /\ body[con].a = c /\ d[con].t = "thm" /\ d[con].a = c
    BY <1>1, LineIs
  <2> QED
    BY <1>6, <1>7, <1>10, <1>13, <2>1, <2>2 DEF BlockAt
<1>15. PICK x : x = [old[n] EXCEPT !.kind = "thm"]
  OBVIOUS
<1>16. new[n] = x
  BY <1>14, <1>15
<1>17. new = [old EXCEPT ![n] = x]
  BY <1>6, <1>7, <1>12, <1>16, OneBlock
<1>18. new = [old EXCEPT ![n].kind = "thm"]
  BY <1>15, <1>17
<1>19. Book!Has(old, "conj", c, {n})
  BY <1>14 DEF Book!Has
<1>20. ~Book!Has(old, "conj", c, 1..n - 1)
  <2> SUFFICES ASSUME NEW j \in 1..n - 1, old[j].kind = "conj", old[j].name = c PROVE FALSE
    BY DEF Book!Has
  <2>1. j \in 1..m /\ j < n
    BY <1>6
  <2>2. e[j] < con /\ e[j] \in 1..Len(body)
    BY <1>8, <1>9, <1>10, <2>1
  <2>3. body[e[j]].t = "conj" /\ body[e[j]].a = c
    BY <1>6, <2>1 DEF BlockAt
  <2>4. IsLine(body[e[j]])
    BY <2>2 DEF BodyOK, AllLines
  <2>5. body[e[j]] = Line("conj", c)
    BY <2>3, <2>4, LineIs
  <2>6. e[j] \in 1..con - 1
    BY <1>1, <2>2
  <2> QED
    BY <2>5, <2>6
<1>21. new \in Book!Proved(old, c)
  BY <1>6, <1>18, <1>19, <1>20 DEF Book!Proved
<1> QED
  BY <1>5, <1>21

\* What -p does to the blocks.
LEMMA ProvedBlocks ==
  ASSUME NEW body, BodyOK(body), NEW c, Provable(body, c)
  PROVE  BlocksOf(Proved(body, c)) \in Book!Proved(BlocksOf(body), c)
<1>1. Len(body) \in Nat /\ IsSeq(body)
  BY BodyLength DEF BodyOK
<1>2. PICK con : con = Con(body, c)
  OBVIOUS
<1>3. /\ con \in 1..Len(body) /\ body[con] = Line("conj", c)
      /\ \A i \in 1..con - 1 : body[i] # Line("conj", c)
  BY <1>1, <1>2, ConIs DEF Provable
<1>4. PICK d : d = [body EXCEPT ![con] = Line("thm", c)]
  OBVIOUS
<1>5. Renamed(body, con, c, d)
  BY <1>1, <1>3, <1>4, RenamedIs
<1>6. BlocksOf(d) \in Book!Proved(BlocksOf(body), c)
  BY <1>3, <1>5, RenamedBlocks
<1>7. PICK x, k : x = Line("proof", 0) /\ k = BlockEnd(body, con)
  OBVIOUS
<1>8. PICK b : b = Insert(d, k, <<x>>)
  OBVIOUS
<1>9. IsSeq(d) /\ Len(d) = Len(body) /\ \A j \in con + 1..Len(body) : d[j] = body[j]
  BY <1>1, <1>3, <1>5 DEF Renamed
<1>10. IsIndented(x) /\ x.t # "child"
  BY <1>7, PutLines
<1>11. Put(d, b, k) /\ b[k] = x /\ Last(b, k)
  BY <1>1, <1>3, <1>7, <1>8, <1>9, <1>10, EndPut
<1>12. BlocksOf(b) = BlocksOf(d)
  BY <1>10, <1>11, PutQuiet
<1>13. Proved(body, c) = b
  BY <1>2, <1>4, <1>7, <1>8 DEF Proved
<1> QED
  BY <1>6, <1>12, <1>13

-----------------------------------------------------------------------------
(* What is noted. *)

\* The bodies of the records of g: one, or none.
Noted(recs, g) == {recs[i].body : i \in {j \in 1..Len(recs) : recs[j].head = g}}

LEMMA InNoted == \A recs, g, y : y \in Noted(recs, g) <=> \E i \in 1..Len(recs) : recs[i].head = g /\ y = recs[i].body
  BY DEF Noted

LEMMA RecordsAre ==
  ASSUME NEW path, NEW recs, RecordsOK(path, recs)
  PROVE  /\ Len(recs) \in Nat /\ Ascending(recs) /\ IsSeq(recs)
         /\ \A i \in 1..Len(recs) : recs[i].head \in Headings /\ recs[i].head \in Nat
<1>1. IsSeq(recs) /\ Ascending(recs) /\ \A i \in 1..Len(recs) : recs[i].head \in Headings
  BY DEF RecordsOK
<1>2. Len(recs) \in Nat
  BY <1>1 DEF IsSeq
<1>3. Headings \subseteq Nat
  BY NotesAssumption
<1> QED
  BY <1>1, <1>2, <1>3

\* What "note" finds is what is noted.
LEMMA FoundIs ==
  ASSUME NEW path, NEW recs, RecordsOK(path, recs), NEW g \in Headings
  PROVE  /\ HasRecord(recs, g) <=> Noted(recs, g) # {}
         /\ HasRecord(recs, g) => Noted(recs, g) = {recs[LowerBound(recs, g)].body}
<1>1. /\ Len(recs) \in Nat /\ Ascending(recs)
      /\ \A i \in 1..Len(recs) : recs[i].head \in Nat
  BY RecordsAre
<1>2. g \in Nat
  BY NotesAssumption
<1>3. PICK pos : pos = LowerBound(recs, g)
  OBVIOUS
<1>4. pos \in 1..Len(recs) + 1 /\ \A i \in 1..Len(recs) : recs[i].head < g <=> i < pos
  <2>1. IsBound(recs, g, pos)
    BY <1>1, <1>2, <1>3, LowerBoundIs
  <2> QED
    BY <2>1 DEF IsBound
<1>5. HasRecord(recs, g) <=> pos <= Len(recs) /\ recs[pos].head = g
  BY <1>3 DEF HasRecord
<1>6. ASSUME NEW j \in 1..Len(recs), recs[j].head = g PROVE j = pos
  <2>1. ~(j < pos)
    BY <1>2, <1>4, <1>6
  <2>2. ~(pos < j)
    <3> SUFFICES ASSUME pos < j PROVE FALSE
      OBVIOUS
    <3>1. pos \in 1..Len(recs)
      BY <1>1, <1>4
    <3>2. recs[pos].head < g
      BY <1>1, <1>6, <3>1 DEF Ascending
    <3>3. pos < pos
      BY <1>4, <3>1, <3>2
    <3> QED
      BY <1>4, <3>3
  <2> QED
    BY <1>4, <1>6, <2>1, <2>2
<1>7. ASSUME Noted(recs, g) # {} PROVE HasRecord(recs, g)
  <2>1. PICK j \in 1..Len(recs) : recs[j].head = g
    BY <1>7 DEF Noted
  <2>2. j = pos
    BY <1>6, <2>1
  <2> QED
    BY <1>1, <1>5, <2>1, <2>2
<1>8. ASSUME HasRecord(recs, g) PROVE Noted(recs, g) = {recs[pos].body}
  <2>1. pos \in 1..Len(recs) /\ recs[pos].head = g
    BY <1>1, <1>4, <1>5, <1>8
  <2>2. \A y : y \in Noted(recs, g) <=> y = recs[pos].body
    BY <1>6, <2>1, InNoted
  <2> QED
    BY <2>2
<1> QED
  BY <1>3, <1>7, <1>8

\* A rewriting changes what is noted of its heading, and nothing else.
LEMMA RewrittenNoted ==
  ASSUME NEW h \in Headings, NEW recs, RecordsOK(SourceOf[h], recs), NEW rec, IsRecord(h, rec),
         NEW g \in Headings
  PROVE  Noted(Rewritten(recs, h, rec), g) = IF g = h THEN Noted(rec, h) ELSE Noted(recs, g)
<1>1. /\ Len(recs) \in Nat /\ IsSeq(recs) /\ \A i \in 1..Len(recs) : recs[i].head \in Nat
  BY RecordsAre
<1>2. h \in Nat /\ g \in Nat
  BY NotesAssumption
<1>3. PICK pos, k, a, new : /\ pos = LowerBound(recs, h)
                            /\ k = (IF HasRecord(recs, h) THEN pos + 1 ELSE pos)
                            /\ a = pos - 1 /\ new = Rewritten(recs, h, rec)
  OBVIOUS
<1>4. /\ pos \in 1..Len(recs) + 1 /\ k \in {pos, pos + 1} /\ k <= Len(recs) + 1
      /\ \A i \in 1..Len(recs) : (i < pos => recs[i].head < h) /\ (i >= k => h < recs[i].head)
  <2>1. LET p == LowerBound(recs, h)
            q == IF HasRecord(recs, h) THEN p + 1 ELSE p
        IN  /\ Len(recs) \in Nat /\ p \in 1..Len(recs) + 1 /\ q \in {p, p + 1} /\ q <= Len(recs) + 1
            /\ \A i \in 1..Len(recs) : (i < p => recs[i].head < h) /\ (i >= q => h < recs[i].head)
    BY AroundBound
  <2> QED
    BY <1>3, <2>1
<1>5. k = pos + 1 => recs[pos].head = h
  BY <1>3, <1>4 DEF HasRecord
<1>6. IsSeq(rec) /\ Len(rec) \in {0, 1} /\ (Len(rec) = 1 => rec[1].head = h)
  BY RecordFacts
<1>7. SplicedAs(recs, rec, a, k, new)
  <2>1. new = Splice(recs, pos, k, rec)
    BY <1>3 DEF Rewritten
  <2>2. k \in 1..Len(recs) + 1
    BY <1>1, <1>4
  <2> QED
    BY <1>1, <1>3, <1>4, <1>6, <2>1, <2>2, SpliceParts
<1>8. /\ Len(new) \in Nat /\ Len(new) = a + Len(rec) + (Len(recs) + 1 - k)
      /\ \A i \in 1..Len(new) : i <= a => new[i] = recs[i]
      /\ \A i \in 1..Len(new) : i > a /\ i <= a + Len(rec) => new[i] = rec[i - a]
      /\ \A i \in 1..Len(new) : i > a + Len(rec) => new[i] = recs[k + (i - (a + Len(rec))) - 1]
  BY <1>7 DEF SplicedAs
<1>9. /\ a \in Nat /\ pos \in Nat /\ k \in Nat /\ pos = a + 1
  BY <1>1, <1>3, <1>4
\* Every record is one of the three parts.
<1>10. ASSUME NEW i \in 1..Len(new)
       PROVE  \/ i \in 1..Len(recs) /\ i < pos /\ new[i] = recs[i]
              \/ Len(rec) = 1 /\ new[i] = rec[1]
              \/ \E j \in 1..Len(recs) : j >= k /\ new[i] = recs[j]
  <2>1. CASE i <= a
    BY <1>1, <1>4, <1>8, <1>9, <1>10, <2>1
  <2>2. CASE i > a /\ i <= a + Len(rec)
    <3>1. Len(rec) = 1 /\ i - a = 1
      BY <1>6, <1>8, <1>9, <1>10, <2>2
    <3>2. new[i] = rec[i - a]
      BY <1>8, <1>10, <2>2
    <3> QED
      BY <3>1, <3>2
  <2>3. CASE i > a + Len(rec)
    <3>1. PICK j : j = k + (i - (a + Len(rec))) - 1
      OBVIOUS
    <3>2. j \in 1..Len(recs) /\ j >= k
      BY <1>1, <1>4, <1>6, <1>8, <1>9, <1>10, <2>3, <3>1
    <3>3. new[i] = recs[j]
      BY <1>8, <1>10, <2>3, <3>1
    <3> QED
      BY <3>2, <3>3
  <2> QED
    BY <1>6, <1>9, <1>10, <2>1, <2>2, <2>3
<1>11. ASSUME NEW j \in 1..Len(recs), j < pos \/ j >= k PROVE \E i \in 1..Len(new) : new[i] = recs[j]
  <2>1. CASE j < pos
    <3>1. j \in 1..Len(new) /\ j <= a
      BY <1>1, <1>4, <1>6, <1>8, <1>9, <1>11, <2>1
    <3> QED
      BY <1>8, <3>1
  <2>2. CASE j >= k
    <3>1. PICK i : i = j + 1 - k + a + Len(rec)
      OBVIOUS
    <3>2. i \in 1..Len(new) /\ i > a + Len(rec) /\ k + (i - (a + Len(rec))) - 1 = j
      BY <1>1, <1>4, <1>6, <1>8, <1>9, <1>11, <2>2, <3>1
    <3>3. new[i] = recs[k + (i - (a + Len(rec))) - 1]
      BY <1>8, <3>2
    <3>4. new[i] = recs[j]
      BY <3>2, <3>3
    <3> QED
      BY <3>2, <3>4
  <2> QED
    BY <1>11, <2>1, <2>2
<1>12. ASSUME Len(rec) = 1 PROVE \E i \in 1..Len(new) : new[i] = rec[1]
  <2>1. pos \in 1..Len(new) /\ pos > a /\ pos <= a + Len(rec) /\ pos - a = 1
    BY <1>1, <1>4, <1>8, <1>9, <1>12
  <2>2. new[pos] = rec[pos - a]
    BY <1>8, <2>1
  <2>3. new[pos] = rec[1]
    BY <2>1, <2>2
  <2> QED
    BY <2>1, <2>3
<1>13. CASE g = h
  <2>1. ASSUME NEW y, y \in Noted(new, g) PROVE y \in Noted(rec, h)
    <3>1. PICK i \in 1..Len(new) : new[i].head = h /\ y = new[i].body
      BY <1>13, <2>1, InNoted
    <3>2. Len(rec) = 1 /\ new[i] = rec[1]
      BY <1>1, <1>2, <1>4, <1>10, <3>1
    <3> QED
      BY <3>1, <3>2, InNoted
  <2>2. ASSUME NEW y, y \in Noted(rec, h) PROVE y \in Noted(new, g)
    <3>1. PICK i \in 1..Len(rec) : rec[i].head = h /\ y = rec[i].body
      BY <2>2, InNoted
    <3>2. Len(rec) = 1 /\ i = 1
      BY <1>6, <3>1
    <3> QED
      BY <1>12, <1>13, <3>1, <3>2, InNoted
  <2>3. Noted(new, g) = Noted(rec, h)
    BY <2>1, <2>2
  <2> QED
    BY <1>3, <1>13, <2>3
<1>14. CASE g # h
  <2>1. ASSUME NEW y, y \in Noted(new, g) PROVE y \in Noted(recs, g)
    <3>1. PICK i \in 1..Len(new) : new[i].head = g /\ y = new[i].body
      BY <2>1, InNoted
    <3>2. \E j \in 1..Len(recs) : new[i] = recs[j]
      BY <1>6, <1>10, <1>14, <3>1
    <3> QED
      BY <3>1, <3>2, InNoted
  <2>2. ASSUME NEW y, y \in Noted(recs, g) PROVE y \in Noted(new, g)
    <3>1. PICK j \in 1..Len(recs) : recs[j].head = g /\ y = recs[j].body
      BY <2>2, InNoted
    <3>2. j < pos \/ j >= k
      BY <1>1, <1>4, <1>5, <1>9, <1>14, <3>1
    <3>3. \E i \in 1..Len(new) : new[i] = recs[j]
      BY <1>11, <3>2
    <3> QED
      BY <3>1, <3>3, InNoted
  <2>3. Noted(new, g) = Noted(recs, g)
    BY <2>1, <2>2
  <2> QED
    BY <1>3, <1>14, <2>3
<1> QED
  BY <1>13, <1>14

\* The records of a source.
FileRecs(dir, s) == LET n == NoteFile(dir, s) IN IF n <= Len(dir) THEN dir[n].recs ELSE <<>>

\* They are recs.
Holds(dir, s, recs) ==
  \/ \E n \in 1..Len(dir) : dir[n].path = s /\ recs = dir[n].recs
  \/ recs = <<>> /\ \A n \in 1..Len(dir) : dir[n].path # s

LEMMA HoldsOne ==
  ASSUME NEW dir, FolderOK(dir), NEW s \in Nat \ {0}, NEW x, NEW y, Holds(dir, s, x), Holds(dir, s, y)
  PROVE  x = y
<1>1. \A n, m \in 1..Len(dir) : n # m /\ dir[n] # Empty => dir[m].path # dir[n].path
  BY DEF FolderOK
<1>2. \A n \in 1..Len(dir) : dir[n].path = s => dir[n] # Empty
  BY EmptyFile
<1> QED
  BY <1>1, <1>2 DEF Holds

LEMMA FileRecsAre ==
  ASSUME NEW dir, FolderOK(dir), NEW s \in Nat \ {0}
  PROVE  Holds(dir, s, FileRecs(dir, s)) /\ RecordsOK(s, FileRecs(dir, s))
<1>1. Len(dir) \in Nat
  BY DEF FolderOK, IsSeq
<1>2. PICK n : n = NoteFile(dir, s)
  OBVIOUS
<1>3. /\ n \in 1..Len(dir) + 1
      /\ n <= Len(dir) => dir[n].path = s
      /\ \A i \in 1..Len(dir) : i < n => dir[i].path # s
  BY <1>1, <1>2, NoteFileIs
<1>4. CASE n <= Len(dir)
  <2>1. n \in 1..Len(dir) /\ FileRecs(dir, s) = dir[n].recs
    BY <1>1, <1>2, <1>3, <1>4 DEF FileRecs
  <2>2. dir[n] # Empty
    BY <1>3, <1>4, EmptyFile
  <2>3. RecordsOK(s, dir[n].recs)
    BY <1>3, <1>4, <2>1, <2>2 DEF FolderOK, FileOK
  <2> QED
    BY <1>3, <1>4, <2>1, <2>3 DEF Holds
<1>5. CASE ~(n <= Len(dir))
  <2>1. FileRecs(dir, s) = <<>>
    BY <1>2, <1>5 DEF FileRecs
  <2>2. \A i \in 1..Len(dir) : dir[i].path # s
    BY <1>1, <1>3, <1>5
  <2>3. RecordsOK(s, <<>>)
    BY DEF RecordsOK, IsSeq, Ascending
  <2> QED
    BY <2>1, <2>2, <2>3 DEF Holds
<1> QED
  BY <1>4, <1>5

\* An exchange changes the records of one source.
LEMMA ExchangedRecs ==
  ASSUME NEW dir, FolderOK(dir), NEW at, NEW file, Fits(dir, at, file), dir[at].path \in {0, file.path},
         NEW x \in {file, Empty}, NEW new, new = [dir EXCEPT ![at] = x], NEW s \in Nat \ {0}
  PROVE  FileRecs(new, s) = IF s = file.path THEN x.recs ELSE FileRecs(dir, s)
<1>1. FolderOK(new)
  <2>1. LET e == [dir EXCEPT ![at] = x] IN FolderOK(e) /\ Fits(e, at, file)
    BY Exchanged
  <2> QED
    BY <2>1
<1>2. PICK S : dir \in Seq(S)
  BY DEF FolderOK, IsSeq
<1>3. at \in 1..Len(dir) /\ Len(dir) \in Nat
  BY <1>2 DEF Fits
<1>4. Len(new) = Len(dir) /\ \A n \in 1..Len(dir) : new[n] = IF n = at THEN x ELSE dir[n]
  <2>1. dir \in Seq(S \union {x})
    BY <1>2
  <2> QED
    BY <1>3, <2>1, ExceptSeq
<1>5. file.path \in Nat \ {0} /\ \A n \in 1..Len(dir) : n # at => dir[n].path # file.path
  BY DEF Fits
<1>6. Holds(new, s, FileRecs(new, s)) /\ Holds(dir, s, FileRecs(dir, s))
  BY <1>1, FileRecsAre
<1>7. CASE s = file.path
  <2>1. Holds(new, s, x.recs)
    <3>1. CASE x = file
      BY <1>3, <1>4, <1>7, <3>1 DEF Holds
    <3>2. CASE x = Empty
      BY <1>4, <1>5, <1>7, <3>2, EmptyFile DEF Holds
    <3> QED
      BY <3>1, <3>2
  <2> QED
    BY <1>1, <1>6, <1>7, <2>1, HoldsOne
<1>8. CASE s # file.path
  <2>1. dir[at].path # s /\ new[at].path # s
    BY <1>3, <1>4, <1>8, EmptyFile
  <2>2. Holds(new, s, FileRecs(dir, s))
    BY <1>4, <1>6, <2>1 DEF Holds
  <2> QED
    BY <1>1, <1>6, <1>8, <2>2, HoldsOne
<1> QED
  BY <1>7, <1>8

\* A new file has nothing.
LEMMA FreshRecs ==
  ASSUME NEW dir, FolderOK(dir), NEW t, \A n \in 1..Len(dir) : dir[n].path # t,
         NEW new, new = Append(dir, File(t, <<>>)), FolderOK(new), NEW s \in Nat \ {0}
  PROVE  FileRecs(new, s) = FileRecs(dir, s)
<1>1. PICK S : dir \in Seq(S)
  BY DEF FolderOK, IsSeq
<1>2. PICK fresh : fresh = File(t, <<>>)
  OBVIOUS
<1>3. fresh.path = t /\ fresh.recs = <<>>
  BY <1>2 DEF File
<1>4. PICK z : z = Len(dir) + 1
  OBVIOUS
<1>5. Len(dir) \in Nat /\ Len(new) = z /\ new[z] = fresh /\ \A n \in 1..Len(dir) : new[n] = dir[n]
  <2>1. dir \in Seq(S \union {fresh})
    BY <1>1
  <2>2. new = Append(dir, fresh)
    BY <1>2
  <2> QED
    BY <1>4, <2>1, <2>2, AppendProperties, LenProperties
<1>6. \A n \in 1..Len(new) : n = z \/ n \in 1..Len(dir)
  BY <1>4, <1>5
<1>7. z \in 1..Len(new) /\ \A n \in 1..Len(dir) : n \in 1..Len(new)
  BY <1>4, <1>5
<1>8. Holds(new, s, FileRecs(new, s)) /\ Holds(dir, s, FileRecs(dir, s))
  BY FileRecsAre
<1>9. Holds(new, s, FileRecs(dir, s))
  <2>1. CASE \E n \in 1..Len(dir) : dir[n].path = s /\ FileRecs(dir, s) = dir[n].recs
    BY <1>5, <1>7, <2>1 DEF Holds
  <2>2. CASE FileRecs(dir, s) = <<>> /\ \A n \in 1..Len(dir) : dir[n].path # s
    <3>1. CASE s = t
      BY <1>3, <1>5, <1>7, <2>2, <3>1 DEF Holds
    <3>2. CASE s # t
      BY <1>3, <1>5, <1>6, <2>2, <3>2 DEF Holds
    <3> QED
      BY <3>1, <3>2
  <2> QED
    BY <1>8, <2>1, <2>2 DEF Holds
<1> QED
  BY <1>8, <1>9, HoldsOne

-----------------------------------------------------------------------------
(* The note book of a folder. *)

BodiesIn(dir, g) == Noted(FileRecs(dir, SourceOf[g]), g)

IsBook(dir, b) ==
  /\ b = [g \in DOMAIN b |-> b[g]]
  /\ DOMAIN b = {g \in Headings : BodiesIn(dir, g) # {}}
  /\ \A g \in DOMAIN b : \E body : BodiesIn(dir, g) = {body} /\ b[g] = BlocksOf(body)

\* What is found is the only body that is noted.
LEMMA FoundAre ==
  ASSUME NEW dir, FolderOK(dir), NEW found, found = RecordsFound(dir)
  PROVE  /\ DOMAIN found = {g \in Headings : BodiesIn(dir, g) # {}}
         /\ \A g \in DOMAIN found : BodiesIn(dir, g) = {found[g]}
<1> DEFINE R(g) == FileRecs(dir, SourceOf[g])
<1>1. found = [h \in {g \in Headings : HasRecord(R(g), g)} |-> R(h)[LowerBound(R(h), h)].body]
  BY DEF RecordsFound, FileRecs
<1>2. ASSUME NEW g \in Headings
      PROVE  /\ HasRecord(R(g), g) <=> BodiesIn(dir, g) # {}
             /\ HasRecord(R(g), g) => BodiesIn(dir, g) = {R(g)[LowerBound(R(g), g)].body}
  <2>1. SourceOf[g] \in Nat \ {0}
    BY NotesAssumption
  <2>2. PICK recs : recs = R(g)
    OBVIOUS
  <2>3. RecordsOK(SourceOf[g], recs)
    BY <2>1, <2>2, FileRecsAre
  <2>4. /\ HasRecord(recs, g) <=> Noted(recs, g) # {}
        /\ HasRecord(recs, g) => Noted(recs, g) = {recs[LowerBound(recs, g)].body}
    BY <2>3, FoundIs
  <2> QED
    BY <2>2, <2>4 DEF BodiesIn
<1> HIDE DEF R
<1>3. DOMAIN found = {g \in Headings : HasRecord(R(g), g)}
  BY <1>1
<1>4. \A g \in DOMAIN found : found[g] = R(g)[LowerBound(R(g), g)].body
  BY <1>1
<1> QED
  BY <1>2, <1>3, <1>4

LEMMA BookIs ==
  ASSUME NEW dir, FolderOK(dir)
  PROVE  IsBook(dir, BookOf(dir))
<1>1. PICK found : found = RecordsFound(dir)
  OBVIOUS
<1>2. PICK b : b = [h \in DOMAIN found |-> BlocksOf(found[h])]
  OBVIOUS
<1>3. BookOf(dir) = CHOOSE c \in {[h \in DOMAIN f |-> BlocksOf(f[h])] : f \in {found}} : TRUE
  BY <1>1 DEF BookOf
<1>4. PICK B : B = {[h \in DOMAIN f |-> BlocksOf(f[h])] : f \in {found}}
  OBVIOUS
<1>5. \A c : c \in B <=> c = b
  BY <1>2, <1>4
<1>6. (CHOOSE c \in B : TRUE) \in B
  BY <1>5
<1>7. BookOf(dir) = b
  BY <1>3, <1>4, <1>5, <1>6
<1>8. /\ DOMAIN found = {g \in Headings : BodiesIn(dir, g) # {}}
      /\ \A g \in DOMAIN found : BodiesIn(dir, g) = {found[g]}
  BY <1>1, FoundAre
<1>9. DOMAIN b = DOMAIN found /\ \A g \in DOMAIN b : b[g] = BlocksOf(found[g])
  BY <1>2
<1>10. b = [g \in DOMAIN b |-> b[g]]
  BY <1>2
<1> QED
  BY <1>7, <1>8, <1>9, <1>10 DEF IsBook

\* What each heading has says what is in the book.
LEMMA SameAt ==
  ASSUME NEW dir, NEW b, IsBook(dir, b), NEW new, NEW n, IsBook(new, n), NEW g \in Headings,
         BodiesIn(new, g) = BodiesIn(dir, g)
  PROVE  (g \in DOMAIN b <=> g \in DOMAIN n) /\ (g \in DOMAIN b => b[g] = n[g])
<1>1. g \in DOMAIN b <=> g \in DOMAIN n
  BY DEF IsBook
<1>2. ASSUME g \in DOMAIN b PROVE b[g] = n[g]
  <2>1. PICK x : BodiesIn(dir, g) = {x} /\ b[g] = BlocksOf(x)
    BY <1>2 DEF IsBook
  <2>2. PICK y : BodiesIn(new, g) = {y} /\ n[g] = BlocksOf(y)
    BY <1>1, <1>2 DEF IsBook
  <2>3. x = y
    BY <2>1, <2>2
  <2> QED
    BY <2>1, <2>2, <2>3
<1> QED
  BY <1>1, <1>2

LEMMA SameBook ==
  ASSUME NEW dir, NEW b, IsBook(dir, b), NEW new, NEW n, IsBook(new, n),
         \A g \in Headings : BodiesIn(new, g) = BodiesIn(dir, g)
  PROVE  b = n
<1>1. DOMAIN b \subseteq Headings /\ DOMAIN n \subseteq Headings
  BY DEF IsBook
<1>2. \A g \in Headings : (g \in DOMAIN b <=> g \in DOMAIN n) /\ (g \in DOMAIN b => b[g] = n[g])
  BY SameAt
<1>3. DOMAIN b = DOMAIN n
  BY <1>1, <1>2
<1>4. \A g \in DOMAIN b : b[g] = n[g]
  BY <1>1, <1>2
<1>5. b = [g \in DOMAIN b |-> b[g]] /\ n = [g \in DOMAIN n |-> n[g]]
  BY DEF IsBook
<1>6. [g \in DOMAIN b |-> b[g]] = [g \in DOMAIN n |-> n[g]]
  BY <1>3, <1>4
<1> QED
  BY <1>5, <1>6

-----------------------------------------------------------------------------
(* What a command makes of a record. *)

Longer(old, new) ==
  new = Append(old, Book!Plain("text", 0)) \/ \E c \in Props : new = Append(old, Book!Plain("conj", c))

Amending(old, new) == Book!Titles(new) = Book!Titles(old) \/ \E c \in Props : new \in Book!Proved(old, c)

\* rec is what a command may put in the place of the record of h.
Allowed(recs, h, rec) ==
  \/ rec = <<>>
  \/ \E body, new :
       /\ rec = <<Record(h, new)>>
       /\ \/ Noted(recs, h) = {} /\ body = <<>> /\ Longer(BlocksOf(body), BlocksOf(new))
          \/ Noted(recs, h) = {body} /\ (Longer(BlocksOf(body), BlocksOf(new)) \/ Amending(BlocksOf(body), BlocksOf(new)))

LEMMA LongerBlocks ==
  ASSUME NEW body, IsSeq(body)
  PROVE  /\ Longer(BlocksOf(body), BlocksOf(body \o <<Line("text", 0)>>))
         /\ \A c \in Props : Longer(BlocksOf(body), BlocksOf(body \o <<Line("conj", c), Line("dsc", 0)>>))
<1>1. Longer(BlocksOf(body), BlocksOf(body \o <<Line("text", 0)>>))
  <2>1. PICK x : x = Line("text", 0)
    OBVIOUS
  <2>2. PICK blk : blk = [kind |-> x.t, name |-> x.a, premises |-> {}]
    OBVIOUS
  <2>3. ~IsIndented(x)
    BY <2>1, LineIs
  <2>4. blk = Book!Plain("text", 0)
    BY <2>1, <2>2, LineIs DEF Book!Plain
  <2>5. BlocksOf(body \o <<x>>) = Append(BlocksOf(body), blk)
    BY <2>2, <2>3, AppendBlock
  <2> QED
    BY <2>1, <2>4, <2>5 DEF Longer
<1>2. ASSUME NEW c \in Props
      PROVE  Longer(BlocksOf(body), BlocksOf(body \o <<Line("conj", c), Line("dsc", 0)>>))
  <2>1. PICK x, y : x = Line("conj", c) /\ y = Line("dsc", 0)
    OBVIOUS
  <2>2. PICK blk : blk = [kind |-> x.t, name |-> x.a, premises |-> {}]
    OBVIOUS
  <2>3. ~IsIndented(x) /\ IsIndented(y) /\ y.t # "child"
    BY <2>1, LineIs, PutLines
  <2>4. blk = Book!Plain("conj", c)
    BY <2>1, <2>2, LineIs DEF Book!Plain
  <2>5. BlocksOf(body \o <<x, y>>) = Append(BlocksOf(body), blk)
    BY <2>2, <2>3, AppendTwo
  <2> QED
    BY <1>2, <2>1, <2>4, <2>5 DEF Longer
<1> QED
  BY <1>1, <1>2

LEMMA NoteOfIs ==
  ASSUME NoteInv, NEW h \in Headings
  PROVE  NoteOf(h) = BodiesIn(folder, h)
<1>1. PICK found : found = RecordsFound(folder)
  OBVIOUS
<1>2. /\ DOMAIN found = {g \in Headings : BodiesIn(folder, g) # {}}
      /\ \A g \in DOMAIN found : BodiesIn(folder, g) = {found[g]}
  BY <1>1, FoundAre DEF NoteInv
<1>3. NoteOf(h) = IF h \in DOMAIN found THEN {found[h]} ELSE {}
  BY <1>1 DEF NoteOf
<1>4. CASE h \in DOMAIN found
  BY <1>2, <1>3, <1>4
<1>5. CASE h \notin DOMAIN found
  BY <1>2, <1>3, <1>5
<1> QED
  BY <1>4, <1>5

LEMMA CommandAllowed ==
  ASSUME NoteInv, BodiesInv, NEW h \in Headings, Command(h)
  PROVE  \E rec : IsRecord(h, rec) /\ Rewrite(h, rec) /\ Allowed(FileRecs(folder, SourceOf[h]), h, rec)
<1> DEFINE recs == FileRecs(folder, SourceOf[h])
           Goal == \E rec : IsRecord(h, rec) /\ Rewrite(h, rec) /\ Allowed(recs, h, rec)
<1>1. \A body \in NoteOf(h) : BodyOK(body) /\ Noted(recs, h) = {body} /\ NoteOf(h) # {}
  <2>1. PICK found : found = RecordsFound(folder)
    OBVIOUS
  <2>2. \A g \in DOMAIN found : BodyOK(found[g])
    BY <2>1, FoundBodies
  <2>3. NoteOf(h) = Noted(recs, h)
    BY NoteOfIs DEF BodiesIn
  <2>4. NoteOf(h) = IF h \in DOMAIN found THEN {found[h]} ELSE {}
    BY <2>1 DEF NoteOf
  <2> QED
    BY <2>2, <2>3, <2>4
<1>2. NoteOf(h) = {} => Noted(recs, h) = {}
  BY NoteOfIs DEF BodiesIn
<1> HIDE DEF recs
<1>3. ASSUME NEW body \in NoteOf(h), NEW new, Rewrite(h, <<Record(h, new)>>),
             Longer(BlocksOf(body), BlocksOf(new)) \/ Amending(BlocksOf(body), BlocksOf(new))
      PROVE  Goal
  <2>1. PICK rec : rec = <<Record(h, new)>>
    OBVIOUS
  <2>2. Noted(recs, h) = {body}
    BY <1>1, <1>3
  <2>3. Allowed(recs, h, rec)
    BY <1>3, <2>1, <2>2 DEF Allowed
  <2>4. IsRecord(h, rec)
    BY <2>1 DEF IsRecord
  <2> QED
    BY <1>3, <2>1, <2>3, <2>4
<1>4. ASSUME NEW lines, AppendNote(h, lines),
             \A body : IsSeq(body) => Longer(BlocksOf(body), BlocksOf(body \o lines))
      PROVE  Goal
  <2>1. PICK body \in IF NoteOf(h) = {} THEN {<<>>} ELSE NoteOf(h) : Rewrite(h, <<Record(h, body \o lines)>>)
    BY <1>4 DEF AppendNote
  <2>2. CASE NoteOf(h) # {}
    <3>1. body \in NoteOf(h) /\ IsSeq(body)
      BY <1>1, <2>1, <2>2 DEF BodyOK
    <3> HIDE DEF Goal
    <3> QED
      BY <1>3, <1>4, <2>1, <3>1
  <2>3. CASE NoteOf(h) = {}
    <3>1. body = <<>> /\ IsSeq(body)
      BY <2>1, <2>3 DEF IsSeq
    <3>2. PICK rec, new : new = body \o lines /\ rec = <<Record(h, new)>>
      OBVIOUS
    <3>3. Longer(BlocksOf(body), BlocksOf(new))
      BY <1>4, <3>1, <3>2
    <3>4. Noted(recs, h) = {}
      BY <1>2, <2>3
    <3>5. Allowed(recs, h, rec)
      BY <3>1, <3>2, <3>3, <3>4 DEF Allowed
    <3>6. IsRecord(h, rec) /\ Rewrite(h, rec)
      BY <2>1, <3>2 DEF IsRecord
    <3> QED
      BY <3>5, <3>6
  <2> QED
    BY <2>2, <2>3
<1>5. ASSUME DeleteNote(h) PROVE Goal
  <2>1. Rewrite(h, <<>>)
    BY <1>5 DEF DeleteNote
  <2>2. IsRecord(h, <<>>) /\ Allowed(recs, h, <<>>)
    BY DEF IsRecord, Allowed
  <2> QED
    BY <2>1, <2>2
<1>6. ASSUME NEW c \in Props, ProveNote(h, c) PROVE Goal
  <2>1. PICK body \in NoteOf(h) : Provable(body, c) /\ Rewrite(h, <<Record(h, Proved(body, c))>>)
    BY <1>6 DEF ProveNote
  <2>2. BlocksOf(Proved(body, c)) \in Book!Proved(BlocksOf(body), c)
    BY <1>1, <2>1, ProvedBlocks
  <2>3. Amending(BlocksOf(body), BlocksOf(Proved(body, c)))
    BY <1>6, <2>2 DEF Amending
  <2> HIDE DEF Goal
  <2> QED
    BY <1>3, <2>1, <2>3
<1>7. ASSUME NEW c \in Props, NEW f \in Premises, NEW p \in Props, AddPremise(h, c, f, p) PROVE Goal
  <2>1. PICK body \in NoteOf(h) : Amendable(body, c) /\ Rewrite(h, <<Record(h, PremiseAdded(body, c, f, p))>>)
    BY <1>7 DEF AddPremise
  <2>2. Book!Titles(BlocksOf(PremiseAdded(body, c, f, p))) = Book!Titles(BlocksOf(body))
    BY <1>1, <2>1, AddedTitles
  <2>3. Amending(BlocksOf(body), BlocksOf(PremiseAdded(body, c, f, p)))
    BY <2>2 DEF Amending
  <2> HIDE DEF Goal
  <2> QED
    BY <1>3, <2>1, <2>3
<1>8. ASSUME NEW c \in Props, NEW f \in Premises, NEW p \in Props, RemovePremise(h, c, f, p) PROVE Goal
  <2>1. PICK body \in NoteOf(h) :
          /\ Amendable(body, c) /\ Child(body, c, f, p) # 0
          /\ Rewrite(h, <<Record(h, PremiseRemoved(body, c, f, p))>>)
    BY <1>8 DEF RemovePremise
  <2>2. Book!Titles(BlocksOf(PremiseRemoved(body, c, f, p))) = Book!Titles(BlocksOf(body))
    BY <1>1, <2>1, RemovedTitles
  <2>3. Amending(BlocksOf(body), BlocksOf(PremiseRemoved(body, c, f, p)))
    BY <2>2 DEF Amending
  <2> HIDE DEF Goal
  <2> QED
    BY <1>3, <2>1, <2>3
<1>9. AppendNote(h, <<Line("text", 0)>>) => Goal
  <2>1. \A body : IsSeq(body) => Longer(BlocksOf(body), BlocksOf(body \o <<Line("text", 0)>>))
    BY LongerBlocks
  <2> HIDE DEF Goal
  <2> QED
    BY <1>4, <2>1
<1>10. \A c \in Props : AppendNote(h, <<Line("conj", c), Line("dsc", 0)>>) => Goal
  <2> HIDE DEF Goal
  <2> SUFFICES ASSUME NEW c \in Props, AppendNote(h, <<Line("conj", c), Line("dsc", 0)>>) PROVE Goal
    OBVIOUS
  <2>1. \A body : IsSeq(body) => Longer(BlocksOf(body), BlocksOf(body \o <<Line("conj", c), Line("dsc", 0)>>))
    BY LongerBlocks
  <2> QED
    BY <1>4, <2>1
<1> HIDE DEF Goal
<1>11. Goal
  BY <1>5, <1>6, <1>7, <1>8, <1>9, <1>10 DEF Command
<1> QED
  BY <1>11 DEF Goal, recs

-----------------------------------------------------------------------------
(* The files implement the note book. *)

\* What is being written: the old file with rec in the place of the record of h.
Pends(h, rec) ==
  /\ IsRecord(h, rec)
  /\ pending.old.path = SourceOf[h] /\ RecordsOK(SourceOf[h], pending.old.recs)
  /\ pending.new = File(SourceOf[h], Rewritten(pending.old.recs, h, rec))
  /\ Allowed(pending.old.recs, h, rec)
  /\ noteStep = "open" => folder[pending.at] = pending.old
  /\ noteStep = "truncated" => folder[pending.at] = Empty

PendingInv == noteStep # "idle" => \E h \in Headings : \E rec : Pends(h, rec)

LEMMA FileIs == \A s, recs : File(s, recs).path = s /\ File(s, recs).recs = recs
  BY DEF File

\* A command makes no difference to the book until it is written.
LEMMA RewritePends ==
  ASSUME NoteInv, NEW h \in Headings, NEW rec, IsRecord(h, rec), Rewrite(h, rec),
         Allowed(FileRecs(folder, SourceOf[h]), h, rec)
  PROVE  /\ PendingInv' /\ noteStep' = "open" /\ FolderOK(folder')
         /\ \A s \in Nat \ {0} : FileRecs(folder', s) = FileRecs(folder, s)
<1>1. NoteInv'
  BY RewriteInv
<1>2. PICK s, at, dir, old : /\ s = SourceOf[h] /\ at = NoteFile(folder, s)
                             /\ dir = (IF at <= Len(folder) THEN folder ELSE Append(folder, File(s, <<>>)))
                             /\ old = dir[at]
  OBVIOUS
<1>3. /\ folder' = dir /\ noteStep' = "open"
      /\ pending' = [at |-> at, old |-> old, new |-> File(old.path, Rewritten(old.recs, h, rec))]
  BY <1>2 DEF Rewrite
<1>4. /\ pending'.at = at /\ pending'.old = old
      /\ pending'.new = File(old.path, Rewritten(old.recs, h, rec))
  BY <1>3
<1>5. FolderOK(dir) /\ FolderOK(folder)
  BY <1>1, <1>3 DEF NoteInv
<1>6. at \in 1..Len(dir)
  BY <1>1, <1>3, <1>4 DEF NoteInv, Fits
<1>7. PICK S : folder \in Seq(S)
  BY <1>5 DEF FolderOK, IsSeq
<1>8. Len(folder) \in Nat /\ s \in Nat \ {0}
  BY <1>2, <1>7, NotesAssumption
<1>9. /\ at \in 1..Len(folder) + 1
      /\ at <= Len(folder) => folder[at].path = s
      /\ \A i \in 1..Len(folder) : i < at => folder[i].path # s
  BY <1>2, <1>8, NoteFileIs
<1>10. old.path = s /\ \A t \in Nat \ {0} : FileRecs(dir, t) = FileRecs(folder, t)
  <2>1. CASE at <= Len(folder)
    BY <1>2, <1>9, <2>1
  <2>2. CASE ~(at <= Len(folder))
    <3>1. PICK fresh : fresh = File(s, <<>>)
      OBVIOUS
    <3>2. dir = Append(folder, fresh) /\ at = Len(folder) + 1
      BY <1>2, <1>8, <1>9, <2>2, <3>1
    <3>3. folder \in Seq(S \union {fresh})
      BY <1>7
    <3>4. dir[at] = fresh
      BY <3>2, <3>3, AppendProperties
    <3>5. \A n \in 1..Len(folder) : folder[n].path # s
      BY <1>8, <1>9, <2>2
    <3>6. \A t \in Nat \ {0} : FileRecs(dir, t) = FileRecs(folder, t)
      BY <1>5, <3>1, <3>2, <3>5, FreshRecs
    <3>7. old = fresh /\ fresh.path = s
      BY <1>2, <3>1, <3>4, FileIs
    <3> QED
      BY <3>6, <3>7
  <2> QED
    BY <2>1, <2>2
<1>11. old.recs = FileRecs(folder, s)
  <2>1. Holds(dir, s, old.recs)
    BY <1>2, <1>6, <1>10 DEF Holds
  <2>2. Holds(dir, s, FileRecs(dir, s))
    BY <1>5, <1>8, FileRecsAre
  <2>3. old.recs = FileRecs(dir, s)
    BY <1>5, <1>8, <2>1, <2>2, HoldsOne
  <2> QED
    BY <1>8, <1>10, <2>3
<1>12. RecordsOK(s, old.recs)
  BY <1>5, <1>8, <1>11, FileRecsAre
<1>13. Allowed(old.recs, h, rec)
  BY <1>2, <1>11
<1>14. Pends(h, rec)'
  <2>1. pending'.old.path = s /\ RecordsOK(s, pending'.old.recs) /\ Allowed(pending'.old.recs, h, rec)
    BY <1>4, <1>10, <1>12, <1>13
  <2>2. pending'.new = File(s, Rewritten(pending'.old.recs, h, rec))
    BY <1>4, <1>10
  <2>3. folder'[pending'.at] = pending'.old
    BY <1>2, <1>3, <1>4
  <2>4. noteStep' # "truncated"
    BY <1>3
  <2> QED
    BY <1>2, <2>1, <2>2, <2>3, <2>4 DEF Pends
<1>15. PendingInv'
  BY <1>14 DEF PendingInv
<1> QED
  BY <1>3, <1>5, <1>10, <1>15

LEMMA TruncatePends ==
  ASSUME NoteInv, PendingInv, Truncate
  PROVE  PendingInv'
<1>1. /\ noteStep = "open" /\ noteStep' = "truncated" /\ pending' = pending
      /\ folder' = [folder EXCEPT ![pending.at] = Empty]
  BY DEF Truncate
<1>2. PICK h, rec : h \in Headings /\ Pends(h, rec)
  BY <1>1 DEF PendingInv
<1>3. PICK S : folder \in Seq(S)
  BY DEF NoteInv, FolderOK, IsSeq
<1>4. pending.at \in 1..Len(folder)
  BY <1>1 DEF NoteInv, Fits
<1>5. folder'[pending.at] = Empty
  BY <1>1, <1>3, <1>4
<1>6. Pends(h, rec)'
  BY <1>1, <1>2, <1>5 DEF Pends
<1> QED
  BY <1>2, <1>6 DEF PendingInv

LEMMA PendingInvHolds == NotesSpec => []PendingInv
<1>1. NotesInit => PendingInv
  BY DEF NotesInit, PendingInv
<1>2. NoteInv /\ BodiesInv /\ PendingInv /\ [NotesNext]_noteVars => PendingInv'
  <2> SUFFICES ASSUME NoteInv, BodiesInv, PendingInv, [NotesNext]_noteVars PROVE PendingInv'
    OBVIOUS
  <2>1. ASSUME NEW h \in Headings, Command(h) PROVE PendingInv'
    <3>1. PICK rec : IsRecord(h, rec) /\ Rewrite(h, rec) /\ Allowed(FileRecs(folder, SourceOf[h]), h, rec)
      BY <2>1, CommandAllowed
    <3> QED
      BY <2>1, <3>1, RewritePends
  <2>2. ASSUME Truncate PROVE PendingInv'
    BY <2>2, TruncatePends
  <2>3. ASSUME WriteBack PROVE PendingInv'
    BY <2>3 DEF WriteBack, PendingInv
  <2>4. ASSUME WriteFails PROVE PendingInv'
    BY <2>4 DEF WriteFails, PendingInv
  <2>5. ASSUME UNCHANGED noteVars PROVE PendingInv'
    BY <2>5 DEF noteVars, PendingInv, Pends
  <2> QED
    BY <2>1, <2>2, <2>3, <2>4, <2>5 DEF NotesNext
<1> QED
  BY <1>1, <1>2, NoteInvHolds, BodiesInvHolds, PTL DEF NotesSpec

\* A book without some headings, heading by heading.
IsWithout(b, S, n) ==
  /\ DOMAIN n = DOMAIN b \ S /\ n = [g \in DOMAIN n |-> n[g]]
  /\ \A g \in DOMAIN n : n[g] = b[g]

LEMMA WithoutIs ==
  ASSUME NEW b, NEW S, NEW n, IsWithout(b, S, n)
  PROVE  n = Book!Without(b, S)
<1>1. DOMAIN n = DOMAIN b \ S /\ n = [g \in DOMAIN n |-> n[g]] /\ \A g \in DOMAIN n : n[g] = b[g]
  BY DEF IsWithout
<1>2. [g \in DOMAIN n |-> n[g]] = [g \in DOMAIN b \ S |-> b[g]]
  BY <1>1
<1> QED
  BY <1>1, <1>2 DEF Book!Without

\* Two books whose headings but h have the same.
LEMMA OnlyAtIs ==
  ASSUME NEW dir, NEW b, IsBook(dir, b), NEW new, NEW n, IsBook(new, n), NEW h,
         \A g \in Headings : g # h => BodiesIn(new, g) = BodiesIn(dir, g)
  PROVE  Book!Without(b, {h}) = Book!Without(n, {h})
<1>1. DOMAIN b \subseteq Headings /\ DOMAIN n \subseteq Headings
  BY DEF IsBook
<1>2. \A g \in Headings : g # h => (g \in DOMAIN b <=> g \in DOMAIN n) /\ (g \in DOMAIN b => b[g] = n[g])
  BY SameAt
<1>3. DOMAIN b \ {h} = DOMAIN n \ {h}
  BY <1>1, <1>2
<1>4. \A g \in DOMAIN b \ {h} : b[g] = n[g]
  BY <1>1, <1>2
<1>5. [g \in DOMAIN b \ {h} |-> b[g]] = [g \in DOMAIN n \ {h} |-> n[g]]
  BY <1>3, <1>4
<1> QED
  BY <1>5 DEF Book!Without

LEMMA NothingNoted ==
  /\ \A g : Noted(<<>>, g) = {}
  /\ \A h, new : Noted(<<Record(h, new)>>, h) = {new}
<1>1. ASSUME NEW g PROVE Noted(<<>>, g) = {}
  <2>1. PICK none : none = <<>>
    OBVIOUS
  <2>2. Len(none) = 0
    BY <2>1
  <2>3. \A i \in 1..Len(none) : FALSE
    BY <2>2
  <2>4. Noted(none, g) = {}
    BY <2>3, InNoted
  <2> QED
    BY <2>1, <2>4
<1>2. ASSUME NEW h, NEW new PROVE Noted(<<Record(h, new)>>, h) = {new}
  <2>1. PICK x, one : x = Record(h, new) /\ one = <<x>>
    OBVIOUS
  <2>2. Len(one) = 1 /\ one[1] = x
    BY <2>1, OneLineSeq
  <2>3. x.head = h /\ x.body = new
    BY <2>1 DEF Record
  <2>4. \A i \in 1..Len(one) : i = 1
    BY <2>2
  <2>5. 1 \in 1..Len(one)
    BY <2>2
  <2>6. \A y : y \in Noted(one, h) <=> y = new
    BY <2>2, <2>3, <2>4, <2>5, InNoted
  <2>7. Noted(one, h) = {new}
    BY <2>6
  <2> QED
    BY <2>1, <2>7
<1> QED
  BY <1>1, <1>2

LEMMA NoBlocks == BlocksOf(<<>>) = <<>>
<1>1. PICK none : none = <<>>
  OBVIOUS
<1>2. Len(none) = 0 /\ IsSeq(none)
  BY <1>1 DEF IsSeq
<1>3. BlockStarts(none) = {}
  BY <1>2 DEF BlockStarts
<1>4. Lists(<<>>, 0, BlockStarts(none))
  BY <1>3, NoneListed
<1>5. IsSeq(BlocksOf(none)) /\ Len(BlocksOf(none)) = 0
  BY <1>4, BlocksAre
<1>6. PICK rec : rec = BlocksOf(none)
  OBVIOUS
<1>7. IsSeq(rec) /\ Len(rec) = Len(none) /\ \A i \in 1..Len(rec) : rec[i] = none[i]
  BY <1>2, <1>5, <1>6
<1>8. rec = none
  BY <1>2, <1>7, AllAtMost
<1> QED
  BY <1>1, <1>6, <1>8

\* A command that is written.
LEMMA CommandStep ==
  ASSUME NEW dir, NEW b, IsBook(dir, b), NEW new, NEW n, IsBook(new, n), NEW h \in Headings,
         \A g \in Headings : g # h => BodiesIn(new, g) = BodiesIn(dir, g),
         NEW recs, NEW rec, Allowed(recs, h, rec), BodiesIn(dir, h) = Noted(recs, h),
         BodiesIn(new, h) = Noted(rec, h)
  PROVE  n = b \/ Book!Step(b, n)
<1>1. /\ DOMAIN b = {g \in Headings : BodiesIn(dir, g) # {}}
      /\ DOMAIN n = {g \in Headings : BodiesIn(new, g) # {}}
      /\ n = [g \in DOMAIN n |-> n[g]]
      /\ \A g \in DOMAIN b : \E body : BodiesIn(dir, g) = {body} /\ b[g] = BlocksOf(body)
      /\ \A g \in DOMAIN n : \E body : BodiesIn(new, g) = {body} /\ n[g] = BlocksOf(body)
  BY DEF IsBook
<1>2. \A g \in Headings : g # h => (g \in DOMAIN b <=> g \in DOMAIN n) /\ (g \in DOMAIN b => b[g] = n[g])
  BY SameAt
<1>3. CASE rec = <<>>
  <2>1. BodiesIn(new, h) = {}
    BY <1>3, NothingNoted
  <2>2. h \notin DOMAIN n
    BY <1>1, <2>1
  <2>3. CASE h \in DOMAIN b
    <3>1. IsWithout(b, {h}, n)
      <4>1. DOMAIN n = DOMAIN b \ {h}
        BY <1>1, <1>2, <2>2
      <4>2. \A g \in DOMAIN n : n[g] = b[g]
        BY <1>1, <1>2, <2>2
      <4> QED
        BY <1>1, <4>1, <4>2 DEF IsWithout
    <3>2. n = Book!Without(b, {h})
      BY <3>1, WithoutIs
    <3> QED
      BY <2>3, <3>2 DEF Book!Step
  <2>4. CASE h \notin DOMAIN b
    <3>1. BodiesIn(dir, h) = {}
      BY <1>1, <2>4
    <3>2. \A g \in Headings : BodiesIn(new, g) = BodiesIn(dir, g)
      BY <2>1, <3>1
    <3>3. b = n
      BY <3>2, SameBook
    <3> QED
      BY <3>3
  <2> QED
    BY <2>3, <2>4
<1>4. CASE \E body, x :
             /\ rec = <<Record(h, x)>>
             /\ \/ Noted(recs, h) = {} /\ body = <<>> /\ Longer(BlocksOf(body), BlocksOf(x))
                \/ Noted(recs, h) = {body} /\ (Longer(BlocksOf(body), BlocksOf(x)) \/ Amending(BlocksOf(body), BlocksOf(x)))
  <2>1. PICK body, x :
             /\ rec = <<Record(h, x)>>
             /\ \/ Noted(recs, h) = {} /\ body = <<>> /\ Longer(BlocksOf(body), BlocksOf(x))
                \/ Noted(recs, h) = {body} /\ (Longer(BlocksOf(body), BlocksOf(x)) \/ Amending(BlocksOf(body), BlocksOf(x)))
    BY <1>4
  <2>2. BodiesIn(new, h) = {x}
    BY <2>1, NothingNoted
  <2>3. h \in DOMAIN n
    BY <1>1, <2>2
  <2>4. n[h] = BlocksOf(x)
    <3>1. PICK y : BodiesIn(new, h) = {y} /\ n[h] = BlocksOf(y)
      BY <1>1, <2>3
    <3>2. y = x
      BY <2>2, <3>1
    <3> QED
      BY <3>1, <3>2
  <2>5. PICK old, blk : old = (IF h \in DOMAIN b THEN b[h] ELSE <<>>) /\ blk = n[h]
    OBVIOUS
  <2>6. old = BlocksOf(body)
    <3>1. CASE Noted(recs, h) = {} /\ body = <<>>
      <4>1. h \notin DOMAIN b
        BY <1>1, <3>1
      <4> QED
        BY <2>5, <3>1, <4>1, NoBlocks
    <3>2. CASE Noted(recs, h) = {body}
      <4>1. h \in DOMAIN b
        BY <1>1, <3>2
      <4>2. PICK y : BodiesIn(dir, h) = {y} /\ b[h] = BlocksOf(y)
        BY <1>1, <4>1
      <4>3. y = body
        BY <3>2, <4>2
      <4> QED
        BY <2>5, <4>1, <4>2, <4>3
    <3> QED
      BY <2>1, <3>1, <3>2
  <2>7. Book!OnlyAt(b, n, h)
    <3>1. Book!Without(b, {h}) = Book!Without(n, {h})
      BY OnlyAtIs
    <3> QED
      BY <2>3, <3>1 DEF Book!OnlyAt
  <2>8. Longer(old, blk) \/ Amending(old, blk)
    BY <2>1, <2>4, <2>5, <2>6
  <2>10. CASE \/ blk = Append(old, Book!Plain("text", 0))
              \/ \E c \in Props : blk = Append(old, Book!Plain("conj", c)) \/ blk \in Book!Proved(old, c)
              \/ h \in DOMAIN b /\ Book!Titles(blk) = Book!Titles(old)
    <3>1. Book!Step(b, n)
      BY <2>5, <2>7, <2>10 DEF Book!Step
    <3> QED
      BY <3>1
  <2>11. CASE h \notin DOMAIN b
    <3>1. Noted(recs, h) = {}
      BY <1>1, <2>11
    <3>2. Noted(recs, h) # {body}
      BY <3>1
    <3>3. Longer(old, blk)
      BY <2>1, <2>4, <2>5, <2>6, <3>2
    <3> QED
      BY <2>10, <3>3 DEF Longer
  <2>12. CASE h \in DOMAIN b
    BY <2>8, <2>10, <2>12 DEF Longer, Amending
  <2> QED
    BY <2>11, <2>12
<1> QED
  BY <1>3, <1>4 DEF Allowed

\* A file that is lost.
LEMMA LostStep ==
  ASSUME NEW dir, NEW b, IsBook(dir, b), NEW new, NEW n, IsBook(new, n), NEW h \in Headings,
         \A g \in Headings : BodiesIn(new, g) = IF SourceOf[g] = SourceOf[h] THEN {} ELSE BodiesIn(dir, g)
  PROVE  Book!Step(b, n)
<1>1. PICK S : S = {g \in Headings : SourceOf[g] = SourceOf[h]}
  OBVIOUS
<1>2. /\ DOMAIN b = {g \in Headings : BodiesIn(dir, g) # {}}
      /\ DOMAIN n = {g \in Headings : BodiesIn(new, g) # {}}
      /\ n = [g \in DOMAIN n |-> n[g]]
  BY DEF IsBook
<1>3. \A g \in Headings : g \notin S => (g \in DOMAIN b <=> g \in DOMAIN n) /\ (g \in DOMAIN b => b[g] = n[g])
  <2> SUFFICES ASSUME NEW g \in Headings, g \notin S
               PROVE  (g \in DOMAIN b <=> g \in DOMAIN n) /\ (g \in DOMAIN b => b[g] = n[g])
    OBVIOUS
  <2>1. BodiesIn(new, g) = BodiesIn(dir, g)
    BY <1>1
  <2> QED
    BY <2>1, SameAt
<1>4. \A g \in S : g \notin DOMAIN n
  BY <1>1, <1>2
<1>5. DOMAIN n = DOMAIN b \ S
  BY <1>2, <1>3, <1>4
<1>6. \A g \in DOMAIN n : n[g] = b[g]
  BY <1>2, <1>3, <1>4
<1>7. IsWithout(b, S, n)
  BY <1>2, <1>5, <1>6 DEF IsWithout
<1>8. n = Book!Without(b, S)
  BY <1>7, WithoutIs
<1> QED
  BY <1>1, <1>8 DEF Book!Step

\* The folder with the old or the new file in the place of the truncated one.
LEMMA WrittenRecs ==
  ASSUME NoteInv, NEW h \in Headings, NEW rec, Pends(h, rec), noteStep = "truncated"
  PROVE  \A x \in {pending.old, pending.new, Empty} : \A dir :
           dir = [folder EXCEPT ![pending.at] = x] =>
             /\ FolderOK(dir)
             /\ \A s \in Nat \ {0} : FileRecs(dir, s) = IF s = SourceOf[h] THEN x.recs ELSE FileRecs(folder, s)
<1> SUFFICES ASSUME NEW x \in {pending.old, pending.new, Empty}, NEW dir,
                    dir = [folder EXCEPT ![pending.at] = x]
             PROVE  /\ FolderOK(dir)
                    /\ \A s \in Nat \ {0} : FileRecs(dir, s) = IF s = SourceOf[h] THEN x.recs ELSE FileRecs(folder, s)
  OBVIOUS
<1>1. PICK at, old, new : at = pending.at /\ old = pending.old /\ new = pending.new
  OBVIOUS
<1>2. /\ old.path = SourceOf[h] /\ RecordsOK(SourceOf[h], old.recs) /\ new.path = SourceOf[h]
      /\ folder[at] = Empty
  BY <1>1, FileIs DEF Pends
<1>3. FolderOK(folder) /\ Fits(folder, at, new)
  BY <1>1 DEF NoteInv
<1>4. Fits(folder, at, old)
  BY <1>2, <1>3 DEF Fits
<1>5. PICK file : file = (IF x = old THEN old ELSE new)
  OBVIOUS
<1>6. Fits(folder, at, file) /\ file.path = SourceOf[h] /\ x \in {file, Empty}
  BY <1>1, <1>2, <1>3, <1>4, <1>5
<1>7. dir = [folder EXCEPT ![at] = x]
  BY <1>1
<1>8. FolderOK(dir)
  <2>1. LET e == [folder EXCEPT ![at] = x] IN FolderOK(e) /\ Fits(e, at, file)
    BY <1>3, <1>6, Exchanged
  <2> QED
    BY <1>7, <2>1
<1>9. folder[at].path \in {0, file.path}
  BY <1>2, EmptyFile
<1>10. \A s \in Nat \ {0} : FileRecs(dir, s) = IF s = file.path THEN x.recs ELSE FileRecs(folder, s)
  <2>1. PICK f, y, r : f = folder /\ y = x /\ r = dir
    OBVIOUS
  <2>2. FolderOK(f) /\ Fits(f, at, file) /\ f[at].path \in {0, file.path} /\ y \in {file, Empty}
    BY <1>3, <1>6, <1>9, <2>1
  <2>3. r = [f EXCEPT ![at] = y]
    BY <1>7, <2>1
  <2>4. \A s \in Nat \ {0} : FileRecs(r, s) = IF s = file.path THEN y.recs ELSE FileRecs(f, s)
    <3> SUFFICES ASSUME NEW s \in Nat \ {0} PROVE FileRecs(r, s) = IF s = file.path THEN y.recs ELSE FileRecs(f, s)
      OBVIOUS
    <3>1. \A d, k, g, z : /\ FolderOK(d) /\ Fits(d, k, g) /\ d[k].path \in {0, g.path} /\ z \in {g, Empty}
                          => FileRecs([d EXCEPT ![k] = z], s) = IF s = g.path THEN z.recs ELSE FileRecs(d, s)
      BY ExchangedRecs
    <3> QED
      BY <2>2, <2>3, <3>1
  <2> QED
    BY <2>1, <2>4
<1> QED
  BY <1>6, <1>8, <1>10

LEMMA WriteBackStep ==
  ASSUME NoteInv, PendingInv, WriteBack, NEW b, b = BookOf(Settled), NEW n, n = BookOf(Settled)'
  PROVE  n = b \/ Book!Step(b, n)
<1>1. /\ noteStep = "truncated" /\ noteStep' = "idle"
      /\ folder' = [folder EXCEPT ![pending.at] = pending.new]
  BY DEF WriteBack
<1>2. PICK h, rec : h \in Headings /\ Pends(h, rec)
  BY <1>1 DEF PendingInv
<1>3. PICK d, e, recs : /\ d = [folder EXCEPT ![pending.at] = pending.old]
                        /\ e = [folder EXCEPT ![pending.at] = pending.new]
                        /\ recs = pending.old.recs
  OBVIOUS
<1>4. /\ FolderOK(d)
      /\ \A s \in Nat \ {0} : FileRecs(d, s) = IF s = SourceOf[h] THEN recs ELSE FileRecs(folder, s)
  <2>1. h \in Headings /\ Pends(h, rec) /\ noteStep = "truncated"
    BY <1>1, <1>2
  <2>2. \A x \in {pending.old, pending.new, Empty} : \A dir :
          dir = [folder EXCEPT ![pending.at] = x] =>
            /\ FolderOK(dir)
            /\ \A s \in Nat \ {0} : FileRecs(dir, s) = IF s = SourceOf[h] THEN x.recs ELSE FileRecs(folder, s)
    BY <2>1, WrittenRecs
  <2>3. PICK x : x = pending.old /\ x \in {pending.old, pending.new, Empty}
    OBVIOUS
  <2>4. d = [folder EXCEPT ![pending.at] = x]
    BY <1>3, <2>3, Zenon
  <2>5. /\ FolderOK(d)
        /\ \A s \in Nat \ {0} : FileRecs(d, s) = IF s = SourceOf[h] THEN x.recs ELSE FileRecs(folder, s)
    BY <2>1, <2>3, <2>4, <2>2, Zenon
  <2>6. x.recs = recs
    BY <1>3, <2>3, Zenon
  <2> QED
    BY <2>5, <2>6, Zenon
<1>5. /\ FolderOK(e)
      /\ \A s \in Nat \ {0} : FileRecs(e, s) = IF s = SourceOf[h] THEN pending.new.recs ELSE FileRecs(folder, s)
  <2>1. h \in Headings /\ Pends(h, rec) /\ noteStep = "truncated"
    BY <1>1, <1>2
  <2>2. \A x \in {pending.old, pending.new, Empty} : \A dir :
          dir = [folder EXCEPT ![pending.at] = x] =>
            /\ FolderOK(dir)
            /\ \A s \in Nat \ {0} : FileRecs(dir, s) = IF s = SourceOf[h] THEN x.recs ELSE FileRecs(folder, s)
    BY <2>1, WrittenRecs
  <2>3. PICK x : x = pending.new /\ x \in {pending.old, pending.new, Empty}
    OBVIOUS
  <2>4. e = [folder EXCEPT ![pending.at] = x]
    BY <1>3, <2>3, Zenon
  <2>5. /\ FolderOK(e)
        /\ \A s \in Nat \ {0} : FileRecs(e, s) = IF s = SourceOf[h] THEN x.recs ELSE FileRecs(folder, s)
    BY <2>1, <2>3, <2>4, <2>2, Zenon
  <2>6. x.recs = pending.new.recs
    BY <1>3, <2>3, Zenon
  <2> QED
    BY <2>5, <2>6, Zenon
<1>6. /\ IsRecord(h, rec) /\ RecordsOK(SourceOf[h], recs) /\ Allowed(recs, h, rec)
      /\ pending.new.recs = Rewritten(recs, h, rec)
  BY <1>2, <1>3, FileIs DEF Pends
<1>7. b = BookOf(d) /\ n = BookOf(e)
  BY <1>1, <1>3 DEF Settled
<1>8. IsBook(d, b) /\ IsBook(e, n)
  BY <1>4, <1>5, <1>7, BookIs
<1>9. ASSUME NEW g \in Headings
      PROVE  BodiesIn(e, g) = IF g = h THEN Noted(rec, h) ELSE BodiesIn(d, g)
  <2>1. SourceOf[g] \in Nat \ {0}
    BY NotesAssumption
  <2>2. CASE SourceOf[g] = SourceOf[h]
    <3>1. FileRecs(d, SourceOf[g]) = recs /\ FileRecs(e, SourceOf[g]) = Rewritten(recs, h, rec)
      BY <1>4, <1>5, <1>6, <2>1, <2>2
    <3>2. Noted(Rewritten(recs, h, rec), g) = IF g = h THEN Noted(rec, h) ELSE Noted(recs, g)
      BY <1>2, <1>6, RewrittenNoted
    <3> QED
      BY <3>1, <3>2 DEF BodiesIn
  <2>3. CASE SourceOf[g] # SourceOf[h]
    <3>1. FileRecs(e, SourceOf[g]) = FileRecs(d, SourceOf[g]) /\ g # h
      BY <1>4, <1>5, <2>1, <2>3
    <3> QED
      BY <3>1 DEF BodiesIn
  <2> QED
    BY <2>2, <2>3
<1>10. BodiesIn(d, h) = Noted(recs, h)
  <2>1. SourceOf[h] \in Nat \ {0}
    BY <1>2, NotesAssumption
  <2>2. FileRecs(d, SourceOf[h]) = recs
    BY <1>4, <2>1
  <2> QED
    BY <2>2 DEF BodiesIn
<1> QED
  BY <1>2, <1>6, <1>8, <1>9, <1>10, CommandStep

LEMMA WriteFailsStep ==
  ASSUME NoteInv, PendingInv, WriteFails, NEW b, b = BookOf(Settled), NEW n, n = BookOf(Settled)'
  PROVE  n = b \/ Book!Step(b, n)
<1>1. noteStep # "idle" /\ noteStep' = "idle" /\ folder' = folder /\ n = BookOf(folder)
  BY DEF WriteFails, Settled
<1>2. CASE noteStep = "open"
  BY <1>1, <1>2 DEF Settled
<1>3. CASE noteStep = "truncated"
  <2>1. PICK h, rec : h \in Headings /\ Pends(h, rec)
    BY <1>1 DEF PendingInv
  <2>2. PICK d, e : d = [folder EXCEPT ![pending.at] = pending.old] /\ e = [folder EXCEPT ![pending.at] = Empty]
    OBVIOUS
  <2>3. /\ FolderOK(d)
        /\ \A s \in Nat \ {0} : FileRecs(d, s) = IF s = SourceOf[h] THEN pending.old.recs ELSE FileRecs(folder, s)
    <3>1. \A x \in {pending.old, pending.new, Empty} : \A dir :
            dir = [folder EXCEPT ![pending.at] = x] =>
              /\ FolderOK(dir)
              /\ \A s \in Nat \ {0} : FileRecs(dir, s) = IF s = SourceOf[h] THEN x.recs ELSE FileRecs(folder, s)
      BY <1>3, <2>1, WrittenRecs
    <3>2. PICK x : x = pending.old /\ x \in {pending.old, pending.new, Empty}
      OBVIOUS
    <3>3. d = [folder EXCEPT ![pending.at] = x]
      BY <2>2, <3>2, Zenon
    <3>4. /\ FolderOK(d)
          /\ \A s \in Nat \ {0} : FileRecs(d, s) = IF s = SourceOf[h] THEN x.recs ELSE FileRecs(folder, s)
      BY <3>1, <3>2, <3>3, Zenon
    <3>5. x.recs = pending.old.recs
      BY <3>2, Zenon
    <3> QED
      BY <3>4, <3>5, Zenon
  <2>4. /\ FolderOK(e)
        /\ \A s \in Nat \ {0} : FileRecs(e, s) = IF s = SourceOf[h] THEN Empty.recs ELSE FileRecs(folder, s)
    <3>1. \A x \in {pending.old, pending.new, Empty} : \A dir :
            dir = [folder EXCEPT ![pending.at] = x] =>
              /\ FolderOK(dir)
              /\ \A s \in Nat \ {0} : FileRecs(dir, s) = IF s = SourceOf[h] THEN x.recs ELSE FileRecs(folder, s)
      BY <1>3, <2>1, WrittenRecs
    <3>2. PICK x : x = Empty /\ x \in {pending.old, pending.new, Empty}
      OBVIOUS
    <3>3. e = [folder EXCEPT ![pending.at] = x]
      BY <2>2, <3>2, Zenon
    <3>4. /\ FolderOK(e)
          /\ \A s \in Nat \ {0} : FileRecs(e, s) = IF s = SourceOf[h] THEN x.recs ELSE FileRecs(folder, s)
      BY <3>1, <3>2, <3>3, Zenon
    <3>5. x.recs = Empty.recs
      BY <3>2, Zenon
    <3> QED
      BY <3>4, <3>5, Zenon
  <2>5. e = folder
    <3>1. PICK S : folder \in Seq(S)
      BY DEF NoteInv, FolderOK, IsSeq
    <3>2. pending.at \in 1..Len(folder) /\ folder[pending.at] = Empty
      BY <1>1, <1>3, <2>1 DEF NoteInv, Fits, Pends
    <3> QED
      BY <2>2, <3>1, <3>2
  <2>6. b = BookOf(d)
    BY <1>3, <2>2 DEF Settled
  <2>7. IsBook(d, b) /\ IsBook(e, n)
    BY <1>1, <2>3, <2>4, <2>5, <2>6, BookIs
  <2>8. ASSUME NEW g \in Headings
        PROVE  BodiesIn(e, g) = IF SourceOf[g] = SourceOf[h] THEN {} ELSE BodiesIn(d, g)
    <3>1. SourceOf[g] \in Nat \ {0}
      BY NotesAssumption
    <3>2. CASE SourceOf[g] = SourceOf[h]
      <4>1. FileRecs(e, SourceOf[g]) = <<>>
        BY <2>4, <3>1, <3>2, EmptyFile
      <4> QED
        BY <3>2, <4>1, NothingNoted DEF BodiesIn
    <3>3. CASE SourceOf[g] # SourceOf[h]
      <4>1. FileRecs(e, SourceOf[g]) = FileRecs(d, SourceOf[g])
        BY <2>3, <2>4, <3>1, <3>3
      <4> QED
        BY <3>3, <4>1 DEF BodiesIn
    <3> QED
      BY <3>2, <3>3
  <2> QED
    BY <2>1, <2>7, <2>8, LostStep
<1> QED
  BY <1>1, <1>2, <1>3 DEF NoteInv

\* What is begun is not yet in the book; what is truncated still is.
LEMMA QuietSteps ==
  ASSUME NoteInv, BodiesInv, PendingInv,
         \/ noteStep = "idle" /\ \E h \in Headings : Command(h)
         \/ Truncate
         \/ UNCHANGED noteVars
  PROVE  BookOf(Settled)' = BookOf(Settled)
<1>1. ASSUME noteStep = "idle", NEW h \in Headings, Command(h) PROVE BookOf(Settled)' = BookOf(Settled)
  <2>1. PICK rec : IsRecord(h, rec) /\ Rewrite(h, rec) /\ Allowed(FileRecs(folder, SourceOf[h]), h, rec)
    BY <1>1, CommandAllowed
  <2>2. /\ noteStep' = "open" /\ FolderOK(folder')
        /\ \A s \in Nat \ {0} : FileRecs(folder', s) = FileRecs(folder, s)
    BY <1>1, <2>1, RewritePends
  <2>3. PICK d, e : d = folder /\ e = folder'
    OBVIOUS
  <2>4. FolderOK(d) /\ FolderOK(e) /\ \A s \in Nat \ {0} : FileRecs(e, s) = FileRecs(d, s)
    BY <2>2, <2>3 DEF NoteInv
  <2>5. \A g \in Headings : SourceOf[g] \in Nat \ {0}
    BY NotesAssumption
  <2>6. \A g \in Headings : BodiesIn(e, g) = BodiesIn(d, g)
    BY <2>4, <2>5 DEF BodiesIn
  <2>7. IsBook(d, BookOf(d)) /\ IsBook(e, BookOf(e))
    BY <2>4, BookIs
  <2>8. BookOf(d) = BookOf(e)
    BY <2>6, <2>7, SameBook
  <2>9. Settled = d /\ Settled' = e
    BY <1>1, <2>2, <2>3 DEF Settled
  <2> QED
    BY <2>8, <2>9
<1>2. ASSUME Truncate PROVE BookOf(Settled)' = BookOf(Settled)
  <2>1. /\ noteStep = "open" /\ noteStep' = "truncated" /\ pending' = pending
        /\ folder' = [folder EXCEPT ![pending.at] = Empty]
    BY <1>2 DEF Truncate
  <2>2. PICK h, rec : h \in Headings /\ Pends(h, rec)
    BY <2>1 DEF PendingInv
  <2>3. PICK S : folder \in Seq(S)
    BY DEF NoteInv, FolderOK, IsSeq
  <2>4. pending.at \in 1..Len(folder) /\ folder[pending.at] = pending.old
    BY <2>1, <2>2 DEF NoteInv, Fits, Pends
  <2>5. [folder' EXCEPT ![pending.at] = pending.old] = folder
    <3>1. PICK d, e, at, r : /\ d = folder /\ e = folder' /\ at = pending.at
                             /\ r = [e EXCEPT ![at] = pending.old]
      OBVIOUS
    <3>2. e = [d EXCEPT ![at] = Empty] /\ at \in 1..Len(d) /\ d[at] = pending.old
      BY <2>1, <2>4, <3>1
    <3>3. DOMAIN d = 1..Len(d) /\ d = [i \in 1..Len(d) |-> d[i]]
      BY <2>3, <3>1
    <3>4. DOMAIN r = 1..Len(d) /\ r = [i \in DOMAIN r |-> r[i]] /\ \A i \in 1..Len(d) : r[i] = d[i]
      BY <3>1, <3>2, <3>3
    <3>5. r = d
      BY <3>3, <3>4
    <3> QED
      BY <3>1, <3>5
  <2>6. Settled = folder /\ Settled' = folder
    BY <2>1, <2>5 DEF Settled
  <2> QED
    BY <2>6
<1>3. ASSUME UNCHANGED noteVars PROVE BookOf(Settled)' = BookOf(Settled)
  <2>1. Settled' = Settled
    BY <1>3 DEF noteVars, Settled
  <2> QED
    BY <2>1
<1> QED
  BY <1>1, <1>2, <1>3

LEMMA NotesBegin == NotesInit => Book!Init
<1> SUFFICES ASSUME NotesInit PROVE BookOf(Settled) = [h \in {} |-> <<>>]
  BY DEF Book!Init
<1>1. PICK dir : dir = folder
  OBVIOUS
<1>2. Settled = dir /\ dir = <<>>
  BY <1>1 DEF NotesInit, Settled
<1>3. FolderOK(dir)
  BY <1>2 DEF FolderOK, IsSeq
<1>4. PICK b : b = BookOf(dir)
  OBVIOUS
<1>5. IsBook(dir, b)
  BY <1>3, <1>4, BookIs
<1>6. ASSUME NEW g \in Headings PROVE BodiesIn(dir, g) = {}
  <2>1. SourceOf[g] \in Nat \ {0}
    BY NotesAssumption
  <2>2. Holds(dir, SourceOf[g], FileRecs(dir, SourceOf[g]))
    BY <1>3, <2>1, FileRecsAre
  <2>3. Len(dir) = 0
    BY <1>2
  <2>4. FileRecs(dir, SourceOf[g]) = <<>>
    BY <2>2, <2>3 DEF Holds
  <2> QED
    BY <2>4, NothingNoted DEF BodiesIn
<1>7. DOMAIN b = {} /\ b = [g \in DOMAIN b |-> b[g]]
  BY <1>5, <1>6 DEF IsBook
<1>8. [g \in DOMAIN b |-> b[g]] = [h \in {} |-> <<>>]
  BY <1>7
<1> QED
  BY <1>2, <1>4, <1>7, <1>8

(***************************************************************************)
(* For all headings, propositions and histories of commands, failed writes *)
(* and restarts: the note files implement the note book (NoteBook.tla).  A *)
(* command changes the blocks of its own record, -a and -r only premises,  *)
(* whatever else is in the file; a write that fails after the truncation   *)
(* loses the records of one source, and nothing else.                      *)
(***************************************************************************)
THEOREM NotesAreKept == NotesSpec => KeepsNotes
<1>1. NotesInit => Book!Init
  BY NotesBegin
<1>2. NoteInv /\ BodiesInv /\ PendingInv /\ [NotesNext]_noteVars => [Book!Next]_(BookOf(Settled))
  <2> SUFFICES ASSUME NoteInv, BodiesInv, PendingInv, [NotesNext]_noteVars
               PROVE  Book!Next \/ BookOf(Settled)' = BookOf(Settled)
    OBVIOUS
  <2>1. PICK b, n : b = BookOf(Settled) /\ n = BookOf(Settled)'
    OBVIOUS
  <2>2. n # b /\ Book!Step(b, n) => Book!Next
    BY <2>1 DEF Book!Next
  <2>3. CASE WriteBack
    <3>1. n = b \/ Book!Step(b, n)
      BY <2>1, <2>3, WriteBackStep
    <3> QED
      BY <2>1, <2>2, <3>1
  <2>4. CASE WriteFails
    <3>1. n = b \/ Book!Step(b, n)
      BY <2>1, <2>4, WriteFailsStep
    <3> QED
      BY <2>1, <2>2, <3>1
  <2>5. CASE \/ noteStep = "idle" /\ \E h \in Headings : Command(h)
             \/ Truncate
             \/ UNCHANGED noteVars
    BY <2>5, QuietSteps
  <2> QED
    BY <2>3, <2>4, <2>5 DEF NotesNext
<1> QED
  BY <1>1, <1>2, NoteInvHolds, BodiesInvHolds, PendingInvHolds, PTL DEF NotesSpec, KeepsNotes, Book!Spec
=============================================================================
