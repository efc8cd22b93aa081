-------------------------- MODULE CallGraphProofs --------------------------
(***************************************************************************)
(* For every module, every verdict of the pointer analysis, every content  *)
(* of the patch file and every session of queries: a built call graph has  *)
(* exactly the calls it should have, reach and cg answer what is true of   *)
(* these calls, the patch in use is the whole of one content of its file,  *)
(* and the variables keep their types.                                     *)
(***************************************************************************)
EXTENDS CallGraph, FiniteSetTheorems, WellFoundedInduction, TLAPS

-----------------------------------------------------------------------------
(* Sequences. *)

\* Appending and dropping keep the elements' type.
LEMMA Sequences ==
  \A T : \A s \in Seq(T) :
    /\ \A t \in Seq(T) : /\ s \o t \in Seq(T)
                          /\ Len(s) \in Nat /\ Len(t) \in Nat /\ Len(s \o t) = Len(s) + Len(t)
    /\ Len(s) >= 2 => Tail(Tail(s)) \in Seq(T)
<1> SUFFICES ASSUME NEW T, NEW s \in Seq(T)
             PROVE  /\ \A t \in Seq(T) : /\ s \o t \in Seq(T)
                                          /\ Len(s) \in Nat /\ Len(t) \in Nat
                                          /\ Len(s \o t) = Len(s) + Len(t)
                    /\ Len(s) >= 2 => Tail(Tail(s)) \in Seq(T)
  OBVIOUS
<1>1. \A u \in Seq(T) : Len(u) >= 1 => Tail(u) \in Seq(T) /\ Len(Tail(u)) = Len(u) - 1
  OBVIOUS
<1>2. Len(s) >= 2 => Tail(Tail(s)) \in Seq(T)
  <2> SUFFICES ASSUME Len(s) >= 2 PROVE Tail(Tail(s)) \in Seq(T)
    OBVIOUS
  <2>1. Tail(s) \in Seq(T) /\ Len(Tail(s)) >= 1
    <3>1. Len(s) \in Nat
      OBVIOUS
    <3> QED
      BY <1>1, <3>1
  <2> QED
    BY <1>1, <2>1, Zenon
<1> QED
  BY <1>2

\* The elements of s in the positions from + 1 .. to.
SliceOf(s, from, to) == {s[i] : i \in from + 1 .. to}

\* A slice that ends before the end is not changed by what is appended.
LEMMA SliceKept ==
  ASSUME NEW T, NEW s \in Seq(T), NEW t \in Seq(T), NEW a \in Nat, NEW b \in Nat, b <= Len(s)
  PROVE  SliceOf(s \o t, a, b) = SliceOf(s, a, b)
<1>1. \A i \in a + 1 .. b : (s \o t)[i] = s[i]
  OBVIOUS
<1> QED
  BY <1>1 DEF SliceOf

\* The slice that ends at the end takes up what is appended.
LEMMA SliceGrows ==
  ASSUME NEW T, NEW s \in Seq(T), NEW t \in Seq(T), NEW a \in Nat, a <= Len(s)
  PROVE  SliceOf(s \o t, a, Len(s \o t)) = SliceOf(s, a, Len(s)) \union In(t)
<1> DEFINE u == s \o t
<1>1. /\ Len(u) = Len(s) + Len(t)
      /\ \A i \in 1..Len(s) : u[i] = s[i]
      /\ \A i \in 1..Len(t) : u[Len(s) + i] = t[i]
  OBVIOUS
<1>2. ASSUME NEW i \in a + 1 .. Len(u) PROVE u[i] \in SliceOf(s, a, Len(s)) \union In(t)
  <2>1. CASE i <= Len(s)
    BY <1>1, <2>1 DEF SliceOf
  <2>2. CASE i > Len(s)
    <3>1. i - Len(s) \in 1..Len(t) /\ u[i] = t[i - Len(s)]
      BY <1>1, <2>2
    <3> QED
      BY <3>1 DEF In
  <2> QED
    BY <2>1, <2>2
<1>3. ASSUME NEW i \in a + 1 .. Len(s) PROVE s[i] \in SliceOf(u, a, Len(u))
  <2>1. i \in a + 1 .. Len(u) /\ u[i] = s[i]
    BY <1>1
  <2> QED
    BY <2>1 DEF SliceOf
<1>4. ASSUME NEW i \in 1..Len(t) PROVE t[i] \in SliceOf(u, a, Len(u))
  <2>1. Len(s) + i \in a + 1 .. Len(u) /\ u[Len(s) + i] = t[i]
    BY <1>1
  <2> QED
    BY <2>1 DEF SliceOf
<1> QED
  BY <1>2, <1>3, <1>4 DEF SliceOf, In

-----------------------------------------------------------------------------
(* Types. *)

\* Ranges lie in the pool, and a search always has a function to look at.
RangesInPool ==
  \A f \in DOMAIN CG : CG[f].start <= CG[f].end /\ CG[f].end <= Len(edges)
WalkInv ==
  /\ RangesInPool
  /\ startIdx <= Len(edges) \/ pc \notin {"build", "load"}
  /\ pc # "idle" => query.from \in Functions
  /\ pc = "reach" => work # <<>>
TInv == TypeOK /\ WalkInv

\* An indirect or direct call has a callee, and each call site its edges.
LEMMA SiteEdgesType ==
  ASSUME NEW f \in DefinedFns, NEW k \in 1..Len(Sites[f]), analysis \in Analyses
  PROVE  /\ SiteEdges(f, k) \in Seq(EdgeType)
         /\ \A i \in 1..Len(SiteEdges(f, k)) : SiteEdges(f, k)[i].caller = f
<1>1. Sites[f][k] \in SiteType /\ k \in Nat
  BY CallGraphAssumption
<1>2. CASE Sites[f][k].direct
  <2>1. Sites[f][k].to \in Functions
    BY <1>1, <1>2 DEF SiteType
  <2>2. SiteEdges(f, k) = <<Edge("DIRECT", f, k, Sites[f][k].to)>>
    BY <1>2 DEF SiteEdges
  <2>3. Edge("DIRECT", f, k, Sites[f][k].to) \in EdgeType
    BY <1>1, <2>1 DEF Edge, EdgeType
  <2>4. Edge("DIRECT", f, k, Sites[f][k].to).caller = f
    BY DEF Edge
  <2> QED
    BY <2>2, <2>3, <2>4
<1>3. CASE ~Sites[f][k].direct
  <2> DEFINE says == analysis[Sites[f][k].to]
  <2>1. Sites[f][k].to \in Pointers
    BY <1>1, <1>3 DEF SiteType
  <2>4. says \in SaysType
    BY <2>1, CallGraphAssumption
  <2>2. CASE says.how = "unknown"
    <3>1. SiteEdges(f, k) = <<Edge("CALLANYTHING", f, k, Nobody)>>
      BY <1>3, <2>2 DEF SiteEdges
    <3>2. Edge("CALLANYTHING", f, k, Nobody) \in EdgeType
      BY <1>1 DEF Edge, EdgeType
    <3>3. Edge("CALLANYTHING", f, k, Nobody).caller = f
      BY DEF Edge
    <3> QED
      BY <3>1, <3>2, <3>3
  <2>3. CASE says.how # "unknown"
    <3>1. SiteEdges(f, k) = [i \in 1..Len(says.fns) |-> Edge("INDIRECT", f, k, says.fns[i])]
      BY <1>3, <2>3 DEF SiteEdges
    <3>2. says.fns \in Seq(Functions)
      BY <2>4 DEF SaysType
    <3>3. \A i \in 1..Len(says.fns) : Edge("INDIRECT", f, k, says.fns[i]) \in EdgeType
      BY <1>1, <3>2 DEF Edge, EdgeType
    <3>4. \A i \in 1..Len(says.fns) : Edge("INDIRECT", f, k, says.fns[i]).caller = f
      BY DEF Edge
    <3> HIDE DEF says
    <3> QED
      BY <3>1, <3>2, <3>3, <3>4
  <2> QED
    BY <2>2, <2>3
<1> QED
  BY <1>2, <1>3

\* So has each patched call.
LEMMA PatchEdgesType ==
  ASSUME NEW f \in DefinedFns, cgPatchOut \in [Functions -> Seq(Functions)]
  PROVE  /\ PatchEdges(f) \in Seq(EdgeType)
         /\ \A i \in 1..Len(PatchEdges(f)) : PatchEdges(f)[i].caller = f
<1>1. cgPatchOut[f] \in Seq(Functions)
  BY DEF Functions
<1>2. \A i \in 1..Len(cgPatchOut[f]) : Edge("INDIRECT", f, 0, cgPatchOut[f][i]) \in EdgeType
  BY <1>1 DEF Edge, EdgeType
<1>3. \A i \in 1..Len(cgPatchOut[f]) : Edge("INDIRECT", f, 0, cgPatchOut[f][i]).caller = f
  BY DEF Edge
<1> QED
  BY <1>1, <1>2, <1>3 DEF PatchEdges

\* What the actions need to know of the constants.
LEMMA Constants ==
  /\ Defined \in Seq(DefinedFns) /\ DefinedFns \subseteq Functions
  /\ AskedFrom \subseteq Functions /\ AskedTo \subseteq Functions
  /\ FileContents \subseteq Seq(FileLines) /\ PatchPaths \subseteq BOOLEAN
  /\ Functions \subseteq FileLines /\ Blank \in FileLines
  /\ Nobody \notin Functions
  /\ MaxQueries \in Nat /\ MaxEdits \in Nat
BY CallGraphAssumption DEF Functions, FileLines

\* The values that initialisation and resets assign.
LEMMA Empty ==
  /\ DOMAIN <<>> = {} /\ Len(<<>>) = 0
  /\ <<>> \in Seq(EdgeType) /\ <<>> \in Seq(FileLines)
  /\ <<>> \in Seq([fn : Functions, at : Nat, depth : Nat])
  /\ NoPatch \in [Functions -> Seq(EdgeType)] /\ NoPatch \in [Functions -> Seq(Functions)]
  /\ NoFile \in [exists : BOOLEAN, lines : Seq(FileLines)]
<1>1. \A S : <<>> \in Seq(S)
  OBVIOUS
<1> QED
  BY <1>1 DEF NoPatch, NoFile

\* The initial values have their types.
LEMMA InitTInv == Init => TInv
<1> SUFFICES ASSUME Init PROVE TInv
  OBVIOUS
<1>1. EnvironmentType
  BY Constants, Empty DEF Init, EnvironmentType
<1>2. GraphType
  <2>1. fn \in 1..Len(Defined) + 1 /\ site \in Nat \ {0} /\ startIdx \in Nat /\ at \in Nat \ {0}
    BY Constants DEF Init
  <2> QED
    BY <2>1, Empty DEF Init, GraphType
<1>3. QueryType
  BY Empty DEF Init, QueryType, NoQuery, Query
<1>4. WalkInv
  BY DEF Init, WalkInv, RangesInPool
<1> QED
  BY <1>1, <1>2, <1>3, <1>4 DEF TInv, TypeOK

\* Somebody changes the file.
LEMMA EditTInv == TInv /\ EditFile => TInv'
<1> SUFFICES ASSUME TInv, EditFile PROVE TInv'
  OBVIOUS
<1>1. patchFile' \in [exists : BOOLEAN, lines : Seq(FileLines)]
  <2>1. \A c \in FileContents : [exists |-> TRUE, lines |-> c] \in [exists : BOOLEAN, lines : Seq(FileLines)]
    BY Constants
  <2>2. patchFile' \in {NoFile} \union {[exists |-> TRUE, lines |-> c] : c \in FileContents}
    BY DEF EditFile, FileBecomes
  <2> QED
    BY <2>1, <2>2, Empty
<1>2. EnvironmentType'
  <2>1. /\ edits < MaxEdits /\ edits' = edits + 1 /\ queries' = queries /\ unread' = unread
        /\ analysis' = analysis /\ patchPath' = patchPath
    BY DEF EditFile, built, fixedVars, buildVars
  <2> QED
    BY <1>1, <2>1, Constants DEF TInv, TypeOK, EnvironmentType
<1>3. GraphType'
  BY DEF EditFile, TInv, TypeOK, GraphType, built, graphVars, revVars, patchVars, buildVars
<1>4. QueryType' /\ WalkInv'
  BY DEF EditFile, TInv, TypeOK, QueryType, WalkInv, RangesInPool, built, graphVars,
         buildVars, walkVars
<1> QED
  BY <1>2, <1>3, <1>4 DEF TInv, TypeOK

\* A query that needs no graph, or the graph begun.
LEMMA AskTInv == TInv /\ Ask => TInv'
<1> SUFFICES ASSUME TInv, Ask PROVE TInv'
  OBVIOUS
<1> USE DEF TInv, TypeOK
<1>1. ASSUME NEW f \in AskedFrom, NEW g \in AskedTo, CGPatch(f, g) PROVE TInv'
  <2> USE <1>1 DEF CGPatch
  <2>1. patchFile' \in [exists : BOOLEAN, lines : Seq(FileLines)]
    <3>1. <<f, g, Blank>> \in Seq(FileLines)
      BY Constants
    <3>2. patchFile.lines \o <<f, g, Blank>> \in Seq(FileLines)
      BY <3>1 DEF EnvironmentType
    <3>3. CASE patchPath
      <4>1. patchFile' = [exists |-> TRUE, lines |-> patchFile.lines \o <<f, g, Blank>>]
        BY <3>3 DEF FileBecomes
      <4> QED
        BY <3>2, <4>1
    <3>4. CASE ~patchPath
      BY <3>4 DEF EnvironmentType
    <3> QED
      BY <3>3, <3>4
  <2>2. EnvironmentType'
    BY <2>1, Constants DEF EnvironmentType, Take, fixedVars
  <2>3. GraphType'
    BY Constants DEF GraphType, Take, graphVars, revVars, patchVars
  <2>4. QueryType' /\ WalkInv'
    BY Constants DEF QueryType, WalkInv, RangesInPool, Take, Query, Reply, graphVars
  <2> QED
    BY <2>2, <2>3, <2>4
<1>2. CASE CGReload
  <2> USE <1>2 DEF CGReload
  <2>1. EnvironmentType'
    BY Constants DEF EnvironmentType, Take, fixedVars
  <2>2. GraphType'
    <3>1. fn' \in 1..Len(Defined) + 1 /\ site' \in Nat \ {0} /\ startIdx' \in Nat /\ at' \in Nat \ {0}
      BY Constants DEF Take
    <3>2. /\ cgBuilt' = FALSE /\ CG' = <<>> /\ edges' = <<>> /\ revBuilt' = FALSE
          /\ revCG' = NoPatch /\ callAnything' = <<>> /\ cgPatchLoaded' = FALSE
          /\ cgPatchOut' = cgPatchOut
      OBVIOUS
    <3> HIDE <1>2 DEF CGReload
    <3> QED
      BY <3>1, <3>2, Empty DEF GraphType
  <2>3. QueryType' /\ WalkInv'
    BY Constants DEF QueryType, WalkInv, RangesInPool, Take, Query, Reply
  <2> QED
    BY <2>1, <2>2, <2>3
<1>3. CASE ToggleSilence
  <2> USE <1>3 DEF ToggleSilence
  <2>1. EnvironmentType'
    BY Constants DEF EnvironmentType, Take, fixedVars, fileVars
  <2>2. GraphType'
    BY Constants DEF GraphType, Take, graphVars, revVars, patchVars
  <2>3. QueryType' /\ WalkInv'
    BY Constants DEF QueryType, WalkInv, RangesInPool, Take, Query, Reply, graphVars
  <2> QED
    BY <2>1, <2>2, <2>3
<1>4. ASSUME NEW q \in Questions, AskGraph(q) PROVE TInv'
  <2> USE <1>4 DEF AskGraph
  <2>1. q.from \in Functions /\ q.to \in Functions \union {Nobody}
    BY Constants DEF Questions, Query
  <2>2. EnvironmentType'
    BY Constants DEF EnvironmentType, Take, fixedVars, fileVars
  <2>3. GraphType'
    <3>1. fn' \in 1..Len(Defined) + 1 /\ site' \in Nat \ {0} /\ startIdx' \in Nat /\ at' \in Nat \ {0}
      BY Constants DEF Take
    <3>2. CASE cgBuilt
      BY <3>1, <3>2 DEF GraphType, revVars, patchVars
    <3>3. CASE ~cgBuilt
      BY <3>1, <3>3, Empty DEF GraphType, revVars, patchVars
    <3> QED
      BY <3>2, <3>3
  <2>4. QueryType' /\ WalkInv'
    BY <2>1, Constants DEF QueryType, WalkInv, RangesInPool, Take
  <2> QED
    BY <2>2, <2>3, <2>4
<1> QED
  BY <1>1, <1>2, <1>3, <1>4 DEF Ask

\* Building and loading.
LEMMA BuildTInv == TInv /\ Build => TInv'
<1> SUFFICES ASSUME TInv, Build PROVE TInv'
  OBVIOUS
<1> USE DEF TInv, TypeOK
<1>1. ASSUME NEW f \in DefinedFns, BuildSite(f) PROVE TInv'
  <2> USE <1>1 DEF BuildSite
  <2>1. site \in 1..Len(Sites[f])
    BY CallGraphAssumption DEF GraphType
  <2>2. SiteEdges(f, site) \in Seq(EdgeType)
    BY <2>1, SiteEdgesType DEF EnvironmentType
  <2>3. edges' \in Seq(EdgeType) /\ Len(edges) <= Len(edges') /\ Len(edges) \in Nat /\ Len(edges') \in Nat
    <3>1. edges \in Seq(EdgeType)
      BY DEF GraphType
    <3>2. edges' = edges \/ edges' = edges \o SiteEdges(f, site)
      OBVIOUS
    <3> HIDE <1>1 DEF BuildSite, TInv, TypeOK
    <3>3. CASE edges' = edges
      BY <3>1, <3>3
    <3>4. CASE edges' = edges \o SiteEdges(f, site)
      BY <2>2, <3>1, <3>4, Sequences
    <3> QED
      BY <3>2, <3>3, <3>4
  <2>4. EnvironmentType'
    BY DEF EnvironmentType, kept, fixedVars, fileVars
  <2>5. GraphType'
    BY <2>3 DEF GraphType, kept, fixedVars, fileVars, revVars, patchVars
  <2>6. QueryType'
    BY DEF QueryType, kept, walkVars, Building, Throw, Reply
  <2>7. WalkInv'
    BY <2>3 DEF WalkInv, RangesInPool, kept, walkVars, Building, Throw, Reply, GraphType
  <2> QED
    BY <2>4, <2>5, <2>6, <2>7
<1>2. ASSUME NEW f \in DefinedFns, OpenPatch(f) PROVE TInv'
  <2> USE <1>2 DEF OpenPatch
  <2>1. unread' \in Seq(FileLines) /\ cgPatchLoaded' \in BOOLEAN
        /\ cgPatchOut' \in [Functions -> Seq(Functions)]
    BY Empty DEF EnvironmentType, GraphType
  <2>2. EnvironmentType'
    BY <2>1 DEF EnvironmentType, kept, fixedVars, fileVars
  <2>3. GraphType'
    BY <2>1 DEF GraphType, graphVars, revVars
  <2>4. QueryType' /\ WalkInv'
    BY DEF QueryType, WalkInv, RangesInPool, kept, walkVars, graphVars, Building, Throw, Reply
  <2> QED
    BY <2>2, <2>3, <2>4
<1>3. CASE SkipBlank
  <2> USE <1>3 DEF SkipBlank
  <2>1. EnvironmentType'
    BY DEF EnvironmentType, kept, fixedVars, fileVars
  <2>2. GraphType'
    BY DEF GraphType, graphVars, revVars, patchVars
  <2>3. QueryType' /\ WalkInv'
    BY DEF QueryType, WalkInv, RangesInPool, kept, walkVars, graphVars
  <2> QED
    BY <2>1, <2>2, <2>3
<1>4. CASE LoadPair
  <2> USE <1>4 DEF LoadPair
  <2>0. unread \in Seq(FileLines) /\ cgPatchOut \in [Functions -> Seq(Functions)]
    BY DEF EnvironmentType, GraphType
  <2>1. unread' \in Seq(FileLines)
    <3>1. unread' = unread \/ (Len(unread) >= 2 /\ unread' = Tail(Tail(unread)))
      BY DEF Readable
    <3> HIDE <1>4 DEF LoadPair, TInv, TypeOK
    <3> QED
      BY <2>0, <3>1, Sequences
  <2>2. cgPatchOut' \in [Functions -> Seq(Functions)]
    <3>1. \/ cgPatchOut' = cgPatchOut
          \/ /\ unread[1] \in Functions /\ unread[2] \in Functions
             /\ cgPatchOut' = [cgPatchOut EXCEPT ![unread[1]] = Append(@, unread[2])]
      BY DEF Readable
    <3> HIDE <1>4 DEF LoadPair, TInv, TypeOK
    <3>2. CASE cgPatchOut' = cgPatchOut
      BY <2>0, <3>2
    <3>3. ASSUME NEW g \in Functions, NEW h \in Functions,
                 cgPatchOut' = [cgPatchOut EXCEPT ![g] = Append(@, h)]
          PROVE  cgPatchOut' \in [Functions -> Seq(Functions)]
      <4>1. cgPatchOut[g] \in Seq(Functions)
        BY <2>0
      <4>2. Append(cgPatchOut[g], h) \in Seq(Functions)
        BY <4>1
      <4> QED
        BY <2>0, <3>3, <4>2
    <3> QED
      BY <3>1, <3>2, <3>3
  <2>3. EnvironmentType'
    BY <2>1 DEF EnvironmentType, kept, fixedVars, fileVars
  <2>4. GraphType'
    BY <2>2 DEF GraphType, graphVars, revVars
  <2>5. QueryType' /\ WalkInv'
    BY DEF QueryType, WalkInv, RangesInPool, kept, walkVars, graphVars, Throw, Reply
  <2> QED
    BY <2>3, <2>4, <2>5
<1>5. CASE LoadEnd
  <2> USE <1>5 DEF LoadEnd
  <2>1. EnvironmentType' /\ GraphType'
    BY DEF EnvironmentType, GraphType, kept, fixedVars, fileVars, graphVars, revVars, buildVars
  <2>2. QueryType' /\ WalkInv'
    BY DEF QueryType, WalkInv, RangesInPool, kept, walkVars, graphVars, buildVars
  <2> QED
    BY <2>1, <2>2
<1>6. ASSUME NEW f \in DefinedFns, BuildFunction(f) PROVE TInv'
  <2> USE <1>6 DEF BuildFunction
  <2>1. PatchEdges(f) \in Seq(EdgeType)
    BY PatchEdgesType DEF GraphType
  <2>2. edges' \in Seq(EdgeType) /\ Len(edges) <= Len(edges') /\ Len(edges) \in Nat /\ Len(edges') \in Nat
    BY <2>1 DEF GraphType
  <2>3. fn' \in 1..Len(Defined) + 1 /\ site' \in Nat \ {0} /\ startIdx' \in Nat
    <3>1. /\ fn \in 1..Len(Defined) + 1 /\ fn <= Len(Defined)
          /\ fn' = fn + 1 /\ site' = 1 /\ startIdx' = Len(edges')
      BY DEF GraphType, Building
    <3>2. Len(Defined) \in Nat
      BY Constants
    <3> HIDE <1>6 DEF BuildFunction, TInv, TypeOK
    <3> QED
      BY <2>2, <3>1, <3>2
  <2>4. startIdx <= Len(edges) /\ startIdx \in Nat
    BY DEF WalkInv, Building, GraphType
  <2>5. /\ DOMAIN CG' \subseteq DefinedFns
        /\ \A g \in DOMAIN CG' : /\ CG'[g] \in [start : Nat, end : Nat]
                                 /\ CG'[g].start <= CG'[g].end /\ CG'[g].end <= Len(edges')
    <3>1. CASE startIdx = Len(edges')
      BY <3>1, <2>2 DEF GraphType, WalkInv, RangesInPool
    <3>2. CASE startIdx # Len(edges')
      <4>1. CG' = [g \in DOMAIN CG \union {f} |->
                    IF g = f THEN [start |-> startIdx, end |-> Len(edges')] ELSE CG[g]]
        BY <3>2
      <4> HIDE <1>6 DEF BuildFunction
      <4> QED
        BY <4>1, <2>2, <2>4 DEF GraphType, WalkInv, RangesInPool
    <3> QED
      BY <3>1, <3>2
  <2>6. EnvironmentType'
    BY DEF EnvironmentType, kept, fixedVars, fileVars
  <2>7. GraphType'
    BY <2>2, <2>3, <2>5 DEF GraphType, kept, fixedVars, fileVars, revVars, patchVars
  <2>8. QueryType'
    BY DEF QueryType, kept, walkVars, Building
  <2>9. WalkInv'
    <3>1. RangesInPool'
      BY <2>5 DEF RangesInPool
    <3>2. startIdx' <= Len(edges')
      <4>1. startIdx' = Len(edges')
        OBVIOUS
      <4> HIDE <1>6 DEF BuildFunction
      <4> QED
        BY <2>2, <4>1
    <3>3. pc' = pc /\ pc = "build" /\ query' = query
      BY DEF Building, kept
    <3> HIDE <1>6 DEF BuildFunction
    <3> QED
      BY <3>1, <3>2, <3>3 DEF WalkInv
  <2> QED
    BY <2>6, <2>7, <2>8, <2>9
<1>7. CASE BuildEnd
  <2> USE <1>7 DEF BuildEnd
  <2>1. EnvironmentType' /\ GraphType'
    BY DEF EnvironmentType, GraphType, kept, fixedVars, fileVars, revVars, patchVars, buildVars
  <2>2. QueryType' /\ WalkInv'
    BY DEF QueryType, WalkInv, RangesInPool, kept, walkVars, buildVars
  <2> QED
    BY <2>1, <2>2
<1> QED
  BY <1>1, <1>2, <1>3, <1>4, <1>5, <1>6, <1>7 DEF Build

\* An edge of the pool, and its callee.
LEMMA EdgeFacts ==
  GraphType => \A j \in 1..Len(edges) :
                 /\ edges[j] \in EdgeType /\ edges[j].caller \in DefinedFns
                 /\ edges[j].callee \in Functions \union {Nobody}
                 /\ edges[j].type = "CALLANYTHING" \/ edges[j].callee \in Functions
                 /\ edges[j].type = "CALLANYTHING" <=> edges[j].callee = Nobody
<1>1. \A e \in EdgeType :
        /\ e.caller \in DefinedFns /\ e.callee \in Functions \union {Nobody}
        /\ e.type = "CALLANYTHING" \/ e.callee \in Functions
        /\ e.type = "CALLANYTHING" <=> e.callee = Nobody
  BY Constants DEF EdgeType
<1> QED
  BY <1>1 DEF GraphType

\* Answering callout and callin, and turning the graph round.
LEMMA ReverseTInv == TInv /\ Reverse => TInv'
<1> SUFFICES ASSUME TInv, Reverse PROVE TInv'
  OBVIOUS
<1> USE DEF TInv, TypeOK
<1>1. CASE AnswerOut \/ AnswerIn
  <2> USE <1>1 DEF AnswerOut, AnswerIn, Reply
  <2>1. EnvironmentType' /\ GraphType'
    BY DEF EnvironmentType, GraphType, kept, built, fixedVars, fileVars, graphVars, revVars,
           patchVars, buildVars
  <2>2. QueryType' /\ WalkInv'
    BY DEF QueryType, WalkInv, RangesInPool, kept, built, walkVars, graphVars, buildVars
  <2> QED
    BY <2>1, <2>2
<1>2. CASE ReverseBegin
  <2> USE <1>2 DEF ReverseBegin
  <2>1. EnvironmentType' /\ GraphType'
    BY DEF EnvironmentType, GraphType, kept, fixedVars, fileVars, graphVars, revVars,
           patchVars, buildVars
  <2>2. QueryType' /\ WalkInv'
    BY DEF QueryType, WalkInv, RangesInPool, kept, walkVars, graphVars, buildVars
  <2> QED
    BY <2>1, <2>2
<1>3. CASE ReverseStep
  <2> USE <1>3 DEF ReverseStep
  <2>1. at \in 1..Len(edges) /\ at' \in Nat \ {0}
    BY DEF GraphType
  <2>2. /\ edges[at] \in EdgeType
        /\ edges[at].type = "CALLANYTHING" \/ edges[at].callee \in Functions
    BY <2>1, EdgeFacts
  <2>3. callAnything' \in Seq(EdgeType) /\ revCG' \in [Functions -> Seq(EdgeType)]
    <3>1. callAnything \in Seq(EdgeType) /\ revCG \in [Functions -> Seq(EdgeType)]
      BY DEF GraphType
    <3>2. CASE edges[at].type = "CALLANYTHING"
      <4>1. callAnything' = Append(callAnything, edges[at]) /\ revCG' = revCG
        BY <3>2
      <4> QED
        BY <2>2, <3>1, <4>1
    <3>3. CASE edges[at].type # "CALLANYTHING"
      <4>1. /\ callAnything' = callAnything
            /\ revCG' = [revCG EXCEPT ![edges[at].callee] = Append(@, edges[at])]
        BY <3>3
      <4>2. Append(revCG[edges[at].callee], edges[at]) \in Seq(EdgeType)
        BY <2>2, <3>1, <3>3
      <4> QED
        BY <2>2, <3>1, <3>3, <4>1, <4>2
    <3> QED
      BY <3>2, <3>3
  <2>4. EnvironmentType'
    BY DEF EnvironmentType, kept, fixedVars, fileVars, buildVars
  <2>5. GraphType'
    <3>1. /\ cgBuilt' = cgBuilt /\ CG' = CG /\ edges' = edges /\ revBuilt' = revBuilt
          /\ cgPatchLoaded' = cgPatchLoaded /\ cgPatchOut' = cgPatchOut
          /\ fn' = fn /\ site' = site /\ startIdx' = startIdx
      BY DEF graphVars, patchVars, buildVars
    <3> HIDE <1>3 DEF ReverseStep
    <3> QED
      BY <2>1, <2>3, <3>1 DEF GraphType
  <2>6. QueryType' /\ WalkInv'
    BY DEF QueryType, WalkInv, RangesInPool, kept, walkVars, graphVars, buildVars
  <2> QED
    BY <2>4, <2>5, <2>6
<1>4. CASE ReverseEnd
  <2> USE <1>4 DEF ReverseEnd
  <2>1. EnvironmentType' /\ GraphType'
    BY DEF EnvironmentType, GraphType, kept, fixedVars, fileVars, graphVars, patchVars, buildVars
  <2>2. QueryType' /\ WalkInv'
    BY DEF QueryType, WalkInv, RangesInPool, kept, walkVars, graphVars, buildVars
  <2> QED
    BY <2>1, <2>2
<1> QED
  BY <1>1, <1>2, <1>3, <1>4 DEF Reverse

\* The frames of a walk; an index that is before the end is in the pool.
FrameType == [fn : Functions, at : Nat, depth : Nat]
LEMMA FrameFacts ==
  TInv => /\ \A f \in Functions, d \in Nat : Frame(f, d) \in FrameType
          /\ \A h \in FrameType : /\ Next1(h) \in FrameType
                                  /\ h.at < EndOf(h.fn) => h.at + 1 \in 1..Len(edges)
<1> SUFFICES ASSUME TInv
             PROVE  /\ \A f \in Functions, d \in Nat : Frame(f, d) \in FrameType
                    /\ \A h \in FrameType : /\ Next1(h) \in FrameType
                                            /\ h.at < EndOf(h.fn) => h.at + 1 \in 1..Len(edges)
  OBVIOUS
<1>1. \A f \in Functions : /\ StartOf(f) \in Nat /\ EndOf(f) \in Nat /\ EndOf(f) <= Len(edges)
  <2>1. Len(edges) \in Nat
    BY DEF TInv, TypeOK, GraphType
  <2> QED
    BY <2>1 DEF TInv, TypeOK, GraphType, WalkInv, RangesInPool, StartOf, EndOf
<1>2. Len(edges) \in Nat
  BY DEF TInv, TypeOK, GraphType
<1> QED
  BY <1>1, <1>2 DEF FrameType, Frame, Next1

\* Walks change only the walk, and the answer.
LEMMA WalkFrame ==
  ASSUME TInv, UNCHANGED <<kept, built>>,
         pc' \in {"idle", "reach", "tree"}, pc # "idle",
         work' \in Seq(FrameType), visited' \subseteq Functions,
         tree' \subseteq Functions \X (Functions \union {Nobody}),
         pc' = "reach" => work' # <<>>
  PROVE  TInv'
<1> USE DEF TInv, TypeOK
<1>1. EnvironmentType'
  BY DEF EnvironmentType, kept, built, fixedVars, fileVars, buildVars
<1>2. GraphType'
  BY DEF GraphType, built, graphVars, revVars, patchVars, buildVars
<1>3. QueryType'
  BY DEF QueryType, kept, FrameType
<1>4. WalkInv'
  BY DEF WalkInv, RangesInPool, kept, built, graphVars, buildVars
<1> QED
  BY <1>1, <1>2, <1>3, <1>4

\* The walks as they are.
LEMMA WalkFacts ==
  TInv => /\ work \in Seq(FrameType) /\ visited \subseteq Functions
          /\ tree \subseteq Functions \X (Functions \union {Nobody})
          /\ pc = "reach" => work # <<>>
          /\ pc # "idle" => query.from \in Functions
BY DEF TInv, TypeOK, QueryType, WalkInv, FrameType

\* The top of the recursion, and the edge it looks at.
LEMMA TopFacts ==
  TInv /\ pc = "reach" => /\ Len(work) \in Nat \ {0} /\ Top \in FrameType
                          /\ AtEdge => /\ TopEdge.callee \in Functions \union {Nobody}
                                       /\ TopEdge.type = "CALLANYTHING" \/ TopEdge.callee \in Functions
<1> SUFFICES ASSUME TInv, pc = "reach"
             PROVE  /\ Len(work) \in Nat \ {0} /\ Top \in FrameType
                    /\ AtEdge => /\ TopEdge.callee \in Functions \union {Nobody}
                                 /\ TopEdge.type = "CALLANYTHING" \/ TopEdge.callee \in Functions
  OBVIOUS
<1>1. work \in Seq(FrameType) /\ work # <<>>
  BY WalkFacts
<1>2. Len(work) \in Nat \ {0} /\ Top \in FrameType
  BY <1>1 DEF Top
<1>3. GraphType
  BY DEF TInv, TypeOK
<1>4. AtEdge => Top.at + 1 \in 1..Len(edges)
  BY <1>2, FrameFacts DEF AtEdge
<1> QED
  BY <1>2, <1>3, <1>4, EdgeFacts DEF TopEdge

\* The stack without its top.
LEMMA BelowFacts ==
  \A s \in Seq(FrameType) : Len(s) > 1 => /\ Below(s) \in Seq(FrameType)
                                          /\ Len(Below(s)) = Len(s) - 1
<1> SUFFICES ASSUME NEW s \in Seq(FrameType), Len(s) > 1
             PROVE  Below(s) \in Seq(FrameType) /\ Len(Below(s)) = Len(s) - 1
  OBVIOUS
<1>1. Len(s) \in Nat
  OBVIOUS
<1>2. \A i \in 1..Len(s) - 1 : s[i] \in FrameType
  OBVIOUS
<1> QED
  BY <1>1, <1>2 DEF Below

\* reach
LEMMA ReachTInv == TInv /\ Reach => TInv'
<1> SUFFICES ASSUME TInv, Reach PROVE TInv'
  OBVIOUS
<1>0. /\ work \in Seq(FrameType) /\ visited \subseteq Functions
      /\ tree \subseteq Functions \X (Functions \union {Nobody})
      /\ pc # "idle" => query.from \in Functions
  BY WalkFacts
<1>1. CASE ReachBegin
  <2>1. /\ UNCHANGED <<kept, built>> /\ pc' = "reach" /\ pc # "idle"
        /\ work' = <<Frame(query.from, 0)>> /\ visited' = {} /\ tree' = tree
    BY <1>1 DEF ReachBegin
  <2>2. Frame(query.from, 0) \in FrameType
    BY <1>0, <2>1, FrameFacts
  <2>3. work' \in Seq(FrameType) /\ work' # <<>>
    BY <2>1, <2>2
  <2> QED
    BY <1>0, <2>1, <2>3, WalkFrame
<1>2. CASE ReachFound
  <2>1. UNCHANGED <<kept, built, work, visited, tree>> /\ pc' = "idle" /\ pc = "reach"
    BY <1>2 DEF ReachFound, AtEdge, Reply, walkVars
  <2> QED
    BY <1>0, <2>1, WalkFrame
<1>3. CASE ReachDescend
  <2>1. /\ UNCHANGED <<kept, built, tree>> /\ pc' = pc /\ pc = "reach"
        /\ visited' = visited \union {TopEdge.callee}
        /\ work' = Append(work, Frame(TopEdge.callee, 0))
        /\ AtEdge /\ TopEdge.type # "CALLANYTHING"
    BY <1>3 DEF ReachDescend, AtEdge, Found
  <2>2. TopEdge.callee \in Functions
    BY <2>1, TopFacts
  <2>3. Frame(TopEdge.callee, 0) \in FrameType
    BY <2>2, FrameFacts
  <2>4. work' \in Seq(FrameType) /\ work' # <<>>
    BY <1>0, <2>1, <2>3
  <2> QED
    BY <1>0, <2>1, <2>2, <2>4, WalkFrame
<1>4. CASE ReachNext
  <2>1. /\ UNCHANGED <<kept, built, visited, tree>> /\ pc' = pc /\ pc = "reach"
        /\ work' = [work EXCEPT ![Len(work)] = Next1(work[Len(work)])]
    BY <1>4 DEF ReachNext, AtEdge
  <2>2. Len(work) \in Nat \ {0} /\ work[Len(work)] \in FrameType
    BY <2>1, TopFacts DEF Top
  <2>3. Next1(work[Len(work)]) \in FrameType
    BY <2>2, FrameFacts
  <2>4. work' \in Seq(FrameType) /\ work' # <<>>
    BY <1>0, <2>1, <2>2, <2>3
  <2> QED
    BY <1>0, <2>1, <2>4, WalkFrame
<1>5. CASE ReachBack
  <2>1. UNCHANGED <<kept, built, visited, tree>> /\ pc = "reach"
    BY <1>5 DEF ReachBack
  <2>2. Len(work) \in Nat \ {0}
    BY <2>1, TopFacts
  <2>3. CASE Len(work) = 1
    <3>1. pc' = "idle" /\ work' = work
      BY <1>5, <2>3 DEF ReachBack, Reply
    <3> QED
      BY <1>0, <2>1, <3>1, WalkFrame
  <2>4. CASE Len(work) # 1
    <3>1. /\ pc' = pc
          /\ work' = [Below(work) EXCEPT ![Len(work) - 1] = Next1(Below(work)[Len(work) - 1])]
      BY <1>5, <2>4 DEF ReachBack
    <3>2. /\ Below(work) \in Seq(FrameType) /\ Len(Below(work)) = Len(work) - 1
          /\ Len(work) - 1 \in 1..Len(work)
      <4>0. \A n \in Nat \ {0} : n # 1 => n > 1 /\ n - 1 \in 1..n
        OBVIOUS
      <4>1. Len(work) > 1 /\ Len(work) - 1 \in 1..Len(work)
        BY <2>2, <2>4, <4>0, Zenon
      <4> QED
        BY <1>0, <4>1, BelowFacts, Zenon
    <3>3. Below(work)[Len(work) - 1] \in FrameType
      BY <2>2, <2>4, <3>2
    <3>4. Next1(Below(work)[Len(work) - 1]) \in FrameType
      BY <3>3, FrameFacts
    <3>5. work' \in Seq(FrameType) /\ work' # <<>>
      <4> DEFINE below == Below(work)
                 n == Len(work) - 1
                 h == Next1(Below(work)[Len(work) - 1])
      <4>1. /\ below \in Seq(FrameType) /\ n = Len(below) /\ n \in Nat \ {0} /\ h \in FrameType
            /\ work' = [below EXCEPT ![n] = h]
        BY <2>2, <2>4, <3>1, <3>2, <3>4
      <4> HIDE DEF below, n, h
      <4> QED
        BY <4>1
    <3> QED
      BY <1>0, <2>1, <3>1, <3>5, WalkFrame
  <2> QED
    BY <2>3, <2>4
<1> QED
  BY <1>1, <1>2, <1>3, <1>4, <1>5 DEF Reach

\* cg
LEMMA TreeTInv == TInv /\ Tree => TInv'
<1> SUFFICES ASSUME TInv, Tree PROVE TInv'
  OBVIOUS
<1>0. /\ work \in Seq(FrameType) /\ visited \subseteq Functions
      /\ tree \subseteq Functions \X (Functions \union {Nobody})
      /\ pc # "idle" => query.from \in Functions
  BY WalkFacts
<1>1. CASE TreeBegin
  <2>1. /\ UNCHANGED <<kept, built>> /\ pc' = "tree" /\ pc # "idle"
        /\ work' = <<Frame(query.from, 0)>> /\ visited' = {query.from} /\ tree' = {}
    BY <1>1 DEF TreeBegin
  <2>2. Frame(query.from, 0) \in FrameType
    BY <1>0, <2>1, FrameFacts
  <2> QED
    BY <1>0, <2>1, <2>2, WalkFrame
<1>2. CASE TreeStep
  <2> DEFINE h == work[1]
             e == edges[h.at + 1]
             next == Frame(e.callee, h.depth + (IF IsSilent(e.callee) THEN 0 ELSE 1))
  <2>1. /\ UNCHANGED <<kept, built>> /\ pc' = pc /\ pc = "tree" /\ work # <<>>
        /\ h.at < EndOf(h.fn)
        /\ tree' = tree \/ tree' = tree \union {<<h.fn, e.callee>>}
        /\ \/ visited' = visited /\ work' = <<Next1(h)>> \o Tail(work) \o <<>>
           \/ /\ e.type # "CALLANYTHING" /\ visited' = visited \union {e.callee}
              /\ work' = <<Next1(h)>> \o Tail(work) \o <<next>>
    BY <1>2 DEF TreeStep, MayExpand
  <2>2. h \in FrameType /\ Tail(work) \in Seq(FrameType)
    BY <1>0, <2>1
  <2>3. h.at + 1 \in 1..Len(edges) /\ Next1(h) \in FrameType
    BY <2>1, <2>2, FrameFacts
  <2>4. /\ e.callee \in Functions \union {Nobody}
        /\ e.type = "CALLANYTHING" \/ e.callee \in Functions
    BY <2>3, EdgeFacts DEF TInv, TypeOK
  <2>5. e.callee \in Functions => next \in FrameType
    <3>1. h.depth + (IF IsSilent(e.callee) THEN 0 ELSE 1) \in Nat /\ h.fn \in Functions
      BY <2>2 DEF FrameType
    <3> QED
      BY <3>1, FrameFacts
  <2>6. tree' \subseteq Functions \X (Functions \union {Nobody})
    <3>1. h.fn \in Functions
      BY <2>2 DEF FrameType
    <3> QED
      BY <1>0, <2>1, <2>4, <3>1
  <2> HIDE DEF h, e, next
  <2>7. work' \in Seq(FrameType) /\ visited' \subseteq Functions
    <3>1. <<Next1(h)>> \o Tail(work) \in Seq(FrameType)
      BY <2>2, <2>3
    <3>2. CASE visited' = visited /\ work' = <<Next1(h)>> \o Tail(work) \o <<>>
      BY <1>0, <3>1, <3>2
    <3>3. CASE /\ e.type # "CALLANYTHING" /\ visited' = visited \union {e.callee}
               /\ work' = <<Next1(h)>> \o Tail(work) \o <<next>>
      <4>1. <<next>> \in Seq(FrameType) /\ e.callee \in Functions
        BY <2>4, <2>5, <3>3
      <4> QED
        BY <1>0, <3>1, <3>3, <4>1
    <3> QED
      BY <2>1, <3>2, <3>3
  <2> QED
    BY <2>1, <2>6, <2>7, WalkFrame
<1>3. CASE TreePop
  <2>1. /\ UNCHANGED <<kept, built, visited, tree>> /\ pc' = pc /\ pc = "tree"
        /\ work # <<>> /\ work' = Tail(work)
    BY <1>3 DEF TreePop
  <2>2. work' \in Seq(FrameType)
    BY <1>0, <2>1
  <2> QED
    BY <1>0, <2>1, <2>2, WalkFrame
<1>4. CASE TreeEnd
  <2>1. UNCHANGED <<kept, built, work, visited, tree>> /\ pc' = "idle" /\ pc = "tree"
    BY <1>4 DEF TreeEnd, Reply, walkVars
  <2> QED
    BY <1>0, <2>1, WalkFrame
<1> QED
  BY <1>1, <1>2, <1>3, <1>4 DEF Tree

\* A step in which nothing changes.
LEMMA StutterTInv == TInv /\ UNCHANGED vars => TInv'
<1> SUFFICES ASSUME TInv, UNCHANGED vars PROVE TInv'
  OBVIOUS
<1>1. EnvironmentType' /\ GraphType'
  BY DEF vars, fixedVars, fileVars, graphVars, revVars, patchVars, buildVars, TInv, TypeOK,
         EnvironmentType, GraphType
<1>2. QueryType' /\ WalkInv'
  BY DEF vars, graphVars, buildVars, walkVars, TInv, TypeOK, QueryType, WalkInv, RangesInPool
<1> QED
  BY <1>1, <1>2 DEF TInv, TypeOK

\* The variables keep their types, for every module, analysis and session.
THEOREM TypeCorrect == Spec => []TypeOK
<1>1. Init => TInv
  BY InitTInv
<1>2. TInv /\ [Next]_vars => TInv'
  BY EditTInv, AskTInv, BuildTInv, ReverseTInv, ReachTInv, TreeTInv, StutterTInv
     DEF Next, Serve
<1>3. TInv => TypeOK
  BY DEF TInv
<1> QED
  BY <1>1, <1>2, <1>3, PTL DEF Spec

-----------------------------------------------------------------------------
(* The forward graph. *)

\* The pool es up to base, ranged by cg, holds the calls of the functions done.
Exact(es, cg, calls, done, base) ==
  /\ DOMAIN cg \subseteq done
  /\ \A f \in done :
       calls[f] = IF f \in DOMAIN cg THEN SliceOf(es, cg[f].start, cg[f].end) ELSE {}
  /\ \A f \in DOMAIN cg :
       /\ cg[f].start \in Nat /\ cg[f].end \in Nat
       /\ cg[f].start < cg[f].end /\ cg[f].end <= base
  /\ \A i \in 1..base : /\ es[i].caller \in DOMAIN cg
                        /\ i \in cg[es[i].caller].start + 1 .. cg[es[i].caller].end

\* What comes after the base disturbs nothing.
LEMMA ExactKept ==
  ASSUME NEW T, NEW es \in Seq(T), NEW t \in Seq(T), NEW cg, NEW calls, NEW done,
         NEW base \in Nat, base <= Len(es), Exact(es, cg, calls, done, base)
  PROVE  Exact(es \o t, cg, calls, done, base)
<1> USE DEF Exact
<1>1. \A f \in DOMAIN cg :
        SliceOf(es \o t, cg[f].start, cg[f].end) = SliceOf(es, cg[f].start, cg[f].end)
  <2> TAKE f \in DOMAIN cg
  <2>1. /\ cg[f].start \in Nat /\ cg[f].end \in Nat /\ cg[f].end <= Len(es)
    BY DEF Exact
  <2> QED
    BY <2>1, SliceKept
<1>2. \A i \in 1..base : (es \o t)[i] = es[i]
  OBVIOUS
<1>3. \A f \in done :
       calls[f] = IF f \in DOMAIN cg THEN SliceOf(es \o t, cg[f].start, cg[f].end) ELSE {}
  BY <1>1
<1>4. \A i \in 1..base : /\ (es \o t)[i].caller \in DOMAIN cg
                         /\ i \in cg[(es \o t)[i].caller].start + 1 .. cg[(es \o t)[i].caller].end
  BY <1>2
<1> QED
  BY <1>3, <1>4

\* The range that BuildFunction gives a function, if it has calls.
Ranged(cg, f, start, end) ==
  IF start = end THEN cg
  ELSE [g \in DOMAIN cg \union {f} |->
          IF g = f THEN [start |-> start, end |-> end] ELSE cg[g]]

\* The edges after the base become the range of a function that had none.
LEMMA ExactAdds ==
  ASSUME NEW T, NEW es \in Seq(T), NEW cg, NEW calls, NEW done, NEW f,
         NEW base \in Nat, base <= Len(es), Exact(es, cg, calls, done, base),
         f \notin done, SliceOf(es, base, Len(es)) = calls[f],
         \A i \in base + 1 .. Len(es) : es[i].caller = f
  PROVE  Exact(es, Ranged(cg, f, base, Len(es)), calls, done \union {f}, Len(es))
<1>0. f \notin DOMAIN cg /\ Len(es) \in Nat
  BY DEF Exact
<1>1. CASE base = Len(es)
  <2>1. Ranged(cg, f, base, Len(es)) = cg
    BY <1>1 DEF Ranged
  <2>2. SliceOf(es, base, Len(es)) = {}
    BY <1>0, <1>1 DEF SliceOf
  <2>3. \A g \in done \union {f} :
          calls[g] = IF g \in DOMAIN cg THEN SliceOf(es, cg[g].start, cg[g].end) ELSE {}
    BY <1>0, <2>2 DEF Exact
  <2> QED
    BY <1>1, <2>1, <2>3 DEF Exact
<1>2. CASE base # Len(es)
  <2> DEFINE new == Ranged(cg, f, base, Len(es))
  <2>1. /\ DOMAIN new = DOMAIN cg \union {f}
        /\ new[f].start = base /\ new[f].end = Len(es)
        /\ \A g \in DOMAIN cg : new[g] = cg[g]
    BY <1>0, <1>2 DEF Ranged
  <2> HIDE DEF new
  <2>2. DOMAIN new \subseteq done \union {f}
    BY <2>1 DEF Exact
  <2>3. \A g \in done \union {f} :
          calls[g] = IF g \in DOMAIN new THEN SliceOf(es, new[g].start, new[g].end) ELSE {}
    BY <2>1 DEF Exact
  <2>4. \A g \in DOMAIN new :
       /\ new[g].start \in Nat /\ new[g].end \in Nat
       /\ new[g].start < new[g].end /\ new[g].end <= Len(es)
    BY <1>0, <1>2, <2>1 DEF Exact
  <2>5. ASSUME NEW i \in 1..Len(es)
        PROVE  /\ es[i].caller \in DOMAIN new
               /\ i \in new[es[i].caller].start + 1 .. new[es[i].caller].end
    <3>1. CASE i <= base
      <4>1. i \in 1..base
        BY <3>1
      <4> QED
        BY <2>1, <4>1 DEF Exact
    <3>2. CASE i > base
      BY <2>1, <3>2
    <3> QED
      BY <3>1, <3>2
  <2> QED
    BY <2>2, <2>3, <2>4, <2>5 DEF Exact, new
<1> QED
  BY <1>1, <1>2

\* The calls of every function, and those of the function being built so far.
CallsNow == [f \in Functions |-> Calls(f)]
Half == IF fn <= Len(Defined) THEN SiteCalls(Defined[fn], site - 1) ELSE {}

\* The functions that have their edges, and where these edges end.
Done == IF cgBuilt THEN DefinedFns ELSE {Defined[j] : j \in 1..fn - 1}
Base == IF cgBuilt THEN Len(edges) ELSE startIdx

HalfBuilt ==
  /\ fn <= Len(Defined) => site <= Len(Sites[Defined[fn]]) + 1
  /\ SliceOf(edges, startIdx, Len(edges)) = Half
  /\ \A i \in startIdx + 1 .. Len(edges) : fn <= Len(Defined) /\ edges[i].caller = Defined[fn]

\* The patch is read before the first function's edges are complete, so that
\* every function's edges are those of one patch.
ForwardInv ==
  /\ pc \in {"build", "load"} => ~cgBuilt /\ HalfBuilt
  /\ pc \notin {"idle", "build", "load"} => cgBuilt
  /\ pc = "load" => fn = 1
  /\ pc = "build" /\ fn > 1 => cgPatchLoaded
  /\ cgBuilt \/ pc \in {"build", "load"} => Exact(edges, CG, CallsNow, Done, Base)

\* The calls of the sites change with the verdicts only, which never do.
LEMMA SiteCallsFrame ==
  UNCHANGED analysis => /\ \A f, n : SiteCalls(f, n)' = SiteCalls(f, n)
                        /\ UNCHANGED <<fn, site>> => Half' = Half
<1> SUFFICES ASSUME UNCHANGED analysis
             PROVE  /\ \A f, n : SiteCalls(f, n)' = SiteCalls(f, n)
                    /\ UNCHANGED <<fn, site>> => Half' = Half
  OBVIOUS
<1>1. \A f, k : SiteEdges(f, k)' = SiteEdges(f, k)
  BY DEF SiteEdges
<1>2. \A f, k : In(SiteEdges(f, k))' = In(SiteEdges(f, k))
  BY <1>1, Zenon DEF In
<1>3. \A f, n : SiteCalls(f, n)' = SiteCalls(f, n)
  BY <1>2, Zenon DEF SiteCalls
<1> QED
  BY <1>3, Zenon DEF Half

\* A function's calls change with the patch, too.
LEMMA CallsStay == UNCHANGED <<analysis, cgPatchOut>> => \A f : Calls(f)' = Calls(f)
<1> SUFFICES ASSUME UNCHANGED <<analysis, cgPatchOut>> PROVE \A f : Calls(f)' = Calls(f)
  OBVIOUS
<1>1. \A f : PatchEdges(f)' = PatchEdges(f)
  BY DEF PatchEdges
<1>2. \A f : In(PatchEdges(f))' = In(PatchEdges(f))
  BY <1>1, Zenon DEF In
<1>3. \A f, n : SiteCalls(f, n)' = SiteCalls(f, n)
  BY SiteCallsFrame
<1> QED
  BY <1>2, <1>3, Zenon DEF Calls

\* As a function of all functions.
LEMMA CallsFrame == UNCHANGED <<analysis, cgPatchOut>> => CallsNow' = CallsNow
BY CallsStay, Zenon DEF CallsNow

\* Nothing of a function is built before its first call site.
LEMMA NoHalf == site' = 1 => Half' = {}
<1> SUFFICES ASSUME site' = 1 PROVE Half' = {}
  OBVIOUS
<1>1. \A f : SiteCalls(f, 0)' = {}
  BY DEF SiteCalls
<1>2. site' - 1 = 0
  OBVIOUS
<1> QED
  BY <1>1, <1>2, Zenon DEF Half

\* All new edges are edges of the one caller.
LEMMA CallersGrow ==
  ASSUME NEW T, NEW s \in Seq(T), NEW t \in Seq(T), NEW a \in Nat, NEW f, a <= Len(s),
         \A i \in a + 1 .. Len(s) : s[i].caller = f,
         \A i \in 1..Len(t) : t[i].caller = f
  PROVE  \A i \in a + 1 .. Len(s \o t) : (s \o t)[i].caller = f
<1> DEFINE u == s \o t
<1>1. /\ Len(u) = Len(s) + Len(t) /\ Len(s) \in Nat /\ Len(t) \in Nat
      /\ \A i \in 1..Len(s) : u[i] = s[i]
      /\ \A i \in Len(s) + 1 .. Len(u) : u[i] = t[i - Len(s)]
  OBVIOUS
<1> HIDE DEF u
<1>2. ASSUME NEW i \in a + 1 .. Len(u) PROVE u[i].caller = f
  <2>1. CASE i <= Len(s)
    BY <1>1, <2>1
  <2>2. CASE i > Len(s)
    <3>1. i \in Len(s) + 1 .. Len(u) /\ i - Len(s) \in 1..Len(t)
      BY <1>1, <2>2
    <3> QED
      BY <1>1, <3>1
  <2> QED
    BY <1>1, <2>1, <2>2
<1> QED
  BY <1>2 DEF u

\* Serving from a built graph, and answering without one.
LEMMA ForwardFrame ==
  ASSUME ForwardInv, UNCHANGED <<analysis, cgPatchOut, cgBuilt, CG, edges>>,
         pc' \notin {"build", "load"}, cgBuilt \/ pc' = "idle"
  PROVE  ForwardInv'
<1>1. CallsNow' = CallsNow
  BY CallsFrame
<1>2. cgBuilt => Done' = Done /\ Base' = Base
  BY DEF Done, Base
<1> QED
  BY <1>1, <1>2 DEF ForwardInv

\* While the first function is built, the patch may change: no edge depends on it yet.
LEMMA FirstFrame ==
  ASSUME ForwardInv, fn = 1, ~cgBuilt, HalfBuilt, pc \in {"build", "load"},
         UNCHANGED <<analysis, cgBuilt, CG, edges, fn, site, startIdx>>,
         pc' \in {"idle", "build", "load"}
  PROVE  ForwardInv'
<1>1. Done = {} /\ Done' = {} /\ Base' = Base
  BY DEF Done, Base
<1>2. Exact(edges, CG, CallsNow, {}, Base)
  BY <1>1 DEF ForwardInv
<1>3. Exact(edges, CG, CallsNow, Done, Base)'
  BY <1>1, <1>2 DEF Exact
<1>4. Half' = Half
  BY SiteCallsFrame
<1> QED
  BY <1>3, <1>4 DEF ForwardInv, HalfBuilt

\* Before the first function.
LEMMA ForwardBegins ==
  ASSUME TypeOK', ~cgBuilt', CG' = <<>>, edges' = <<>>, fn' = 1, site' = 1, startIdx' = 0,
         pc' = "build"
  PROVE  ForwardInv'
<1>1. Done' = {} /\ Base' = 0
  BY DEF Done, Base
<1>2. Exact(edges, CG, CallsNow, Done, Base)'
  BY <1>1, Empty DEF Exact
<1>3. HalfBuilt'
  <2>1. Half' = {}
    BY NoHalf
  <2>2. SliceOf(edges, startIdx, Len(edges))' = {}
    BY DEF SliceOf
  <2>3. fn' <= Len(Defined) => 1 <= Len(Sites[Defined[fn']]) + 1
    BY CallGraphAssumption
  <2> QED
    BY <2>1, <2>2, <2>3 DEF HalfBuilt
<1> QED
  BY <1>2, <1>3 DEF ForwardInv

\* Nobody has asked for a graph yet.
LEMMA ForwardInit == Init => ForwardInv
BY DEF Init, ForwardInv

\* The steps that do not build.
LEMMA ForwardRest ==
  TypeOK' /\ ForwardInv /\ (EditFile \/ Ask \/ Reverse \/ Reach \/ Tree) => ForwardInv'
<1> SUFFICES ASSUME TypeOK', ForwardInv, EditFile \/ Ask \/ Reverse \/ Reach \/ Tree
             PROVE  ForwardInv'
  OBVIOUS
<1>1. CASE EditFile
  <2>1. UNCHANGED <<analysis, cgPatchOut, cgPatchLoaded, cgBuilt, CG, edges, fn, site, startIdx, pc>>
    BY <1>1 DEF EditFile, built, fixedVars, graphVars, patchVars, buildVars
  <2>2. CallsNow' = CallsNow /\ Half' = Half
    BY <2>1, CallsFrame, SiteCallsFrame
  <2> QED
    BY <2>1, <2>2 DEF ForwardInv, HalfBuilt, Done, Base
<1>2. ASSUME NEW f \in AskedFrom, NEW g \in AskedTo, CGPatch(f, g) PROVE ForwardInv'
  BY <1>2, ForwardFrame DEF CGPatch, Reply, fixedVars, graphVars, patchVars
<1>3. CASE CGReload
  BY <1>3 DEF CGReload, Reply, ForwardInv
<1>4. CASE ToggleSilence
  BY <1>4, ForwardFrame DEF ToggleSilence, Reply, fixedVars, graphVars, patchVars
<1>5. ASSUME NEW q \in Questions, AskGraph(q) PROVE ForwardInv'
  <2>1. CASE cgBuilt
    BY <1>5, <2>1, ForwardFrame DEF AskGraph, fixedVars, patchVars
  <2>2. CASE ~cgBuilt
    BY <1>5, <2>2, ForwardBegins DEF AskGraph, Take
  <2> QED
    BY <2>1, <2>2
<1>6. CASE Reverse
  <2>1. /\ pc \in {"answer", "reverse"} /\ pc' \in {"idle", "answer", "reverse"}
        /\ UNCHANGED <<analysis, cgPatchOut, cgBuilt, CG, edges>>
    BY <1>6 DEF Reverse, AnswerOut, ReverseBegin, ReverseStep, ReverseEnd, AnswerIn, Reply,
                kept, built, fixedVars, graphVars, patchVars
  <2> QED
    BY <2>1, ForwardFrame DEF ForwardInv
<1>7. CASE Reach
  <2>1. /\ pc \in {"answer", "reach"} /\ pc' \in {"idle", "reach"}
        /\ UNCHANGED <<analysis, cgPatchOut, cgBuilt, CG, edges>>
    BY <1>7 DEF Reach, ReachBegin, ReachFound, ReachDescend, ReachNext, ReachBack, AtEdge, Reply,
                kept, built, fixedVars, graphVars, patchVars
  <2> QED
    BY <2>1, ForwardFrame DEF ForwardInv
<1>8. CASE Tree
  <2>1. /\ pc \in {"answer", "tree"} /\ pc' \in {"idle", "tree"}
        /\ UNCHANGED <<analysis, cgPatchOut, cgBuilt, CG, edges>>
    BY <1>8 DEF Tree, TreeBegin, TreeStep, TreePop, TreeEnd, Reply,
                kept, built, fixedVars, graphVars, patchVars
  <2> QED
    BY <2>1, ForwardFrame DEF ForwardInv
<1> QED
  BY <1>1, <1>2, <1>3, <1>4, <1>5, <1>6, <1>7, <1>8 DEF Ask

\* What a call site or the patch adds to the function being built.
LEMMA HalfGrows ==
  ASSUME NEW f \in DefinedFns, site \in Nat \ {0}
  PROVE  SiteCalls(f, site) = SiteCalls(f, site - 1) \union In(SiteEdges(f, site))
<1>1. 1..site = (1..site - 1) \union {site}
  OBVIOUS
<1> QED
  BY <1>1 DEF SiteCalls

\* The loops of buildCG and loadCGPatch.
LEMMA ForwardBuild == TInv /\ ForwardInv /\ Build => ForwardInv'
<1> SUFFICES ASSUME TInv, ForwardInv, Build PROVE ForwardInv'
  OBVIOUS
<1>0. /\ edges \in Seq(EdgeType) /\ Len(edges) \in Nat
      /\ fn \in 1..Len(Defined) + 1 /\ site \in Nat \ {0} /\ startIdx \in Nat
      /\ analysis \in Analyses /\ cgPatchOut \in [Functions -> Seq(Functions)]
      /\ pc \in {"build", "load"} => startIdx <= Len(edges)
      /\ Len(Defined) \in Nat
  BY Constants DEF TInv, TypeOK, GraphType, EnvironmentType, WalkInv
<1>1. ASSUME NEW f \in DefinedFns, BuildSite(f) PROVE ForwardInv'
  <2>1. /\ pc = "build" /\ fn <= Len(Defined) /\ f = Defined[fn] /\ site <= Len(Sites[f])
        /\ UNCHANGED <<analysis, cgPatchOut, cgPatchLoaded, cgBuilt, CG, fn, startIdx>>
        /\ ~cgBuilt /\ HalfBuilt
    BY <1>1 DEF BuildSite, Building, kept, fixedVars, patchVars, ForwardInv
  <2>2. CASE Throws(f, site)
    BY <1>1, <2>1, <2>2, ForwardFrame DEF BuildSite, Throw, Reply
  <2>3. CASE ~Throws(f, site)
    <3>1. edges' = edges \o SiteEdges(f, site) /\ site' = site + 1 /\ pc' = pc
      BY <1>1, <2>3 DEF BuildSite
    <3>2. site \in 1..Len(Sites[f])
      BY <1>0, <2>1, CallGraphAssumption
    <3>3. /\ SiteEdges(f, site) \in Seq(EdgeType)
          /\ \A i \in 1..Len(SiteEdges(f, site)) : SiteEdges(f, site)[i].caller = f
      BY <1>0, <3>2, SiteEdgesType
    <3>4. CallsNow' = CallsNow /\ Done' = Done /\ Base' = Base
      BY <2>1, CallsFrame DEF Done, Base
    <3>5. Exact(edges', CG, CallsNow, Done, Base)
      <4>1. Exact(edges, CG, CallsNow, Done, Base) /\ Base \in Nat /\ Base <= Len(edges)
        BY <1>0, <2>1 DEF ForwardInv, Base
      <4> QED
        BY <1>0, <3>1, <3>3, <4>1, ExactKept
    <3>6. HalfBuilt'
      <4>1. site' <= Len(Sites[Defined[fn]]) + 1
        BY <2>1, <3>1, <3>2, CallGraphAssumption
      <4>2. SliceOf(edges', startIdx, Len(edges')) = Half'
        <5>1. SliceOf(edges', startIdx, Len(edges')) = Half \union In(SiteEdges(f, site))
          <6>1. startIdx \in Nat /\ startIdx <= Len(edges) /\ SliceOf(edges, startIdx, Len(edges)) = Half
            BY <1>0, <2>1 DEF HalfBuilt
          <6>2. SliceOf(edges \o SiteEdges(f, site), startIdx, Len(edges \o SiteEdges(f, site)))
                  = SliceOf(edges, startIdx, Len(edges)) \union In(SiteEdges(f, site))
            BY <1>0, <3>3, <6>1, SliceGrows
          <6> QED
            BY <3>1, <6>1, <6>2
        <5>2. Half = SiteCalls(f, site - 1)
          BY <2>1 DEF Half
        <5>3. Half' = SiteCalls(f, site)
          <6>1. \A g, n : SiteCalls(g, n)' = SiteCalls(g, n)
            BY <2>1, SiteCallsFrame
          <6>2. site' - 1 = site
            BY <1>0, <3>1
          <6> QED
            BY <2>1, <6>1, <6>2, Zenon DEF Half
        <5> QED
          BY <1>0, <5>1, <5>2, <5>3, HalfGrows
      <4>3. \A i \in startIdx + 1 .. Len(edges') : edges'[i].caller = Defined[fn]
        <5>1. /\ startIdx \in Nat /\ startIdx <= Len(edges)
              /\ \A i \in startIdx + 1 .. Len(edges) : edges[i].caller = f
          BY <1>0, <2>1 DEF HalfBuilt
        <5>2. \A i \in startIdx + 1 .. Len(edges \o SiteEdges(f, site)) :
                (edges \o SiteEdges(f, site))[i].caller = f
          BY <1>0, <3>3, <5>1, CallersGrow
        <5> QED
          BY <2>1, <3>1, <5>2
      <4> QED
        BY <2>1, <4>1, <4>2, <4>3 DEF HalfBuilt
    <3> QED
      BY <2>1, <3>1, <3>4, <3>5, <3>6 DEF ForwardInv
  <2> QED
    BY <2>2, <2>3
<1>2. ASSUME NEW f \in DefinedFns, OpenPatch(f) PROVE ForwardInv'
  <2>1. /\ pc = "build" /\ ~cgPatchLoaded /\ fn = 1 /\ ~cgBuilt /\ HalfBuilt
        /\ UNCHANGED <<analysis, cgBuilt, CG, edges, fn, site, startIdx>>
        /\ pc' \in {"idle", "build", "load"}
    BY <1>0, <1>2 DEF OpenPatch, Building, kept, fixedVars, graphVars, ForwardInv, Throw, Reply
  <2> QED
    BY <2>1, FirstFrame DEF ForwardInv
<1>3. CASE SkipBlank \/ LoadPair \/ LoadEnd
  <2>1. /\ pc = "load" /\ fn = 1 /\ ~cgBuilt /\ HalfBuilt
        /\ UNCHANGED <<analysis, cgBuilt, CG, edges, fn, site, startIdx>>
        /\ pc' \in {"idle", "build", "load"}
    BY <1>3 DEF SkipBlank, LoadPair, LoadEnd, kept, fixedVars, graphVars, buildVars, ForwardInv,
                Throw, Reply
  <2> QED
    BY <2>1, FirstFrame DEF ForwardInv
<1>4. ASSUME NEW f \in DefinedFns, BuildFunction(f) PROVE ForwardInv'
  <2>1. /\ pc = "build" /\ fn <= Len(Defined) /\ f = Defined[fn] /\ site > Len(Sites[f])
        /\ UNCHANGED <<analysis, cgPatchOut, cgPatchLoaded, cgBuilt, pc>>
        /\ ~cgBuilt /\ HalfBuilt /\ cgPatchLoaded
        /\ edges' = edges \o PatchEdges(f)
        /\ fn' = fn + 1 /\ site' = 1 /\ startIdx' = Len(edges')
        /\ CG' = Ranged(CG, f, startIdx, Len(edges'))
    BY <1>4 DEF BuildFunction, Building, kept, fixedVars, patchVars, ForwardInv, Ranged
  <2>2. /\ PatchEdges(f) \in Seq(EdgeType)
        /\ \A i \in 1..Len(PatchEdges(f)) : PatchEdges(f)[i].caller = f
    BY <1>0, PatchEdgesType
  <2>3. edges' \in Seq(EdgeType) /\ Len(edges') \in Nat /\ Len(edges) <= Len(edges')
    BY <1>0, <2>1, <2>2
  <2>4. SliceOf(edges', startIdx, Len(edges')) = CallsNow[f]
    <3>1. SliceOf(edges', startIdx, Len(edges')) = Half \union In(PatchEdges(f))
      <4>1. SliceOf(edges, startIdx, Len(edges)) = Half
        BY <2>1 DEF HalfBuilt
      <4>2. startIdx \in Nat /\ startIdx <= Len(edges)
        BY <1>0, <2>1
      <4>3. edges \in Seq(EdgeType) /\ PatchEdges(f) \in Seq(EdgeType)
        BY <1>0, <2>2
      <4>4. SliceOf(edges \o PatchEdges(f), startIdx, Len(edges \o PatchEdges(f)))
              = SliceOf(edges, startIdx, Len(edges)) \union In(PatchEdges(f))
        BY <4>2, <4>3, SliceGrows
      <4> QED
        BY <2>1, <4>1, <4>4
    <3>2. site - 1 = Len(Sites[f])
      <4>1. Len(Sites[f]) \in Nat /\ site <= Len(Sites[f]) + 1
        BY <2>1, CallGraphAssumption DEF HalfBuilt
      <4>2. \A m, n \in Nat : m > n /\ m <= n + 1 => m - 1 = n
        OBVIOUS
      <4>3. site \in Nat /\ site > Len(Sites[f])
        BY <1>0, <2>1
      <4> QED
        BY <4>1, <4>2, <4>3, Zenon
    <3>3. Half = SiteCalls(f, Len(Sites[f]))
      BY <2>1, <3>2, Zenon DEF Half
    <3>4. CallsNow[f] = SiteCalls(f, Len(Sites[f])) \union In(PatchEdges(f))
      BY DEF CallsNow, Calls, Functions
    <3> QED
      BY <3>1, <3>3, <3>4
  <2>5. \A i \in startIdx + 1 .. Len(edges') : edges'[i].caller = f
    <3>1. startIdx \in Nat /\ startIdx <= Len(edges) /\ \A i \in startIdx + 1 .. Len(edges) : edges[i].caller = f
      BY <1>0, <2>1 DEF HalfBuilt
    <3>2. edges \in Seq(EdgeType) /\ PatchEdges(f) \in Seq(EdgeType)
      BY <1>0, <2>2
    <3>3. \A i \in startIdx + 1 .. Len(edges \o PatchEdges(f)) : (edges \o PatchEdges(f))[i].caller = f
      BY <2>2, <3>1, <3>2, CallersGrow
    <3> QED
      BY <2>1, <3>3
  <2>6. f \notin Done
    <3>1. \A j \in 1..fn - 1 : Defined[j] # Defined[fn]
      <4>1. \A j \in 1..fn - 1 : j # fn /\ j \in 1..Len(Defined) /\ fn \in 1..Len(Defined)
        BY <1>0, <2>1
      <4> QED
        BY <4>1, CallGraphAssumption
    <3> QED
      BY <2>1, <3>1, Zenon DEF Done
  <2>7. Done' = Done \union {f} /\ Base' = Len(edges') /\ Base = startIdx
    <3>1. 1..fn' - 1 = (1..fn - 1) \union {fn}
      BY <1>0, <2>1
    <3> QED
      BY <2>1, <3>1 DEF Done, Base
  <2>8. Exact(edges', CG', CallsNow, Done', Base')
    <3>1. Exact(edges, CG, CallsNow, Done, startIdx) /\ startIdx <= Len(edges)
      BY <1>0, <2>1, <2>7 DEF ForwardInv
    <3>2. Exact(edges', CG, CallsNow, Done, startIdx) /\ startIdx <= Len(edges')
      BY <1>0, <2>1, <2>2, <2>3, <3>1, ExactKept
    <3>3. Exact(edges', Ranged(CG, f, startIdx, Len(edges')), CallsNow, Done \union {f}, Len(edges'))
      BY <1>0, <2>3, <2>4, <2>5, <2>6, <3>2, ExactAdds
    <3> QED
      BY <2>1, <2>7, <3>3
  <2>9. HalfBuilt'
    <3>1. SliceOf(edges', startIdx', Len(edges')) = {}
      <4>1. \A n \in Nat : n + 1 .. n = {}
        OBVIOUS
      <4>2. startIdx' + 1 .. Len(edges') = {}
        BY <2>1, <2>3, <4>1, Zenon
      <4> QED
        BY <4>2 DEF SliceOf
    <3>2. Half' = {}
      BY <2>1, NoHalf
    <3>3. fn' <= Len(Defined) => site' <= Len(Sites[Defined[fn']]) + 1
      BY <1>0, <2>1, CallGraphAssumption
    <3> QED
      BY <2>1, <2>3, <3>1, <3>2, <3>3 DEF HalfBuilt
  <2>10. CallsNow' = CallsNow
    BY <2>1, CallsFrame
  <2> QED
    BY <1>0, <2>1, <2>8, <2>9, <2>10 DEF ForwardInv
<1>5. CASE BuildEnd
  <2>1. /\ pc = "build" /\ fn > Len(Defined) /\ cgBuilt' /\ pc' = "answer" /\ ~cgBuilt /\ HalfBuilt
        /\ UNCHANGED <<analysis, cgPatchOut, CG, edges>>
    BY <1>5 DEF BuildEnd, kept, fixedVars, patchVars, ForwardInv
  <2>2. fn - 1 = Len(Defined) /\ fn \notin 1..Len(Defined)
    BY <1>0, <2>1
  <2>3. Done' = Done
    BY <2>1, <2>2 DEF Done, DefinedFns
  <2>4. Base' = Base
    BY <1>0, <2>1 DEF HalfBuilt, Base
  <2> QED
    BY <2>1, <2>3, <2>4, CallsFrame DEF ForwardInv
<1> QED
  BY <1>1, <1>2, <1>3, <1>4, <1>5 DEF Build

\* What the invariant says of a built graph.
LEMMA ForwardInvExact == TInv /\ ForwardInv => ForwardExact
<1> SUFFICES ASSUME TInv, ForwardInv, cgBuilt PROVE ForwardExact
  BY DEF ForwardExact
<1>1. Exact(edges, CG, CallsNow, DefinedFns, Len(edges)) /\ Len(edges) \in Nat
  BY DEF ForwardInv, Done, Base, TInv, TypeOK, GraphType
<1>2. ASSUME NEW f \in Functions PROVE Slice(StartOf(f), EndOf(f)) = Calls(f)
  <2>1. CASE f \in DOMAIN CG
    <3>1. f \in DefinedFns /\ CallsNow[f] = SliceOf(edges, CG[f].start, CG[f].end)
      BY <1>1, <2>1 DEF Exact
    <3> QED
      BY <2>1, <3>1 DEF CallsNow, StartOf, EndOf, Slice, SliceOf
  <2>2. CASE f \notin DOMAIN CG
    <3>1. Slice(StartOf(f), EndOf(f)) = {}
      BY <2>2 DEF StartOf, EndOf, Slice
    <3>2. f \in DefinedFns => CallsNow[f] = {}
      BY <1>1, <2>2 DEF Exact
    <3>3. Calls(f) = {}
      BY <3>2 DEF CallsNow, Calls
    <3> QED
      BY <3>1, <3>3
  <2> QED
    BY <2>1, <2>2
<1> QED
  BY <1>1, <1>2 DEF ForwardExact, Exact

-----------------------------------------------------------------------------
(* The reverse graph. *)

\* The edges of the pool es among the first n that lead to g.
CallsUpTo(es, g, n) == {i \in 1..n : es[i].callee = g}

\* A list has these edges, each once.
Lists(es, s, g, n) ==
  /\ In(s) = {es[i] : i \in CallsUpTo(es, g, n)}
  /\ Len(s) = Cardinality(CallsUpTo(es, g, n))

\* How many edges have been turned round.
Turned == IF revBuilt THEN Len(edges) ELSE IF pc = "reverse" THEN at - 1 ELSE 0

ReverseInv ==
  /\ revBuilt => cgBuilt
  /\ pc = "reverse" => ~revBuilt /\ cgBuilt /\ at <= Len(edges) + 1
  /\ \A g \in Functions : Lists(edges, revCG[g], g, Turned)
  /\ Lists(edges, callAnything, Nobody, Turned)

\* Of no edge, only the empty list is the list.
LEMMA NoneListed ==
  \A es, g : /\ Lists(es, <<>>, g, 0)
             /\ \A other, s : Lists(other, s, g, 0) => Lists(es, s, g, 0)
<1>1. \A es, g : CallsUpTo(es, g, 0) = {}
  BY DEF CallsUpTo
<1>2. In(<<>>) = {}
  BY DEF In
<1> QED
  BY <1>1, <1>2, FS_EmptySet, Empty DEF Lists

\* One edge more is listed if it leads there.
LEMMA OneListed ==
  ASSUME NEW es \in Seq(EdgeType), NEW n \in Nat \ {0}, n <= Len(es), NEW g,
         NEW s \in Seq(EdgeType), Lists(es, s, g, n - 1)
  PROVE  /\ es[n].callee # g => Lists(es, s, g, n)
         /\ es[n].callee = g => Lists(es, Append(s, es[n]), g, n)
<1>1. CASE es[n].callee # g
  <2>1. CallsUpTo(es, g, n) = CallsUpTo(es, g, n - 1)
    BY <1>1 DEF CallsUpTo
  <2> QED
    BY <1>1, <2>1 DEF Lists
<1>2. CASE es[n].callee = g
  <2> DEFINE before == CallsUpTo(es, g, n - 1)
  <2>1. CallsUpTo(es, g, n) = before \union {n} /\ n \notin before
    BY <1>2 DEF CallsUpTo
  <2>2. IsFiniteSet(before)
    <3>1. IsFiniteSet(1..n - 1) /\ before \subseteq 1..n - 1
      BY FS_Interval DEF CallsUpTo
    <3> QED
      BY <3>1, FS_Subset
  <2>3. Cardinality(CallsUpTo(es, g, n)) = Cardinality(before) + 1
    BY <2>1, <2>2, FS_AddElement
  <2>4. es[n] \in EdgeType
    OBVIOUS
  <2>5. Len(Append(s, es[n])) = Len(s) + 1
    BY <2>4
  <2>6. In(Append(s, es[n])) = In(s) \union {es[n]}
    <3>1. /\ \A i \in 1..Len(s) : Append(s, es[n])[i] = s[i]
          /\ Append(s, es[n])[Len(s) + 1] = es[n]
          /\ 1..Len(Append(s, es[n])) = (1..Len(s)) \union {Len(s) + 1}
      BY <2>4
    <3> QED
      BY <3>1 DEF In
  <2>7. {es[i] : i \in CallsUpTo(es, g, n)} = {es[i] : i \in before} \union {es[n]}
    BY <2>1
  <2> HIDE DEF before
  <2> QED
    BY <1>2, <2>3, <2>5, <2>6, <2>7 DEF Lists, before
<1> QED
  BY <1>1, <1>2

\* The pool, the lists and what is turned round stay.
LEMMA ListsFrame ==
  ASSUME ReverseInv, UNCHANGED <<cgBuilt, edges, revBuilt, revCG, callAnything>>,
         Turned' = Turned,
         pc' = "reverse" => ~revBuilt /\ cgBuilt /\ at' <= Len(edges) + 1
  PROVE  ReverseInv'
BY DEF ReverseInv

\* Nothing was turned round, and nothing is: whatever becomes of the pool.
LEMMA NothingTurned ==
  ASSUME ReverseInv, ~revBuilt, UNCHANGED <<revBuilt, revCG, callAnything>>,
         pc # "reverse", pc' # "reverse"
  PROVE  ReverseInv'
<1>1. Turned = 0 /\ Turned' = 0
  BY DEF Turned
<1> QED
  BY <1>1, NoneListed DEF ReverseInv

\* The reverse graph is not touched.
LEMMA ReverseFrame ==
  ASSUME ReverseInv, UNCHANGED <<cgBuilt, edges, revBuilt, revCG, callAnything>>,
         pc # "reverse", pc' # "reverse"
  PROVE  ReverseInv'
<1>1. Turned' = Turned
  BY DEF Turned
<1> QED
  BY <1>1, ListsFrame

\* Nothing is turned round at the start, nor after a reload.
LEMMA ReverseBlank ==
  /\ Init => ReverseInv
  /\ CGReload => ReverseInv'
<1>1. \A g \in Functions : NoPatch[g] = <<>>
  BY DEF NoPatch
<1>2. ASSUME Init PROVE ReverseInv
  <2>1. Turned = 0 /\ revCG = NoPatch /\ callAnything = <<>> /\ ~revBuilt /\ pc # "reverse"
    BY <1>2 DEF Init, Turned
  <2> QED
    BY <1>1, <2>1, NoneListed DEF ReverseInv
<1>3. ASSUME CGReload PROVE ReverseInv'
  <2>1. Turned' = 0 /\ revCG' = NoPatch /\ callAnything' = <<>> /\ ~revBuilt' /\ pc' # "reverse"
    BY <1>3 DEF CGReload, Reply, Turned
  <2> QED
    BY <1>1, <2>1, NoneListed DEF ReverseInv
<1> QED
  BY <1>2, <1>3

\* One turn of buildReverseCG.
LEMMA ReverseStepInv == TInv /\ ReverseInv /\ ReverseStep => ReverseInv'
<1> SUFFICES ASSUME TInv, ReverseInv, ReverseStep PROVE ReverseInv'
  OBVIOUS
<1>1. /\ GraphType /\ edges \in Seq(EdgeType) /\ Len(edges) \in Nat
      /\ revCG \in [Functions -> Seq(EdgeType)] /\ callAnything \in Seq(EdgeType)
      /\ at \in Nat \ {0}
  BY DEF TInv, TypeOK, GraphType
<1>2. /\ pc = "reverse" /\ pc' = "reverse" /\ at <= Len(edges) /\ at' = at + 1
      /\ ~revBuilt /\ cgBuilt /\ UNCHANGED <<edges, revBuilt, cgBuilt>>
  BY DEF ReverseStep, ReverseInv, graphVars
<1>3. Turned = at - 1 /\ Turned' = at
  BY <1>1, <1>2 DEF Turned
<1>4. /\ \A g \in Functions : Lists(edges, revCG[g], g, at - 1)
      /\ Lists(edges, callAnything, Nobody, at - 1)
  BY <1>3 DEF ReverseInv
<1>5. \A g : \A s \in Seq(EdgeType) : Lists(edges, s, g, at - 1) =>
        /\ edges[at].callee # g => Lists(edges, s, g, at)
        /\ edges[at].callee = g => Lists(edges, Append(s, edges[at]), g, at)
  BY <1>1, <1>2, OneListed
<1>6. /\ edges[at].callee \in Functions \union {Nobody}
      /\ edges[at].type = "CALLANYTHING" <=> edges[at].callee = Nobody
  BY <1>1, <1>2, EdgeFacts
<1>7. /\ \A g \in Functions : Lists(edges, revCG'[g], g, at)
      /\ Lists(edges, callAnything', Nobody, at)
  <2>1. CASE edges[at].type = "CALLANYTHING"
    <3>1. callAnything' = Append(callAnything, edges[at]) /\ revCG' = revCG
      BY <2>1 DEF ReverseStep
    <3>2. edges[at].callee = Nobody /\ \A g \in Functions : edges[at].callee # g
      BY <1>6, <2>1, Constants
    <3> QED
      BY <1>1, <1>4, <1>5, <3>1, <3>2
  <2>2. CASE edges[at].type # "CALLANYTHING"
    <3>1. /\ callAnything' = callAnything
          /\ revCG' = [revCG EXCEPT ![edges[at].callee] = Append(@, edges[at])]
      BY <2>2 DEF ReverseStep
    <3>2. edges[at].callee # Nobody /\ edges[at].callee \in Functions
      BY <1>6, <2>2
    <3>3. /\ revCG'[edges[at].callee] = Append(revCG[edges[at].callee], edges[at])
          /\ \A g \in Functions : g # edges[at].callee => revCG'[g] = revCG[g]
      BY <1>1, <3>1, <3>2
    <3>4. ASSUME NEW g \in Functions PROVE Lists(edges, revCG'[g], g, at)
      BY <1>1, <1>4, <1>5, <3>3
    <3> QED
      BY <1>1, <1>4, <1>5, <3>1, <3>2, <3>4
  <2> QED
    BY <2>1, <2>2
<1> QED
  BY <1>1, <1>2, <1>3, <1>7 DEF ReverseInv

\* The other steps: they turn nothing round, and nobody builds under a reverse graph.
LEMMA ReverseRest == TInv /\ ForwardInv /\ ReverseInv /\ Next => ReverseInv'
<1> SUFFICES ASSUME TInv, ForwardInv, ReverseInv, Next PROVE ReverseInv'
  OBVIOUS
<1>1. CASE EditFile
  <2>1. UNCHANGED <<cgBuilt, edges, revBuilt, revCG, callAnything, pc, at>>
    BY <1>1 DEF EditFile, built, graphVars, revVars
  <2>2. Turned' = Turned
    BY <2>1 DEF Turned
  <2> QED
    BY <2>1, <2>2 DEF ReverseInv
<1>2. CASE Ask
  <2>1. ASSUME NEW f \in AskedFrom, NEW g \in AskedTo, CGPatch(f, g) PROVE ReverseInv'
    <3>1. /\ UNCHANGED <<cgBuilt, edges, revBuilt, revCG, callAnything>>
          /\ pc = "idle" /\ pc' = "idle"
      BY <2>1 DEF CGPatch, Take, Reply, graphVars, revVars
    <3> QED
      BY <3>1, ReverseFrame
  <2>2. CASE CGReload
    BY <2>2, ReverseBlank
  <2>3. CASE ToggleSilence
    <3>1. /\ UNCHANGED <<cgBuilt, edges, revBuilt, revCG, callAnything>>
          /\ pc = "idle" /\ pc' = "idle"
      BY <2>3 DEF ToggleSilence, Take, Reply, graphVars, revVars
    <3> QED
      BY <3>1, ReverseFrame
  <2>4. ASSUME NEW q \in Questions, AskGraph(q) PROVE ReverseInv'
    <3>1. /\ UNCHANGED <<cgBuilt, revBuilt, revCG, callAnything>>
          /\ pc = "idle" /\ pc' \in {"answer", "build"}
          /\ cgBuilt => edges' = edges
      BY <2>4 DEF AskGraph, Take, revVars
    <3>2. CASE cgBuilt
      BY <3>1, <3>2, ReverseFrame
    <3>3. CASE ~cgBuilt
      <4>1. ~revBuilt
        BY <3>3 DEF ReverseInv
      <4> QED
        BY <3>1, <4>1, NothingTurned
    <3> QED
      BY <3>2, <3>3
  <2> QED
    BY <1>2, <2>1, <2>2, <2>3, <2>4 DEF Ask
<1>3. CASE Build
  <2>1. /\ pc \in {"build", "load"} /\ pc' # "reverse"
        /\ UNCHANGED <<revBuilt, revCG, callAnything>>
    BY <1>3 DEF Build, BuildSite, OpenPatch, SkipBlank, LoadPair, LoadEnd, BuildFunction, BuildEnd,
                Building, Throw, Reply, revVars
  <2>2. ~revBuilt
    BY <2>1 DEF ForwardInv, ReverseInv
  <2> QED
    BY <2>1, <2>2, NothingTurned
<1>4. CASE Reverse
  <2>1. CASE AnswerOut \/ AnswerIn
    <3>1. /\ UNCHANGED <<cgBuilt, edges, revBuilt, revCG, callAnything>>
          /\ pc # "reverse" /\ pc' # "reverse"
      BY <2>1 DEF AnswerOut, AnswerIn, Reply, built, graphVars, revVars
    <3> QED
      BY <3>1, ReverseFrame
  <2>2. CASE ReverseBegin
    <3>1. /\ UNCHANGED <<cgBuilt, edges, revBuilt, revCG, callAnything>>
          /\ pc = "answer" /\ pc' = "reverse" /\ at' = 1 /\ ~revBuilt /\ cgBuilt
      BY <2>2 DEF ReverseBegin, graphVars, revVars, ForwardInv
    <3>2. Turned' = Turned
      BY <3>1 DEF Turned
    <3>3. at' <= Len(edges) + 1
      BY <3>1 DEF TInv, TypeOK, GraphType
    <3> QED
      BY <3>1, <3>2, <3>3, ListsFrame
  <2>3. CASE ReverseStep
    BY <2>3, ReverseStepInv
  <2>4. CASE ReverseEnd
    <3>1. /\ UNCHANGED <<cgBuilt, edges, revCG, callAnything>>
          /\ pc = "reverse" /\ pc' = "answer" /\ at > Len(edges) /\ revBuilt'
          /\ ~revBuilt /\ cgBuilt /\ at <= Len(edges) + 1
      BY <2>4 DEF ReverseEnd, graphVars, ReverseInv
    <3>2. at - 1 = Len(edges)
      <4>1. at \in Nat /\ Len(edges) \in Nat
        BY DEF TInv, TypeOK, GraphType
      <4> QED
        BY <3>1, <4>1
    <3>3. Turned' = Turned
      BY <3>1, <3>2 DEF Turned
    <3> QED
      BY <3>1, <3>3 DEF ReverseInv
  <2> QED
    BY <1>4, <2>1, <2>2, <2>3, <2>4 DEF Reverse
<1>5. CASE Reach \/ Tree
  <2>1. /\ pc \in {"answer", "reach", "tree"} /\ pc' \in {"idle", "reach", "tree"}
        /\ UNCHANGED <<cgBuilt, edges, revBuilt, revCG, callAnything>>
    BY <1>5 DEF Reach, ReachBegin, ReachFound, ReachDescend, ReachNext, ReachBack, AtEdge, Reply,
                Tree, TreeBegin, TreeStep, TreePop, TreeEnd, built, graphVars, revVars
  <2> QED
    BY <2>1, ReverseFrame
<1> QED
  BY <1>1, <1>2, <1>3, <1>4, <1>5 DEF Next, Serve

\* What the invariant says of a reverse graph.
LEMMA ReverseInvExact == TInv /\ ReverseInv => ReverseExact
<1> SUFFICES ASSUME TInv, ReverseInv, revBuilt PROVE ReverseExact
  BY DEF ReverseExact
<1>1. Turned = Len(edges)
  BY DEF Turned
<1>2. \A g : CallsUpTo(edges, g, Len(edges)) = CallsTo(g)
  BY DEF CallsUpTo, CallsTo
<1> QED
  BY <1>1, <1>2 DEF ReverseInv, ReverseExact, Lists

\* The invariant of the graph.
GraphInv == TInv /\ ForwardInv /\ ReverseInv

\* It is one.
LEMMA GraphInvHolds == Spec => []GraphInv
<1> USE DEF GraphInv
<1>1. Init => GraphInv
  BY InitTInv, ForwardInit, ReverseBlank
<1>2. GraphInv /\ [Next]_vars => GraphInv'
  <2> SUFFICES ASSUME GraphInv, [Next]_vars PROVE GraphInv'
    OBVIOUS
  <2>1. TInv'
    BY EditTInv, AskTInv, BuildTInv, ReverseTInv, ReachTInv, TreeTInv, StutterTInv
       DEF Next, Serve
  <2>2. CASE Next
    <3>1. ForwardInv'
      BY <2>1, <2>2, ForwardRest, ForwardBuild DEF Next, Serve, TInv
    <3>2. ReverseInv'
      BY <2>2, ReverseRest
    <3> QED
      BY <2>1, <3>1, <3>2
  <2>3. CASE UNCHANGED vars
    <3>1. UNCHANGED <<analysis, cgPatchOut, cgPatchLoaded, cgBuilt, CG, edges, fn, site, startIdx,
                      pc, revBuilt, revCG, callAnything, at>>
      BY <2>3 DEF vars, fixedVars, graphVars, revVars, patchVars, buildVars
    <3>2. CallsNow' = CallsNow /\ Half' = Half
      BY <3>1, CallsFrame, SiteCallsFrame
    <3>3. ForwardInv'
      BY <3>1, <3>2 DEF ForwardInv, HalfBuilt, Done, Base
    <3>4. ReverseInv'
      BY <3>1 DEF ReverseInv, Turned
    <3> QED
      BY <2>1, <3>3, <3>4
  <2> QED
    BY <2>2, <2>3
<1> QED
  BY <1>1, <1>2, PTL DEF Spec

(***************************************************************************)
(* In every session -- with builds that fail, patches that cannot be read, *)
(* reloads and other people's changes of the file -- a graph that counts   *)
(* as built has each function's calls, all and only these, and the reverse *)
(* graph lists each edge once, at its callee or with the unknown calls.    *)
(***************************************************************************)
THEOREM GraphCorrect == Spec => []GraphExact
<1>1. GraphInv => GraphExact
  BY ForwardInvExact, ReverseInvExact DEF GraphInv, GraphExact
<1> QED
  BY <1>1, GraphInvHolds, PTL

-----------------------------------------------------------------------------
(* The search of reach.  es: the pool; lo, hi: the functions' ranges; q:   *)
(* the query; vis: the functions visited; stack: the recursion's frames.   *)

\* The search need not look at the edge again.
Passable(q, vis, e) ==
  IF e.type = "CALLANYTHING" THEN q.ignore ELSE e.callee # q.to /\ e.callee \in vis

\* A frame of f has not gone past its edge k.
Pending(stack, f, k) == \E i \in 1..Len(stack) : stack[i].fn = f /\ k > stack[i].at

\* The edge that the frame is at leads to the function g, which is not the target.
LeadsTo(es, hi, q, frame, g) ==
  /\ frame.at < hi[frame.fn]
  /\ es[frame.at + 1].type # "CALLANYTHING"
  /\ es[frame.at + 1].callee = g /\ g # q.to

\* The frames are a chain of calls from q.from, within the functions' ranges.
Chain(es, lo, hi, q, vis, stack) ==
  /\ stack[1].fn = q.from
  /\ \A i \in 1..Len(stack) : lo[stack[i].fn] <= stack[i].at
  /\ \A i \in 2..Len(stack) : stack[i].fn \in vis
  /\ \A i \in 1..Len(stack) - 1 : LeadsTo(es, hi, q, stack[i], stack[i + 1].fn)

\* Whatever edge of a visited function is behind all its frames can be passed over.
Explored(es, lo, hi, q, vis, stack) ==
  \A f \in vis \union {q.from} : \A k \in lo[f] + 1 .. hi[f] :
     Passable(q, vis, es[k]) \/ Pending(stack, f, k)

SearchOK(es, lo, hi, q, vis, stack) ==
  Chain(es, lo, hi, q, vis, stack) /\ Explored(es, lo, hi, q, vis, stack)

\* The search begins.
LEMMA SearchBegins ==
  ASSUME NEW es, NEW lo \in [Functions -> Nat], NEW hi \in [Functions -> Nat],
         NEW q, q.from \in Functions, NEW frame \in FrameType,
         frame.fn = q.from, frame.at = lo[q.from]
  PROVE  SearchOK(es, lo, hi, q, {}, <<frame>>)
<1>1. Chain(es, lo, hi, q, {}, <<frame>>)
  BY DEF Chain
<1>2. \A k \in lo[q.from] + 1 .. hi[q.from] : Pending(<<frame>>, q.from, k)
  <2> SUFFICES ASSUME NEW k \in lo[q.from] + 1 .. hi[q.from] PROVE Pending(<<frame>>, q.from, k)
    OBVIOUS
  <2>1. 1 \in 1..Len(<<frame>>) /\ <<frame>>[1] = frame /\ k > frame.at
    OBVIOUS
  <2> QED
    BY <2>1 DEF Pending
<1> QED
  BY <1>1, <1>2 DEF SearchOK, Explored

\* It goes down a call.
LEMMA SearchDescends ==
  ASSUME NEW es, NEW lo \in [Functions -> Nat], NEW hi \in [Functions -> Nat],
         NEW q, NEW vis \in SUBSET Functions, NEW stack \in Seq(FrameType), Len(stack) >= 1,
         q.from \in Functions,
         SearchOK(es, lo, hi, q, vis, stack),
         NEW frame \in FrameType, frame.at = lo[frame.fn],
         LeadsTo(es, hi, q, stack[Len(stack)], frame.fn)
  PROVE  SearchOK(es, lo, hi, q, vis \union {frame.fn}, Append(stack, frame))
<1> DEFINE down == Append(stack, frame)
           more == vis \union {frame.fn}
<1>0. /\ Len(stack) \in Nat /\ Len(down) = Len(stack) + 1 /\ down[Len(stack) + 1] = frame
      /\ \A i \in 1..Len(stack) : down[i] = stack[i]
  OBVIOUS
<1>1. Chain(es, lo, hi, q, more, down)
  <2>0. Chain(es, lo, hi, q, vis, stack)
    BY DEF SearchOK
  <2>1. down[1].fn = q.from
    BY <1>0, <2>0 DEF Chain
  <2>2. \A i \in 1..Len(down) : lo[down[i].fn] <= down[i].at
    <3> SUFFICES ASSUME NEW i \in 1..Len(down) PROVE lo[down[i].fn] <= down[i].at
      OBVIOUS
    <3>1. CASE i \in 1..Len(stack)
      BY <1>0, <2>0, <3>1 DEF Chain
    <3>2. CASE i = Len(stack) + 1
      <4>1. lo[frame.fn] \in Nat
        BY DEF FrameType
      <4> QED
        BY <1>0, <3>2, <4>1
    <3> QED
      BY <1>0, <3>1, <3>2
  <2>3. \A i \in 2..Len(down) : down[i].fn \in more
    <3> SUFFICES ASSUME NEW i \in 2..Len(down) PROVE down[i].fn \in more
      OBVIOUS
    <3>1. CASE i \in 2..Len(stack)
      BY <1>0, <2>0, <3>1 DEF Chain
    <3>2. CASE i = Len(stack) + 1
      BY <1>0, <3>2
    <3> QED
      BY <1>0, <3>1, <3>2
  <2>4. \A i \in 1..Len(down) - 1 : LeadsTo(es, hi, q, down[i], down[i + 1].fn)
    <3> SUFFICES ASSUME NEW i \in 1..Len(down) - 1
                 PROVE LeadsTo(es, hi, q, down[i], down[i + 1].fn)
      OBVIOUS
    <3>1. CASE i \in 1..Len(stack) - 1
      <4>1. i \in 1..Len(stack) /\ i + 1 \in 1..Len(stack)
        BY <1>0, <3>1
      <4>2. down[i] = stack[i] /\ down[i + 1] = stack[i + 1]
        BY <1>0, <4>1
      <4> QED
        BY <2>0, <3>1, <4>2 DEF Chain
    <3>2. CASE i = Len(stack)
      BY <1>0, <3>2
    <3> QED
      BY <1>0, <3>1, <3>2
  <2> HIDE DEF down, more
  <2> QED
    BY <2>1, <2>2, <2>3, <2>4 DEF Chain
<1>2. Explored(es, lo, hi, q, more, down)
  <2>1. ASSUME NEW e, Passable(q, vis, e) PROVE Passable(q, more, e)
    BY <2>1 DEF Passable
  <2>2. ASSUME NEW f, NEW k, Pending(stack, f, k) PROVE Pending(down, f, k)
    <3>1. PICK i \in 1..Len(stack) : stack[i].fn = f /\ k > stack[i].at
      BY <2>2 DEF Pending
    <3>2. i \in 1..Len(down) /\ down[i] = stack[i]
      BY <1>0
    <3> HIDE DEF down
    <3> QED
      BY <3>1, <3>2 DEF Pending
  <2>3. ASSUME NEW k \in lo[frame.fn] + 1 .. hi[frame.fn] PROVE Pending(down, frame.fn, k)
    <3>1. Len(stack) + 1 \in 1..Len(down) /\ down[Len(stack) + 1] = frame
      BY <1>0
    <3>2. k > frame.at
      <4>1. lo[frame.fn] \in Nat
        BY DEF FrameType
      <4> QED
        BY <2>3, <4>1
    <3> HIDE DEF down
    <3> QED
      BY <3>1, <3>2 DEF Pending
  <2>4. Explored(es, lo, hi, q, vis, stack)
    BY DEF SearchOK
  <2> SUFFICES ASSUME NEW f \in more \union {q.from}, NEW k \in lo[f] + 1 .. hi[f]
               PROVE  Passable(q, more, es[k]) \/ Pending(down, f, k)
    BY DEF Explored
  <2>5. CASE f = frame.fn
    BY <2>3, <2>5
  <2>6. CASE f \in vis \union {q.from}
    <3>1. Passable(q, vis, es[k]) \/ Pending(stack, f, k)
      BY <2>4, <2>6 DEF Explored
    <3> HIDE DEF down, more
    <3> QED
      BY <2>1, <2>2, <3>1
  <2> QED
    BY <2>5, <2>6
<1> QED
  BY <1>1, <1>2 DEF SearchOK

\* It goes past an edge that can be passed over.
LEMMA SearchAdvances ==
  ASSUME NEW es, NEW lo \in [Functions -> Nat], NEW hi \in [Functions -> Nat],
         NEW q, NEW vis \in SUBSET Functions, NEW stack \in Seq(FrameType), Len(stack) >= 1,
         q.from \in Functions,
         SearchOK(es, lo, hi, q, vis, stack),
         Passable(q, vis, es[stack[Len(stack)].at + 1])
  PROVE  SearchOK(es, lo, hi, q, vis,
                  [stack EXCEPT ![Len(stack)] = Next1(stack[Len(stack)])])
<1> DEFINE n == Len(stack)
           top == stack[n]
           on == [stack EXCEPT ![n] = Next1(top)]
<1>0. /\ n \in Nat /\ n \in 1..n /\ top \in FrameType
      /\ Len(on) = n /\ \A i \in 1..n : i # n => on[i] = stack[i]
      /\ on[n] = Next1(top)
  OBVIOUS
<1>1. Next1(top).fn = top.fn /\ Next1(top).at = top.at + 1 /\ top.at \in Nat
      /\ top.fn \in Functions
  BY <1>0 DEF Next1, FrameType
<1>2. \A i \in 1..n : on[i].fn = stack[i].fn
  BY <1>0, <1>1
<1> HIDE DEF on, top
<1>3. Chain(es, lo, hi, q, vis, on)
  <2>0. Chain(es, lo, hi, q, vis, stack)
    BY DEF SearchOK
  <2>1. on[1].fn = q.from
    BY <1>0, <1>2, <2>0 DEF Chain
  <2>2. \A i \in 1..Len(on) : lo[on[i].fn] <= on[i].at
    <3> SUFFICES ASSUME NEW i \in 1..n PROVE lo[on[i].fn] <= on[i].at
      BY <1>0
    <3>1. lo[stack[i].fn] <= stack[i].at
      BY <2>0 DEF Chain
    <3>2. CASE i = n
      <4>1. lo[top.fn] \in Nat /\ lo[top.fn] <= top.at
        BY <1>1, <3>1, <3>2 DEF top
      <4> QED
        BY <1>0, <1>1, <3>2, <4>1
    <3>3. CASE i # n
      BY <1>0, <3>1, <3>3
    <3> QED
      BY <3>2, <3>3
  <2>3. \A i \in 2..Len(on) : on[i].fn \in vis
    BY <1>0, <1>2, <2>0 DEF Chain
  <2>4. \A i \in 1..Len(on) - 1 : LeadsTo(es, hi, q, on[i], on[i + 1].fn)
    <3> SUFFICES ASSUME NEW i \in 1..n - 1 PROVE LeadsTo(es, hi, q, on[i], on[i + 1].fn)
      BY <1>0
    <3>1. i \in 1..n /\ i # n /\ i + 1 \in 1..n
      BY <1>0
    <3>2. on[i] = stack[i] /\ on[i + 1].fn = stack[i + 1].fn
      BY <1>0, <1>2, <3>1
    <3>3. LeadsTo(es, hi, q, stack[i], stack[i + 1].fn)
      BY <2>0 DEF Chain
    <3> QED
      BY <3>2, <3>3
  <2> QED
    BY <2>1, <2>2, <2>3, <2>4 DEF Chain
<1>4. Explored(es, lo, hi, q, vis, on)
  <2>4. Explored(es, lo, hi, q, vis, stack)
    BY DEF SearchOK
  <2> SUFFICES ASSUME NEW f \in vis \union {q.from}, NEW k \in lo[f] + 1 .. hi[f],
                      ~Passable(q, vis, es[k])
               PROVE  Pending(on, f, k)
    BY DEF Explored
  <2>1. PICK i \in 1..n : stack[i].fn = f /\ k > stack[i].at
    BY <2>4 DEF Explored, Pending
  <2>2. k # top.at + 1
    BY DEF top
  <2>3. k > on[i].at
    <3>1. k \in Int
      <4>1. f \in Functions
        OBVIOUS
      <4>2. lo[f] \in Nat /\ hi[f] \in Nat
        BY <4>1
      <4> QED
        BY <4>2
    <3>2. CASE i = n
      BY <1>0, <1>1, <2>1, <2>2, <3>1, <3>2 DEF top
    <3>3. CASE i # n
      BY <1>0, <2>1, <3>3
    <3> QED
      BY <3>2, <3>3
  <2> QED
    BY <1>0, <1>2, <2>1, <2>3 DEF Pending
<1> QED
  BY <1>3, <1>4 DEF SearchOK, on, top

\* It comes back from a function to the call that led there.
LEMMA SearchReturns ==
  ASSUME NEW es, NEW lo \in [Functions -> Nat], NEW hi \in [Functions -> Nat],
         NEW q, NEW vis \in SUBSET Functions, NEW stack \in Seq(FrameType), Len(stack) > 1,
         q.from \in Functions,
         SearchOK(es, lo, hi, q, vis, stack),
         stack[Len(stack)].at >= hi[stack[Len(stack)].fn]
  PROVE  /\ SearchOK(es, lo, hi, q, vis, Below(stack))
         /\ Below(stack) \in Seq(FrameType) /\ Len(Below(stack)) = Len(stack) - 1
         /\ Passable(q, vis, es[Below(stack)[Len(stack) - 1].at + 1])
<1> DEFINE n == Len(stack)
           below == Below(stack)
<1>0. /\ n \in Nat /\ n \in 1..n /\ n - 1 \in 1..n
      /\ below \in Seq(FrameType) /\ Len(below) = n - 1
      /\ \A i \in 1..n - 1 : below[i] = stack[i]
  BY DEF Below
<1>1. Chain(es, lo, hi, q, vis, stack) /\ Explored(es, lo, hi, q, vis, stack)
  BY DEF SearchOK
<1> HIDE DEF below
<1>2. Chain(es, lo, hi, q, vis, below)
  <2>1. below[1].fn = q.from
    BY <1>0, <1>1 DEF Chain
  <2>2. \A i \in 1..Len(below) : lo[below[i].fn] <= below[i].at
    <3>1. \A i \in 1..n - 1 : i \in 1..n
      BY <1>0
    <3> QED
      BY <1>0, <1>1, <3>1 DEF Chain
  <2>3. \A i \in 2..Len(below) : below[i].fn \in vis
    <3>1. \A i \in 2..n - 1 : i \in 2..n /\ i \in 1..n - 1
      BY <1>0
    <3> QED
      BY <1>0, <1>1, <3>1 DEF Chain
  <2>4. \A i \in 1..Len(below) - 1 : LeadsTo(es, hi, q, below[i], below[i + 1].fn)
    <3> SUFFICES ASSUME NEW i \in 1..Len(below) - 1
                 PROVE  LeadsTo(es, hi, q, below[i], below[i + 1].fn)
      OBVIOUS
    <3>1. i \in 1..n - 1 /\ i + 1 \in 1..n - 1
      BY <1>0
    <3>2. below[i] = stack[i] /\ below[i + 1] = stack[i + 1]
      BY <1>0, <3>1
    <3>3. LeadsTo(es, hi, q, stack[i], stack[i + 1].fn)
      BY <1>1, <3>1 DEF Chain
    <3> QED
      BY <3>2, <3>3
  <2> QED
    BY <2>1, <2>2, <2>3, <2>4 DEF Chain
<1>3. Explored(es, lo, hi, q, vis, below)
  <2> SUFFICES ASSUME NEW f \in vis \union {q.from}, NEW k \in lo[f] + 1 .. hi[f],
                      ~Passable(q, vis, es[k])
               PROVE  Pending(below, f, k)
    BY DEF Explored
  <2>1. PICK i \in 1..n : stack[i].fn = f /\ k > stack[i].at
    BY <1>1 DEF Explored, Pending
  <2>2. i # n
    <3> SUFFICES ASSUME i = n PROVE FALSE
      OBVIOUS
    <3>1. f \in Functions /\ stack[n] \in FrameType
      BY <1>0
    <3>2. hi[f] \in Nat /\ lo[f] \in Nat /\ stack[n].at \in Nat
      BY <3>1 DEF FrameType
    <3>3. k <= hi[f] /\ k > stack[n].at /\ stack[n].at >= hi[f] /\ k \in Int
      BY <2>1, <3>2
    <3> QED
      BY <3>2, <3>3
  <2>3. i \in 1..n - 1
    BY <1>0, <2>2
  <2> QED
    BY <1>0, <2>1, <2>3 DEF Pending
<1>4. Passable(q, vis, es[below[n - 1].at + 1])
  <2>1. n - 1 \in 1..n - 1 /\ n \in 2..n /\ (n - 1) + 1 = n
    BY <1>0
  <2>2. LeadsTo(es, hi, q, stack[n - 1], stack[n].fn) /\ stack[n].fn \in vis
    BY <1>0, <1>1, <2>1 DEF Chain
  <2> QED
    BY <1>0, <2>1, <2>2 DEF LeadsTo, Passable
<1> QED
  BY <1>0, <1>2, <1>3, <1>4 DEF SearchOK, below

\* The elements of a stack.
LEMMA Elements == \A s \in Seq(FrameType) : \A i \in 1..Len(s) : s[i] \in FrameType
OBVIOUS

\* It is over: every edge of every visited function can be passed over.
LEMMA SearchEnds ==
  ASSUME NEW es, NEW lo \in [Functions -> Nat], NEW hi \in [Functions -> Nat],
         NEW q, NEW vis \in SUBSET Functions, NEW stack \in Seq(FrameType), Len(stack) = 1,
         q.from \in Functions,
         SearchOK(es, lo, hi, q, vis, stack), stack[1].at >= hi[stack[1].fn],
         NEW f \in vis \union {q.from}, NEW k \in lo[f] + 1 .. hi[f]
  PROVE  Passable(q, vis, es[k])
<1> SUFFICES ASSUME Pending(stack, f, k) PROVE FALSE
  BY DEF SearchOK, Explored
<1>1. stack[1].fn = f /\ k > stack[1].at
  BY DEF Pending
<1>2. f \in Functions /\ stack[1] \in FrameType
  <2>1. f \in Functions
    OBVIOUS
  <2>2. 1 \in 1..Len(stack)
    OBVIOUS
  <2> QED
    BY <2>1, <2>2, Elements, Zenon
<1>3. hi[f] \in Nat /\ lo[f] \in Nat /\ stack[1].at \in Nat
  BY <1>2 DEF FrameType
<1>4. k <= hi[f] /\ k \in Int
  BY <1>3
<1> QED
  BY <1>1, <1>3, <1>4

-----------------------------------------------------------------------------
(* The search on the program's variables. *)

Lo == [f \in Functions |-> StartOf(f)]
Hi == [f \in Functions |-> EndOf(f)]

ReachInv ==
  /\ pc = "reach" => query.kind = "reach" /\ SearchOK(edges, Lo, Hi, query, visited, work)
  /\ pc = "tree" => query.kind = "cg"
  /\ ReachExact

\* The ranges, and that they hold the calls.
LEMMA Ranges ==
  ASSUME GraphInv
  PROVE  /\ Lo \in [Functions -> Nat] /\ Hi \in [Functions -> Nat]
         /\ \A f \in Functions : Lo[f] = StartOf(f) /\ Hi[f] = EndOf(f)
         /\ \A f \in Functions : \A k \in Lo[f] + 1 .. Hi[f] :
              /\ edges[k] \in EdgeType
              /\ edges[k].type = "CALLANYTHING" \/ edges[k].callee \in Functions
         /\ cgBuilt => \A f \in Functions : Calls(f) = {edges[k] : k \in Lo[f] + 1 .. Hi[f]}
<1>0. GraphType /\ RangesInPool /\ Len(edges) \in Nat
  BY DEF GraphInv, TInv, TypeOK, WalkInv, GraphType
<1>1. \A f \in Functions : /\ StartOf(f) \in Nat /\ EndOf(f) \in Nat
                            /\ EndOf(f) <= Len(edges)
  BY <1>0 DEF GraphType, RangesInPool, StartOf, EndOf
<1>2. \A f \in Functions : Lo[f] = StartOf(f) /\ Hi[f] = EndOf(f)
  BY DEF Lo, Hi
<1>3. Lo \in [Functions -> Nat] /\ Hi \in [Functions -> Nat]
  BY <1>1 DEF Lo, Hi
<1>4. ASSUME NEW f \in Functions, NEW k \in Lo[f] + 1 .. Hi[f]
      PROVE  /\ edges[k] \in EdgeType
             /\ edges[k].type = "CALLANYTHING" \/ edges[k].callee \in Functions
  <2>1. k \in 1..Len(edges)
    <3>1. Lo[f] \in Nat /\ Hi[f] \in Nat /\ Hi[f] <= Len(edges)
      BY <1>1, <1>2
    <3> QED
      BY <1>0, <3>1
  <2> QED
    BY <1>0, <2>1, EdgeFacts
<1>5. ASSUME cgBuilt, NEW f \in Functions
      PROVE  Calls(f) = {edges[k] : k \in Lo[f] + 1 .. Hi[f]}
  <2>1. ForwardExact
    BY ForwardInvExact DEF GraphInv
  <2>2. Slice(StartOf(f), EndOf(f)) = Calls(f)
    BY <1>5, <2>1 DEF ForwardExact
  <2> QED
    BY <1>2, <2>2 DEF Slice
<1> QED
  BY <1>2, <1>3, <1>4, <1>5

\* A call of f has f as its caller.
LEMMA CallerIs ==
  ASSUME TInv, NEW f \in Functions, NEW e \in Calls(f)
  PROVE  e.caller = f /\ f \in DefinedFns
<1>1. f \in DefinedFns /\ e \in SiteCalls(f, Len(Sites[f])) \union In(PatchEdges(f))
  BY DEF Calls
<1>2. CASE e \in SiteCalls(f, Len(Sites[f]))
  <2>1. PICK k \in 1..Len(Sites[f]) : e \in In(SiteEdges(f, k))
    BY <1>2 DEF SiteCalls
  <2>2. \A i \in 1..Len(SiteEdges(f, k)) : SiteEdges(f, k)[i].caller = f
    BY <1>1, SiteEdgesType DEF TInv, TypeOK, EnvironmentType
  <2> QED
    BY <1>1, <2>1, <2>2 DEF In
<1>3. CASE e \in In(PatchEdges(f))
  <2>1. \A i \in 1..Len(PatchEdges(f)) : PatchEdges(f)[i].caller = f
    BY <1>1, PatchEdgesType DEF TInv, TypeOK, GraphType
  <2> QED
    BY <1>1, <1>3, <2>1 DEF In
<1> QED
  BY <1>1, <1>2, <1>3

\* What a search needs to know of the state.
LEMMA SearchFacts ==
  ASSUME GraphInv, ReachInv, pc = "reach"
  PROVE  /\ work \in Seq(FrameType) /\ Len(work) \in Nat \ {0} /\ Top \in FrameType
         /\ Top = work[Len(work)] /\ Top.fn \in Functions
         /\ visited \in SUBSET Functions /\ query.from \in Functions
         /\ query.kind = "reach" /\ cgBuilt
         /\ Lo \in [Functions -> Nat] /\ Hi \in [Functions -> Nat]
         /\ SearchOK(edges, Lo, Hi, query, visited, work)
<1>1. work \in Seq(FrameType) /\ visited \subseteq Functions /\ query.from \in Functions /\ work # <<>>
  BY WalkFacts DEF GraphInv, TInv, WalkInv
<1>2. Len(work) \in Nat \ {0}
  BY <1>1
<1>3. Top = work[Len(work)] /\ Top \in FrameType
  BY <1>1, <1>2 DEF Top
<1>4. Top.fn \in Functions
  BY <1>3 DEF FrameType
<1> QED
  BY <1>1, <1>2, <1>3, <1>4, Ranges DEF ReachInv, GraphInv, ForwardInv

\* A path that is found is one.
LEMMA FoundIsPath == GraphInv /\ ReachInv /\ ReachFound => ReachInv'
<1> SUFFICES ASSUME GraphInv, ReachInv, ReachFound PROVE ReachInv'
  OBVIOUS
<1> DEFINE p == [i \in 1..Len(work) |-> edges[work[i].at + 1]]
<1>1. /\ AtEdge /\ ~Ignored /\ Found /\ pc = "reach" /\ pc' = "idle"
      /\ answer' = Answer("ok", p, {})
      /\ UNCHANGED <<query, analysis, cgPatchOut>>
  BY DEF ReachFound, AtEdge, Reply, kept, built, fixedVars, patchVars
<1>2. \A f \in Functions : Calls(f)' = Calls(f)
  BY <1>1, CallsStay
<1>3. /\ work \in Seq(FrameType) /\ Len(work) \in Nat \ {0} /\ Top = work[Len(work)] /\ cgBuilt
      /\ Chain(edges, Lo, Hi, query, visited, work) /\ query.from \in Functions
  BY <1>1, SearchFacts DEF SearchOK
<1>4. Len(p) = Len(work) /\ \A i \in 1..Len(work) : p[i] = edges[work[i].at + 1]
  BY <1>3
<1> HIDE DEF p
<1>5. ASSUME NEW i \in 1..Len(work)
      PROVE  p[i] \in Calls(work[i].fn) /\ work[i].fn \in Functions /\ p[i].caller = work[i].fn
  <2>1. work[i] \in FrameType
    BY <1>3
  <2>2. work[i].fn \in Functions /\ work[i].at \in Nat
    BY <2>1 DEF FrameType
  <2>3. work[i].at < Hi[work[i].fn]
    <3>1. CASE i = Len(work)
      <4>1. Top = work[i] /\ Hi[Top.fn] = EndOf(Top.fn)
        BY <1>3, <2>2, <3>1, Ranges
      <4> QED
        BY <1>1, <4>1 DEF AtEdge
    <3>2. CASE i # Len(work)
      <4>1. i \in 1..Len(work) - 1
        BY <1>3, <3>2
      <4> QED
        BY <1>3, <4>1 DEF Chain, LeadsTo
    <3> QED
      BY <3>1, <3>2
  <2>4. Lo[work[i].fn] <= work[i].at
    BY <1>3 DEF Chain
  <2>5. work[i].at + 1 \in Lo[work[i].fn] + 1 .. Hi[work[i].fn]
    <3>1. Lo[work[i].fn] \in Nat /\ Hi[work[i].fn] \in Nat
      BY <2>2, Ranges
    <3> QED
      BY <2>2, <2>3, <2>4, <3>1
  <2>6. p[i] \in Calls(work[i].fn)
    BY <1>3, <1>4, <2>2, <2>5, Ranges
  <2> QED
    BY <2>2, <2>6, CallerIs DEF GraphInv
<1>6. /\ p[1].caller = query.from
      /\ \A i \in 1..Len(p) : p[i] \in Calls(p[i].caller) /\ p[i].caller \in Functions
  <2>1. 1 \in 1..Len(work) /\ work[1].fn = query.from
    BY <1>3 DEF Chain
  <2> QED
    BY <1>4, <1>5, <2>1
<1>7. \A i \in 1..Len(p) - 1 : p[i].callee = p[i + 1].caller
  <2> SUFFICES ASSUME NEW i \in 1..Len(work) - 1 PROVE p[i].callee = p[i + 1].caller
    BY <1>4
  <2>1. i \in 1..Len(work) /\ i + 1 \in 1..Len(work)
    BY <1>3
  <2>2. edges[work[i].at + 1].callee = work[i + 1].fn
    BY <1>3 DEF Chain, LeadsTo
  <2> QED
    BY <1>4, <1>5, <2>1, <2>2
<1>8. LET last == p[Len(p)] IN
      last.callee = query.to \/ (last.type = "CALLANYTHING" /\ ~query.ignore)
  <2>1. p[Len(p)] = TopEdge
    BY <1>3, <1>4 DEF TopEdge
  <2> QED
    BY <1>1, <2>1 DEF Found, Ignored
<1>9. IsPath(answer.edges)'
  <2>1. answer'.edges = p
    BY <1>1 DEF Answer
  <2> QED
    BY <1>1, <1>2, <1>6, <1>7, <1>8, <2>1 DEF IsPath
<1>10. answer'.edges # <<>>
  BY <1>1, <1>3, <1>4 DEF Answer
<1> QED
  BY <1>1, <1>9, <1>10 DEF ReachInv, ReachExact

\* "No path" is right, too: what was visited is closed.
LEMMA NoPathIsProved ==
  GraphInv /\ ReachInv /\ ReachBack /\ Len(work) = 1 => ReachInv'
<1> SUFFICES ASSUME GraphInv, ReachInv, ReachBack, Len(work) = 1 PROVE ReachInv'
  OBVIOUS
<1>1. /\ Top.at >= EndOf(Top.fn) /\ pc = "reach" /\ pc' = "idle"
      /\ answer' = Answer("ok", <<>>, {})
      /\ UNCHANGED <<query, analysis, cgPatchOut, visited>>
  BY DEF ReachBack, Reply, kept, built, fixedVars, patchVars
<1>2. \A f \in Functions : Calls(f)' = Calls(f)
  BY <1>1, CallsStay
<1>3. /\ work \in Seq(FrameType) /\ Top = work[1] /\ Top.fn \in Functions
      /\ cgBuilt /\ visited \in SUBSET Functions /\ query.from \in Functions
      /\ Lo \in [Functions -> Nat] /\ Hi \in [Functions -> Nat]
      /\ SearchOK(edges, Lo, Hi, query, visited, work)
  BY <1>1, SearchFacts
<1>4. work[1].at >= Hi[work[1].fn]
  BY <1>1, <1>3, Ranges
<1>5. ASSUME NEW f \in visited \union {query.from}, NEW e \in Calls(f)
      PROVE  IF e.type = "CALLANYTHING" THEN query.ignore
             ELSE e.callee # query.to /\ e.callee \in visited \union {query.from}
  <2>1. f \in Functions
    BY <1>3
  <2>2. PICK k \in Lo[f] + 1 .. Hi[f] : e = edges[k]
    BY <1>3, <2>1, Ranges
  <2>3. Passable(query, visited, edges[k])
    BY <1>3, <1>4, SearchEnds
  <2> QED
    BY <2>2, <2>3 DEF Passable
<1>6. IsClosed(visited \union {query.from})'
  <2>1. \A f \in visited \union {query.from} : Calls(f)' = Calls(f)
    BY <1>2, <1>3
  <2> QED
    BY <1>1, <1>5, <2>1 DEF IsClosed
<1>7. answer'.edges = <<>>
  BY <1>1 DEF Answer
<1> QED
  BY <1>1, <1>6, <1>7 DEF ReachInv, ReachExact

\* A step of the search.
LEMMA ReachSteps == GraphInv /\ ReachInv /\ Reach => ReachInv'
<1> SUFFICES ASSUME GraphInv, ReachInv, Reach PROVE ReachInv'
  OBVIOUS
<1>0. ASSUME UNCHANGED <<built, query>>, pc' = "reach", query.kind = "reach",
             SearchOK(edges, Lo, Hi, query, visited', work')
      PROVE  ReachInv'
  <2>1. edges' = edges /\ CG' = CG
    BY <1>0 DEF built, graphVars
  <2>2. Lo' = Lo /\ Hi' = Hi
    BY <2>1 DEF Lo, Hi, StartOf, EndOf
  <2>3. SearchOK(edges, Lo, Hi, query, visited, work)'
    BY <1>0, <2>1, <2>2
  <2> QED
    BY <1>0, <2>3 DEF ReachInv, ReachExact, Answered, Idle
<1>1. CASE ReachBegin
  <2>1. /\ UNCHANGED <<built, query>> /\ pc = "answer" /\ pc' = "reach" /\ query.kind = "reach"
        /\ work' = <<Frame(query.from, 0)>> /\ visited' = {}
    BY <1>1 DEF ReachBegin, kept
  <2>2. query.from \in Functions
    BY <2>1 DEF GraphInv, TInv, WalkInv
  <2>3. /\ Frame(query.from, 0) \in FrameType /\ Frame(query.from, 0).fn = query.from
        /\ Frame(query.from, 0).at = Lo[query.from]
    <3>1. Lo[query.from] = StartOf(query.from)
      BY <2>2, Ranges
    <3>2. Frame(query.from, 0) \in FrameType
      BY <2>2, FrameFacts DEF GraphInv, TInv, TypeOK
    <3> QED
      BY <3>1, <3>2 DEF Frame
  <2>4. SearchOK(edges, Lo, Hi, query, {}, <<Frame(query.from, 0)>>)
    BY <2>2, <2>3, Ranges, SearchBegins
  <2> QED
    BY <1>0, <2>1, <2>4
<1>2. CASE ReachFound
  BY <1>2, FoundIsPath
<1>3. CASE ReachDescend
  <2> DEFINE g == TopEdge.callee
             frame == Frame(g, 0)
  <2>1. /\ UNCHANGED <<built, query>> /\ pc = "reach" /\ pc' = pc /\ AtEdge /\ ~Found
        /\ visited' = visited \union {g} /\ work' = Append(work, frame)
    BY <1>3 DEF ReachDescend, kept, AtEdge
  <2>2. /\ work \in Seq(FrameType) /\ Len(work) \in Nat \ {0} /\ Top = work[Len(work)]
        /\ Top.fn \in Functions /\ visited \in SUBSET Functions /\ query.from \in Functions
        /\ query.kind = "reach"
        /\ Lo \in [Functions -> Nat] /\ Hi \in [Functions -> Nat]
        /\ SearchOK(edges, Lo, Hi, query, visited, work)
    BY <2>1, SearchFacts
  <2>3. TopEdge.type # "CALLANYTHING" /\ TopEdge.callee # query.to
    BY <2>1 DEF Found
  <2>4. LeadsTo(edges, Hi, query, Top, g)
    <3>1. Hi[Top.fn] = EndOf(Top.fn)
      BY <2>2, Ranges
    <3> QED
      BY <2>1, <2>3, <3>1 DEF LeadsTo, AtEdge, TopEdge
  <2>5. g \in Functions
    BY <2>1, <2>3, TopFacts DEF GraphInv
  <2>6. frame \in FrameType /\ frame.fn = g /\ frame.at = Lo[g]
    <3>1. Lo[g] = StartOf(g)
      BY <2>5, Ranges
    <3>2. frame \in FrameType
      BY <2>5, FrameFacts DEF GraphInv, TInv, TypeOK
    <3> QED
      BY <3>1, <3>2 DEF Frame
  <2> HIDE DEF g, frame
  <2>7. SearchOK(edges, Lo, Hi, query, visited \union {g}, Append(work, frame))
    <3>1. LeadsTo(edges, Hi, query, work[Len(work)], frame.fn)
      BY <2>2, <2>4, <2>6
    <3>2. frame.at = Lo[frame.fn] /\ Len(work) >= 1
      BY <2>2, <2>6
    <3>3. SearchOK(edges, Lo, Hi, query, visited \union {frame.fn}, Append(work, frame))
      BY <2>2, <2>6, <3>1, <3>2, SearchDescends
    <3> QED
      BY <2>6, <3>3
  <2> QED
    BY <1>0, <2>1, <2>2, <2>7
<1>4. CASE ReachNext
  <2>1. /\ UNCHANGED <<built, query, visited>> /\ pc = "reach" /\ pc' = pc
        /\ Ignored \/ (~Found /\ TopEdge.callee \in visited)
        /\ work' = [work EXCEPT ![Len(work)] = Next1(work[Len(work)])]
    BY <1>4 DEF ReachNext, kept, AtEdge
  <2>2. /\ work \in Seq(FrameType) /\ Len(work) \in Nat \ {0} /\ Top = work[Len(work)]
        /\ visited \in SUBSET Functions /\ query.from \in Functions /\ query.kind = "reach"
        /\ Lo \in [Functions -> Nat] /\ Hi \in [Functions -> Nat]
        /\ SearchOK(edges, Lo, Hi, query, visited, work)
    BY <2>1, SearchFacts
  <2>3. Passable(query, visited, edges[work[Len(work)].at + 1])
    BY <2>1, <2>2 DEF Passable, Ignored, Found, TopEdge
  <2>4. Len(work) >= 1
    BY <2>2
  <2>5. SearchOK(edges, Lo, Hi, query, visited, work')
    BY <2>1, <2>2, <2>3, <2>4, SearchAdvances
  <2> QED
    BY <1>0, <2>1, <2>2, <2>5
<1>5. CASE ReachBack
  <2>1. CASE Len(work) = 1
    BY <1>5, <2>1, NoPathIsProved
  <2>2. CASE Len(work) # 1
    <3> DEFINE below == Below(work)
    <3>1. /\ UNCHANGED <<built, query, visited>> /\ pc = "reach" /\ pc' = pc
          /\ Top.at >= EndOf(Top.fn)
          /\ work' = [below EXCEPT ![Len(work) - 1] = Next1(below[Len(work) - 1])]
      BY <1>5, <2>2 DEF ReachBack, kept
    <3>2. /\ work \in Seq(FrameType) /\ Len(work) \in Nat \ {0} /\ Top = work[Len(work)]
          /\ Top.fn \in Functions
          /\ visited \in SUBSET Functions /\ query.from \in Functions /\ query.kind = "reach"
          /\ Lo \in [Functions -> Nat] /\ Hi \in [Functions -> Nat]
          /\ SearchOK(edges, Lo, Hi, query, visited, work)
      BY <3>1, SearchFacts
    <3>3. Len(work) > 1 /\ work[Len(work)].at >= Hi[work[Len(work)].fn]
      <4>1. Hi[Top.fn] = EndOf(Top.fn)
        BY <3>2, Ranges
      <4>2. Len(work) > 1
        <5>1. \A n \in Nat \ {0} : n # 1 => n > 1
          OBVIOUS
        <5> QED
          BY <2>2, <3>2, <5>1, Zenon
      <4> QED
        BY <3>1, <3>2, <4>1, <4>2
    <3>4. /\ SearchOK(edges, Lo, Hi, query, visited, below)
          /\ below \in Seq(FrameType) /\ Len(below) = Len(work) - 1
          /\ Passable(query, visited, edges[below[Len(work) - 1].at + 1])
      BY <3>2, <3>3, SearchReturns
    <3>5. Len(below) >= 1
      BY <3>3, <3>2, <3>4
    <3> HIDE DEF below
    <3>6. SearchOK(edges, Lo, Hi, query, visited, work')
      BY <3>1, <3>2, <3>4, <3>5, SearchAdvances
    <3> QED
      BY <1>0, <3>1, <3>2, <3>6
  <2> QED
    BY <2>1, <2>2
<1> QED
  BY <1>1, <1>2, <1>3, <1>4, <1>5 DEF Reach

\* A step that ends no search and is not in one.
LEMMA OtherQuery ==
  ASSUME pc' # "reach", pc' = "tree" => query'.kind = "cg",
         pc' # "idle" \/ query'.kind # "reach" \/ answer'.how # "ok"
  PROVE  ReachInv'
BY DEF ReachInv, ReachExact, Answered, Idle

\* A step that the search and its answer do not see.
LEMMA SearchFrame ==
  ASSUME GraphInv, ReachInv,
         UNCHANGED <<pc, query, visited, work, edges, CG, answer, analysis, cgPatchOut>>
  PROVE  ReachInv'
<1>1. Lo' = Lo /\ Hi' = Hi
  BY DEF Lo, Hi, StartOf, EndOf
<1>2. \A f : Calls(f)' = Calls(f)
  BY CallsStay
<1>3. ReachExact'
  <2>1. ReachExact
    BY DEF ReachInv
  <2>2. IsPath(answer.edges)' = IsPath(answer.edges)
    BY <1>2 DEF IsPath
  <2>3. IsClosed(visited \union {query.from})' = IsClosed(visited \union {query.from})
    BY <1>2 DEF IsClosed
  <2> QED
    BY <2>1, <2>2, <2>3 DEF ReachExact, Answered, Idle
<1>4. SearchOK(edges, Lo, Hi, query, visited, work)' = SearchOK(edges, Lo, Hi, query, visited, work)
  BY <1>1
<1> QED
  BY <1>3, <1>4 DEF ReachInv

\* Every step.
LEMMA ReachKept == GraphInv /\ ReachInv /\ [Next]_vars => ReachInv'
<1> SUFFICES ASSUME GraphInv, ReachInv, [Next]_vars PROVE ReachInv'
  OBVIOUS
<1>1. CASE EditFile \/ UNCHANGED vars
  <2>1. UNCHANGED <<pc, query, visited, work, edges, CG, answer, analysis, cgPatchOut>>
    BY <1>1 DEF EditFile, vars, built, graphVars, patchVars, fixedVars, walkVars
  <2> QED
    BY <2>1, SearchFrame
<1>2. CASE Ask
  <2>1. ASSUME NEW q \in Questions, AskGraph(q) PROVE ReachInv'
    <3>1. pc' \in {"build", "answer"}
      BY <2>1 DEF AskGraph
    <3> QED
      BY <3>1, OtherQuery
  <2>2. ASSUME NEW f \in AskedFrom, NEW g \in AskedTo, CGPatch(f, g) PROVE ReachInv'
    <3>1. pc' = "idle" /\ query'.kind = "cgpatch"
      BY <2>2 DEF CGPatch, Take, Query, Reply
    <3> QED
      BY <3>1, OtherQuery
  <2>3. CASE CGReload
    <3>1. pc' = "idle" /\ query'.kind = "cgreload"
      BY <2>3 DEF CGReload, Take, Query, Reply
    <3> QED
      BY <3>1, OtherQuery
  <2>4. CASE ToggleSilence
    <3>1. pc' = "idle" /\ query'.kind = "silence"
      BY <2>4 DEF ToggleSilence, Take, Query, Reply
    <3> QED
      BY <3>1, OtherQuery
  <2> QED
    BY <1>2, <2>1, <2>2, <2>3, <2>4 DEF Ask
<1>3. CASE Build
  <2>1. pc' \in {"build", "load", "answer"} \/ (pc' = "idle" /\ answer'.how = "error")
    <3>1. Throw => pc' = "idle" /\ answer'.how = "error"
      BY DEF Throw, Reply, Answer
    <3>2. ASSUME NEW f \in DefinedFns, BuildSite(f) \/ OpenPatch(f) \/ BuildFunction(f)
          PROVE  Throw \/ pc' \in {"build", "load"}
      BY <3>2 DEF BuildSite, OpenPatch, BuildFunction, Building
    <3>3. SkipBlank \/ LoadPair \/ LoadEnd \/ BuildEnd
          => Throw \/ pc' \in {"build", "load", "answer"}
      BY DEF SkipBlank, LoadPair, LoadEnd, BuildEnd
    <3> QED
      BY <1>3, <3>1, <3>2, <3>3 DEF Build
  <2> QED
    BY <2>1, OtherQuery
<1>4. CASE Reverse
  <2>1. \/ pc' \in {"reverse", "answer"}
        \/ pc' = "idle" /\ query'.kind \in {"callout", "callin"}
    BY <1>4 DEF Reverse, AnswerOut, ReverseBegin, ReverseStep, ReverseEnd, AnswerIn, Reply, kept
  <2> QED
    BY <2>1, OtherQuery
<1>5. CASE Reach
  BY <1>5, ReachSteps
<1>6. CASE Tree
  <2>1. pc' \in {"tree", "idle"} /\ query'.kind = "cg"
    BY <1>6 DEF Tree, TreeBegin, TreeStep, TreePop, TreeEnd, Reply, kept, ReachInv
  <2> QED
    BY <2>1, OtherQuery
<1> QED
  BY <1>1, <1>2, <1>3, <1>4, <1>5, <1>6 DEF Next, Serve

(***************************************************************************)
(* What reach answers is right in every session: a path that it prints is  *)
(* a chain of calls from the one function to the other or to an unknown    *)
(* call, and if it prints none, the functions it visited are closed under  *)
(* calls and do not call the target.                                       *)
(***************************************************************************)
THEOREM ReachCorrect == Spec => []ReachExact
<1>1. Init => ReachInv
  BY DEF Init, ReachInv, ReachExact, Answered, NoQuery, Query
<1>2. GraphInv /\ ReachInv /\ [Next]_vars => ReachInv'
  BY ReachKept
<1>3. ReachInv => ReachExact
  BY DEF ReachInv
<1>4. Spec => []GraphInv
  BY GraphInvHolds
<1> QED
  BY <1>1, <1>2, <1>3, <1>4, PTL DEF Spec

-----------------------------------------------------------------------------
(* The patch. *)

\* Before the first line is read, the empty patch says what was read.
LEMMA NothingRead == \A lines : ReadAs(lines, 0, NoPatch)
<1> SUFFICES ASSUME NEW lines PROVE ReadAs(lines, 0, NoPatch)
  OBVIOUS
<1>1. {} \in SUBSET (1..0) /\ Pairs(lines, 0, {})
  BY DEF Pairs
<1>2. ASSUME NEW f \in Functions PROVE In(NoPatch[f]) = PatchOf(lines, {}, f)
  <2>1. NoPatch[f] = <<>>
    BY <1>2 DEF NoPatch
  <2>2. In(<<>>) = {}
    BY DEF In
  <2> QED
    BY <2>1, <2>2 DEF PatchOf
<1> QED
  BY <1>1, <1>2 DEF ReadAs

\* A blank line adds nothing to what was read.
LEMMA BlankRead ==
  ASSUME NEW lines, NEW n \in Nat, NEW out, ReadAs(lines, n, out), lines[n + 1] = Blank
  PROVE  ReadAs(lines, n + 1, out)
<1>1. PICK P \in SUBSET (1..n) : /\ Pairs(lines, n, P)
                                 /\ \A f \in Functions : In(out[f]) = PatchOf(lines, P, f)
  BY DEF ReadAs
<1>2. P \in SUBSET (1..n + 1)
  BY <1>1
<1>3. Pairs(lines, n + 1, P)
  <2>1. \A i \in P : i + 1 \in (1..n + 1) \ P /\ {lines[i], lines[i + 1]} \subseteq Functions
    <3>1. 1..n \subseteq 1..n + 1
      OBVIOUS
    <3> QED
      BY <1>1, <3>1 DEF Pairs
  <2>2. ASSUME NEW i \in 1..n + 1 PROVE lines[i] = Blank \/ i \in P \/ i - 1 \in P
    <3>1. i = n + 1 \/ i \in 1..n
      OBVIOUS
    <3> QED
      BY <1>1, <3>1 DEF Pairs
  <2> QED
    BY <2>1, <2>2 DEF Pairs
<1> QED
  BY <1>1, <1>2, <1>3 DEF ReadAs

\* What is appended is in the sequence, beside what was.
LEMMA InAppended ==
  ASSUME NEW T, NEW s \in Seq(T), NEW x \in T
  PROVE  In(Append(s, x)) = In(s) \union {x}
<1> DEFINE u == Append(s, x)
<1>1. /\ Len(s) \in Nat /\ Len(u) = Len(s) + 1 /\ u[Len(s) + 1] = x
      /\ \A i \in 1..Len(s) : u[i] = s[i]
  OBVIOUS
<1> HIDE DEF u
<1>2. ASSUME NEW i \in 1..Len(u) PROVE u[i] \in In(s) \union {x}
  <2>1. i \in 1..Len(s) \/ i = Len(s) + 1
    BY <1>1
  <2> QED
    BY <1>1, <2>1 DEF In
<1>3. \A i \in 1..Len(s) : i \in 1..Len(u) /\ s[i] = u[i]
  BY <1>1
<1>4. Len(s) + 1 \in 1..Len(u)
  BY <1>1
<1>5. In(u) = In(s) \union {x}
  BY <1>1, <1>2, <1>3, <1>4 DEF In
<1> QED
  BY <1>5 DEF u

\* A pair of names adds the callee to the caller's patch.
LEMMA PairRead ==
  ASSUME NEW lines, NEW n \in Nat, NEW out \in [Functions -> Seq(Functions)],
         ReadAs(lines, n, out), lines[n + 1] \in Functions, lines[n + 2] \in Functions
  PROVE  ReadAs(lines, n + 2, [out EXCEPT ![lines[n + 1]] = Append(@, lines[n + 2])])
<1> DEFINE new == [out EXCEPT ![lines[n + 1]] = Append(@, lines[n + 2])]
<1>1. PICK P \in SUBSET (1..n) : /\ Pairs(lines, n, P)
                                 /\ \A f \in Functions : In(out[f]) = PatchOf(lines, P, f)
  BY DEF ReadAs
<1> DEFINE Q == P \union {n + 1}
<1>2. Q \in SUBSET (1..n + 2)
  BY <1>1
<1>3. \A i \in P : i \in 1..n /\ i + 1 \in 1..n /\ i + 1 \notin P
                   /\ {lines[i], lines[i + 1]} \subseteq Functions
  BY <1>1 DEF Pairs
<1>4. Pairs(lines, n + 2, Q)
  <2>1. ASSUME NEW i \in Q
        PROVE  i + 1 \in (1..n + 2) \ Q /\ {lines[i], lines[i + 1]} \subseteq Functions
    <3>1. CASE i \in P
      <4>1. i \in 1..n /\ i + 1 \in 1..n /\ i + 1 \notin P
        BY <1>3, <3>1
      <4> QED
        BY <1>3, <3>1, <4>1
    <3>2. CASE i = n + 1
      <4>1. n + 1 + 1 = n + 2 /\ n + 2 \notin P /\ n + 2 # n + 1 /\ n + 2 \in 1..n + 2
        BY <1>3
      <4> QED
        BY <3>2, <4>1
    <3> QED
      BY <3>1, <3>2
  <2>2. ASSUME NEW i \in 1..n + 2 PROVE lines[i] = Blank \/ i \in Q \/ i - 1 \in Q
    <3>1. i \in 1..n \/ i = n + 1 \/ i - 1 = n + 1
      OBVIOUS
    <3> QED
      BY <1>1, <3>1 DEF Pairs
  <2> HIDE DEF Q
  <2> QED
    BY <2>1, <2>2 DEF Pairs
<1>5. ASSUME NEW f \in Functions PROVE In(new[f]) = PatchOf(lines, Q, f)
  <2>1. n + 1 + 1 = n + 2
    OBVIOUS
  <2>2. CASE f = lines[n + 1]
    <3>1. new[f] = Append(out[f], lines[n + 2]) /\ out[f] \in Seq(Functions)
      BY <2>2
    <3>2. In(new[f]) = In(out[f]) \union {lines[n + 2]}
      BY <3>1, InAppended
    <3>3. PatchOf(lines, Q, f) = PatchOf(lines, P, f) \union {lines[n + 2]}
      BY <2>1, <2>2 DEF PatchOf
    <3> QED
      BY <1>1, <3>2, <3>3
  <2>3. CASE f # lines[n + 1]
    <3>1. new[f] = out[f]
      BY <2>3
    <3>2. PatchOf(lines, Q, f) = PatchOf(lines, P, f)
      BY <2>3 DEF PatchOf
    <3> QED
      BY <1>1, <3>1, <3>2
  <2> QED
    BY <2>2, <2>3
<1> HIDE DEF new, Q
<1>6. ReadAs(lines, n + 2, new)
  BY <1>2, <1>4, <1>5 DEF ReadAs
<1> QED
  BY <1>6 DEF new

-----------------------------------------------------------------------------
(* Reading the patch file. *)

\* What is unread is the rest of the lines after the first n.
Rest(lines, n) ==
  /\ n \in Nat /\ Len(lines) = n + Len(unread)
  /\ \A i \in 1..Len(unread) : unread[i] = lines[n + i]

\* The loop is in the middle of a content the file had, and what it took so far is
\* what the lines say; a reading that an exception ended is not continued.
Loading ==
  pc = "load" =>
    /\ patchPath /\ ~cgPatchLoaded
    /\ \E c \in contents, n \in Nat : c.exists /\ Rest(c.lines, n) /\ ReadAs(c.lines, n, cgPatchOut)
PatchInv == patchFile \in contents /\ Loading /\ PatchFresh

\* A step that leaves the reading alone, and forgets no content.
LEMMA PatchFrame ==
  ASSUME PatchInv, UNCHANGED <<patchPath, cgPatchLoaded, cgPatchOut>>,
         contents \subseteq contents', patchFile' \in contents',
         pc' = "load" => pc = "load" /\ unread' = unread
  PROVE  PatchInv'
<1>1. Loading'
  <2>1. \A lines, n : unread' = unread => Rest(lines, n)' = Rest(lines, n)
    BY DEF Rest
  <2> SUFFICES ASSUME pc' = "load" PROVE Loading'
    BY DEF Loading
  <2>2. PICK c \in contents, n \in Nat : c.exists /\ Rest(c.lines, n) /\ ReadAs(c.lines, n, cgPatchOut)
    BY DEF PatchInv, Loading
  <2>3. c \in contents' /\ Rest(c.lines, n)' /\ ReadAs(c.lines, n, cgPatchOut')
    <3>1. unread' = unread /\ cgPatchOut' = cgPatchOut
      OBVIOUS
    <3> QED
      BY <2>2, <3>1 DEF Rest
  <2>4. patchPath' /\ ~cgPatchLoaded'
    BY DEF PatchInv, Loading
  <2> QED
    BY <2>2, <2>3, <2>4 DEF Loading
<1>2. PatchFresh'
  BY DEF PatchInv, PatchFresh
<1> QED
  BY <1>1, <1>2 DEF PatchInv

\* Building and loading keep it.
LEMMA PatchBuild == TInv /\ PatchInv /\ Build => PatchInv'
<1> SUFFICES ASSUME TInv, PatchInv, Build PROVE PatchInv'
  OBVIOUS
<1>0. UNCHANGED <<patchPath, patchFile, contents>>
  <2>1. UNCHANGED kept
    BY DEF Build, BuildSite, OpenPatch, BuildFunction, SkipBlank, LoadPair, LoadEnd, BuildEnd
  <2> QED
    BY <2>1 DEF kept, fixedVars, fileVars
<1>a. /\ unread \in Seq(FileLines) /\ patchFile.lines \in Seq(FileLines)
      /\ cgPatchOut \in [Functions -> Seq(Functions)] /\ patchPath \in BOOLEAN
  BY Constants DEF TInv, TypeOK, EnvironmentType, GraphType
<1>1. ASSUME NEW f \in DefinedFns, BuildSite(f) \/ BuildFunction(f) PROVE PatchInv'
  <2>1. UNCHANGED patchVars /\ pc' # "load"
    BY <1>1 DEF BuildSite, BuildFunction, Building, Throw, Reply
  <2> QED
    BY <1>0, <2>1, PatchFrame DEF patchVars, PatchInv
<1>2. CASE BuildEnd
  <2>1. UNCHANGED patchVars /\ pc' # "load"
    BY <1>2 DEF BuildEnd
  <2> QED
    BY <1>0, <2>1, PatchFrame DEF patchVars, PatchInv
<1>3. ASSUME NEW f \in DefinedFns, OpenPatch(f) PROVE PatchInv'
  <2>1. CASE ~patchPath
    <3>1. pc' # "load" /\ ~patchPath'
      BY <1>0, <1>3, <2>1 DEF OpenPatch, Building
    <3> QED
      BY <1>0, <3>1 DEF PatchInv, Loading, PatchFresh
  <2>2. CASE patchPath /\ ~patchFile.exists
    <3>1. pc' # "load" /\ ~cgPatchLoaded'
      BY <1>3, <2>2 DEF OpenPatch, Building, Throw, Reply
    <3> QED
      BY <1>0, <3>1 DEF PatchInv, Loading, PatchFresh
  <2>3. CASE patchPath /\ patchFile.exists
    <3>1. /\ ~cgPatchLoaded' /\ cgPatchOut' = NoPatch /\ unread' = patchFile.lines
      BY <1>3, <2>3 DEF OpenPatch
    <3>2. Rest(patchFile.lines, 0)'
      <4>1. Rest(patchFile.lines, 0)' <=>
              /\ 0 \in Nat /\ Len(patchFile.lines) = 0 + Len(patchFile.lines)
              /\ \A i \in 1..Len(patchFile.lines) : patchFile.lines[i] = patchFile.lines[0 + i]
        BY <1>0, <3>1 DEF Rest
      <4>2. Len(patchFile.lines) \in Nat
        BY <1>a
      <4>3. \A i \in 1..Len(patchFile.lines) : 0 + i = i
        OBVIOUS
      <4> QED
        BY <4>1, <4>2, <4>3
    <3>3. ReadAs(patchFile.lines, 0, cgPatchOut)'
      BY <3>1, NothingRead
    <3>4. Loading'
      BY <1>0, <2>3, <3>1, <3>2, <3>3 DEF Loading, PatchInv
    <3> QED
      BY <1>0, <3>1, <3>4 DEF PatchInv, PatchFresh
  <2> QED
    BY <1>a, <2>1, <2>2, <2>3
<1>4. ASSUME SkipBlank \/ LoadPair \/ LoadEnd PROVE PatchInv'
  <2>1. pc = "load" /\ patchPath /\ ~cgPatchLoaded
    BY <1>4 DEF SkipBlank, LoadPair, LoadEnd, PatchInv, Loading
  <2>2. PICK c \in contents, n \in Nat : c.exists /\ Rest(c.lines, n) /\ ReadAs(c.lines, n, cgPatchOut)
    BY <2>1 DEF PatchInv, Loading
  <2> DEFINE lines == c.lines
  <2>3. /\ Len(lines) = n + Len(unread) /\ Len(unread) \in Nat
        /\ \A i \in 1..Len(unread) : unread[i] = lines[n + i]
    BY <1>a, <2>2 DEF Rest
  <2>4. CASE SkipBlank
    <3>1. unread' = Tail(unread) /\ unread # <<>> /\ unread[1] = Blank /\ UNCHANGED <<cgPatchLoaded, cgPatchOut, pc>>
      BY <1>a, <2>4 DEF SkipBlank, patchVars
    <3>2. /\ Len(unread) >= 1 /\ Len(unread') = Len(unread) - 1
          /\ \A i \in 1..Len(unread) - 1 : unread'[i] = unread[i + 1]
      BY <1>a, <3>1
    <3> HIDE DEF lines
    <3>3. lines[n + 1] = Blank
      BY <2>3, <3>1, <3>2
    <3>4. ReadAs(lines, n + 1, cgPatchOut)
      BY <2>2, <3>3, BlankRead DEF lines
    <3>5. n + 1 \in Nat /\ Len(lines) = n + 1 + Len(unread')
      BY <2>3, <3>2
    <3>6. ASSUME NEW i \in 1..Len(unread') PROVE unread'[i] = lines[n + 1 + i]
      <4>1. i \in 1..Len(unread) - 1 /\ i + 1 \in 1..Len(unread) /\ n + (i + 1) = n + 1 + i
        BY <2>3, <3>2
      <4> QED
        BY <2>3, <3>2, <4>1
    <3>7. c \in contents' /\ c.exists /\ Rest(lines, n + 1)' /\ ReadAs(lines, n + 1, cgPatchOut')
      <4>1. Len(lines) = (n + 1) + Len(unread')
        BY <3>5
      <4>2. lines' = lines
        BY DEF lines
      <4> QED
        BY <1>0, <2>2, <3>1, <3>4, <3>5, <3>6, <4>1, <4>2 DEF Rest
    <3>8. Loading'
      BY <1>0, <2>1, <3>1, <3>5, <3>7 DEF Loading, lines
    <3> QED
      BY <1>0, <2>1, <3>1, <3>8 DEF PatchInv, PatchFresh
  <2>5. CASE LoadPair /\ Readable
    <3>1. /\ unread' = Tail(Tail(unread)) /\ Len(unread) >= 2
          /\ unread[1] \in Functions /\ unread[2] \in Functions
          /\ cgPatchOut' = [cgPatchOut EXCEPT ![unread[1]] = Append(@, unread[2])]
          /\ UNCHANGED <<cgPatchLoaded, pc>>
      BY <2>5 DEF LoadPair, Readable
    <3>2. /\ Len(unread') = Len(unread) - 2
          /\ \A i \in 1..Len(unread) - 2 : unread'[i] = unread[i + 2]
      <4> DEFINE t == Tail(unread)
      <4>1. t \in Seq(FileLines) /\ Len(t) = Len(unread) - 1
            /\ \A i \in 1..Len(unread) - 1 : t[i] = unread[i + 1]
        BY <1>a, <3>1
      <4> HIDE DEF t
      <4>2. Len(t) \in Nat /\ Len(t) >= 1 /\ t # <<>>
        BY <4>1, <3>1, <2>3
      <4>3. /\ Len(Tail(t)) = Len(t) - 1
            /\ \A i \in 1..Len(t) - 1 : Tail(t)[i] = t[i + 1]
        BY <4>1, <4>2
      <4>4. unread' = Tail(t)
        BY <3>1 DEF t
      <4>5. ASSUME NEW i \in 1..Len(unread) - 2 PROVE unread'[i] = unread[i + 2]
        <5>1. i \in 1..Len(t) - 1 /\ i + 1 \in 1..Len(unread) - 1 /\ i + 1 + 1 = i + 2
          BY <2>3, <4>1
        <5>2. Tail(t)[i] = t[i + 1] /\ t[i + 1] = unread[i + 1 + 1]
          BY <4>1, <4>3, <5>1
        <5> QED
          BY <4>4, <5>1, <5>2
      <4>6. Len(unread') = Len(unread) - 2
        BY <2>3, <4>1, <4>3, <4>4
      <4> QED
        BY <4>5, <4>6
    <3> HIDE DEF lines
    <3>3. lines[n + 1] = unread[1] /\ lines[n + 2] = unread[2]
      <4>1. 1 \in 1..Len(unread) /\ 2 \in 1..Len(unread)
        BY <2>3, <3>1
      <4> QED
        BY <2>3, <4>1
    <3>4. ReadAs(lines, n + 2, cgPatchOut')
      <4>1. ReadAs(lines, n, cgPatchOut)
        BY <2>2 DEF lines
      <4>2. cgPatchOut' = [cgPatchOut EXCEPT ![lines[n + 1]] = Append(@, lines[n + 2])]
        BY <3>1, <3>3
      <4>3. lines[n + 1] \in Functions /\ lines[n + 2] \in Functions
        BY <3>1, <3>3
      <4>4. ReadAs(lines, n + 2, [cgPatchOut EXCEPT ![lines[n + 1]] = Append(@, lines[n + 2])])
        BY <1>a, <4>1, <4>3, PairRead
      <4> QED
        BY <4>2, <4>4, Zenon
    <3>5. n + 2 \in Nat /\ Len(lines) = (n + 2) + Len(unread')
      <4>1. Len(unread') = Len(unread) - 2 /\ Len(unread) \in Nat /\ Len(lines) = n + Len(unread)
        BY <2>3, <3>2
      <4> QED
        BY <4>1
    <3>6. ASSUME NEW i \in 1..Len(unread') PROVE unread'[i] = lines[(n + 2) + i]
      <4>1. i \in 1..Len(unread) - 2 /\ i + 2 \in 1..Len(unread) /\ n + (i + 2) = (n + 2) + i
        BY <2>3, <3>2
      <4> QED
        BY <2>3, <3>2, <4>1
    <3>7. c \in contents' /\ c.exists /\ Rest(lines, n + 2)'
      <4>2. lines' = lines
        BY DEF lines
      <4> QED
        BY <1>0, <2>2, <3>5, <3>6, <4>2 DEF Rest
    <3>8. Loading'
      BY <1>0, <2>1, <3>1, <3>4, <3>5, <3>7 DEF Loading, lines
    <3> QED
      BY <1>0, <2>1, <3>1, <3>8 DEF PatchInv, PatchFresh
  <2>6. CASE LoadPair /\ ~Readable
    <3>1. pc' = "idle" /\ ~cgPatchLoaded'
      BY <2>1, <2>6 DEF LoadPair, Throw, Reply
    <3> QED
      BY <1>0, <3>1 DEF PatchInv, Loading, PatchFresh
  <2>7. CASE LoadEnd
    <3>1. unread = <<>> /\ pc' = "build" /\ cgPatchOut' = cgPatchOut
      BY <2>7 DEF LoadEnd
    <3>2. n = Len(lines)
      <4>1. Len(unread) = 0
        BY <3>1
      <4> QED
        BY <2>3, <4>1
    <3>3. ReadAs(c.lines, Len(c.lines), cgPatchOut')
      BY <2>2, <3>1, <3>2
    <3>4. PatchFresh'
      BY <1>0, <2>2, <3>3 DEF PatchFresh
    <3> QED
      BY <1>0, <3>1, <3>4 DEF PatchInv, Loading
  <2> QED
    BY <1>4, <2>4, <2>5, <2>6, <2>7
<1> QED
  BY <1>1, <1>2, <1>3, <1>4 DEF Build

\* Every step keeps it.
LEMMA PatchKept == TInv /\ PatchInv /\ [Next]_vars => PatchInv'
<1> SUFFICES ASSUME TInv, PatchInv, [Next]_vars PROVE PatchInv'
  OBVIOUS
<1>0. patchFile \in contents
  BY DEF PatchInv
<1>1. CASE EditFile
  <2>1. /\ UNCHANGED <<patchPath, cgPatchLoaded, cgPatchOut, pc, unread>>
        /\ contents' = contents \union {patchFile'}
    BY <1>1 DEF EditFile, FileBecomes, built, patchVars, buildVars, fixedVars
  <2> QED
    BY <2>1, PatchFrame
<1>2. CASE UNCHANGED vars
  <2>1. UNCHANGED <<patchPath, cgPatchLoaded, cgPatchOut, pc, unread, contents, patchFile>>
    BY <1>2 DEF vars, patchVars, buildVars, fixedVars, fileVars
  <2> QED
    BY <1>0, <2>1, PatchFrame
<1>3. CASE Ask
  <2>1. ASSUME NEW q \in Questions, AskGraph(q) PROVE PatchInv'
    <3>1. UNCHANGED <<patchPath, cgPatchLoaded, cgPatchOut, contents, patchFile>> /\ pc' # "load"
      BY <2>1 DEF AskGraph, fixedVars, fileVars, patchVars
    <3> QED
      BY <1>0, <3>1, PatchFrame
  <2>2. ASSUME NEW f \in AskedFrom, NEW g \in AskedTo, CGPatch(f, g) PROVE PatchInv'
    <3>1. UNCHANGED <<patchPath, cgPatchLoaded, cgPatchOut>> /\ pc' # "load"
      BY <2>2 DEF CGPatch, Reply, fixedVars, patchVars
    <3>2. \/ contents' = contents \union {patchFile'}
          \/ contents' = contents /\ patchFile' = patchFile
      BY <2>2 DEF CGPatch, FileBecomes
    <3> QED
      BY <1>0, <3>1, <3>2, PatchFrame
  <2>3. CASE CGReload
    <3>1. ~cgPatchLoaded' /\ pc' # "load" /\ contents' = {patchFile} /\ patchFile' = patchFile
      BY <2>3 DEF CGReload, Reply
    <3> QED
      BY <3>1 DEF PatchInv, Loading, PatchFresh
  <2>4. CASE ToggleSilence
    <3>1. UNCHANGED <<patchPath, cgPatchLoaded, cgPatchOut, contents, patchFile>> /\ pc' # "load"
      BY <2>4 DEF ToggleSilence, Reply, fixedVars, fileVars, patchVars
    <3> QED
      BY <1>0, <3>1, PatchFrame
  <2> QED
    BY <1>3, <2>1, <2>2, <2>3, <2>4 DEF Ask
<1>4. CASE Build
  BY <1>4, PatchBuild
<1>5. CASE Reverse \/ Reach \/ Tree
  <2>1. UNCHANGED kept /\ pc' # "load"
    BY <1>5 DEF Reverse, AnswerOut, ReverseBegin, ReverseStep, ReverseEnd, AnswerIn, Reply,
                Reach, ReachBegin, ReachFound, ReachDescend, ReachNext, ReachBack, AtEdge,
                Tree, TreeBegin, TreeStep, TreePop, TreeEnd
  <2>2. UNCHANGED patchVars
    BY <1>5 DEF Reverse, AnswerOut, ReverseBegin, ReverseStep, ReverseEnd, AnswerIn,
                Reach, ReachBegin, ReachFound, ReachDescend, ReachNext, ReachBack,
                Tree, TreeBegin, TreeStep, TreePop, TreeEnd, built
  <2> QED
    BY <1>0, <2>1, <2>2, PatchFrame DEF kept, fixedVars, fileVars, patchVars
<1> QED
  BY <1>1, <1>2, <1>3, <1>4, <1>5 DEF Next, Serve

(***************************************************************************)
(* Whatever clients and others write into the patch file, and whenever: a  *)
(* patch that is in use is the whole of one well-formed content that the   *)
(* file had since the last cgreload, with no pair of an earlier or of a    *)
(* broken-off reading (loadCGPatch, PAWrapper.cpp).                        *)
(***************************************************************************)
THEOREM PatchIsFresh == Spec => []PatchFresh
<1>1. Init => PatchInv
  BY DEF Init, PatchInv, Loading, PatchFresh
<1>2. TInv /\ PatchInv /\ [Next]_vars => PatchInv'
  BY PatchKept
<1>3. GraphInv => TInv
  BY DEF GraphInv
<1>4. PatchInv => PatchFresh
  BY DEF PatchInv
<1>5. Spec => []GraphInv
  BY GraphInvHolds
<1> QED
  BY <1>1, <1>2, <1>3, <1>4, <1>5, PTL DEF Spec

-----------------------------------------------------------------------------
(* The tree of calls. *)

\* A set of numbers that has members has a least one.
LEMMA LeastIn ==
  ASSUME NEW S, S \subseteq Nat, S # {}
  PROVE  \E m \in S : \A k \in S : m <= k
<1>1. PICK m \in S : \A k \in S : <<k, m>> \notin OpToRel(<, Nat)
  BY WFMin, NatLessThanWellFounded
<1>2. \A k \in S : ~(k < m)
  BY <1>1 DEF OpToRel
<1> QED
  BY <1>2

\* The first n + 1 values of the iteration of F from S.
Iterates(F, S, n, f) ==
  /\ f \in [0..n -> DOMAIN F]
  /\ f[0] = S
  /\ \A k \in 0..n : k # 0 => f[k] = F[f[k - 1]]

\* They are determined.
LEMMA IteratesAgree ==
  ASSUME NEW F, NEW S, NEW n \in Nat, NEW m \in Nat, NEW f, NEW g,
         Iterates(F, S, n, f), Iterates(F, S, m, g)
  PROVE  \A k \in Nat : k <= n /\ k <= m => f[k] = g[k]
<1> DEFINE odd == {k \in Nat : k <= n /\ k <= m /\ f[k] # g[k]}
<1>1. ASSUME odd # {} PROVE FALSE
  <2>1. PICK k \in odd : \A j \in odd : k <= j
    <3>1. odd \subseteq Nat
      OBVIOUS
    <3> HIDE DEF odd
    <3> QED
      BY <1>1, <3>1, LeastIn
  <2>2. k # 0
    BY <2>1 DEF Iterates
  <2>3. k - 1 \in Nat /\ k - 1 \notin odd
    BY <2>1, <2>2
  <2>4. f[k - 1] = g[k - 1]
    BY <2>1, <2>3
  <2>5. f[k] = F[f[k - 1]] /\ g[k] = F[g[k - 1]]
    BY <2>1, <2>2 DEF Iterates
  <2> QED
    BY <2>1, <2>4, <2>5
<1> QED
  BY <1>1

\* They exist.
LEMMA IteratesExist ==
  ASSUME NEW F, NEW S \in DOMAIN F, \A X \in DOMAIN F : F[X] \in DOMAIN F, NEW n \in Nat
  PROVE  \E f : Iterates(F, S, n, f)
<1> DEFINE bad == {k \in Nat : ~ \E f : Iterates(F, S, k, f)}
<1>1. ASSUME bad # {} PROVE FALSE
  <2>1. PICK k \in bad : \A j \in bad : k <= j
    <3>1. bad \subseteq Nat
      OBVIOUS
    <3> HIDE DEF bad
    <3> QED
      BY <1>1, <3>1, LeastIn
  <2>2. CASE k = 0
    <3>1. \E f : f = [j \in 0..0 |-> S]
      OBVIOUS
    <3>2. PICK f : f = [j \in 0..0 |-> S]
      BY <3>1
    <3>3. Iterates(F, S, 0, f)
      BY <3>2 DEF Iterates
    <3> QED
      BY <2>1, <2>2, <3>3
  <2>3. CASE k # 0
    <3>1. k - 1 \in Nat /\ k - 1 \notin bad
      BY <2>1, <2>3
    <3>2. PICK f : Iterates(F, S, k - 1, f)
      BY <3>1
    <3>3. f[k - 1] \in DOMAIN F /\ F[f[k - 1]] \in DOMAIN F
      BY <3>1, <3>2 DEF Iterates
    <3>4. \E g : g = [j \in 0..k |-> IF j = k THEN F[f[k - 1]] ELSE f[j]]
      OBVIOUS
    <3>5. PICK g : g = [j \in 0..k |-> IF j = k THEN F[f[k - 1]] ELSE f[j]]
      BY <3>4
    <3>6. g \in [0..k -> DOMAIN F]
      <4>1. \A j \in 0..k : j # k => f[j] \in DOMAIN F
        BY <2>1, <3>2 DEF Iterates
      <4> QED
        BY <3>3, <3>5, <4>1
    <3>7. g[0] = S
      BY <2>1, <2>3, <3>2, <3>5 DEF Iterates
    <3>8. \A j \in 0..k : j # 0 => g[j] = F[g[j - 1]]
      <4> SUFFICES ASSUME NEW j \in 0..k, j # 0 PROVE g[j] = F[g[j - 1]]
        OBVIOUS
      <4>1. j - 1 \in 0..k /\ j - 1 # k /\ g[j - 1] = f[j - 1]
        BY <2>1, <3>5
      <4>2. j # k => g[j] = f[j] /\ f[j] = F[f[j - 1]]
        BY <2>1, <3>2, <3>5 DEF Iterates
      <4>3. j = k => g[j] = F[f[k - 1]]
        BY <3>5
      <4> QED
        BY <4>1, <4>2, <4>3
    <3> QED
      BY <2>1, <3>6, <3>7, <3>8 DEF Iterates
  <2> QED
    BY <2>2, <2>3
<1> QED
  BY <1>1

\* F can be iterated for ever.
Iterable(F, S, W) ==
  \E it \in [Nat -> W] : it[0] = S /\ \A n \in Nat : it[n + 1] = F[it[n]]
LEMMA Iteration ==
  ASSUME NEW W, NEW F \in [W -> W], NEW S \in W
  PROVE  Iterable(F, S, W)
<1>0. DOMAIN F = W /\ S \in DOMAIN F /\ \A X \in DOMAIN F : F[X] \in DOMAIN F
  OBVIOUS
<1> DEFINE first(n) == CHOOSE f : Iterates(F, S, n, f)
<1>1. \A n \in Nat : Iterates(F, S, n, first(n))
  BY <1>0, IteratesExist
<1> HIDE DEF first
<1>2. \E it : it = [n \in Nat |-> first(n)[n]]
  OBVIOUS
<1>3. PICK it : it = [n \in Nat |-> first(n)[n]]
  BY <1>2
<1>4. it \in [Nat -> W]
  <2>1. \A n \in Nat : first(n)[n] \in W
    BY <1>0, <1>1 DEF Iterates
  <2> QED
    BY <1>3, <2>1
<1>5. it[0] = S
  BY <1>1, <1>3 DEF Iterates
<1>6. ASSUME NEW n \in Nat PROVE it[n + 1] = F[it[n]]
  <2>1. n + 1 \in Nat /\ n + 1 # 0 /\ n + 1 \in 0..n + 1 /\ (n + 1) - 1 = n
    OBVIOUS
  <2>2. first(n + 1)[n + 1] = F[first(n + 1)[n]]
    BY <1>1, <2>1 DEF Iterates
  <2>3. first(n + 1)[n] = first(n)[n]
    <3>1. n <= n + 1 /\ n <= n
      OBVIOUS
    <3> QED
      BY <1>1, <2>1, <3>1, IteratesAgree
  <2> QED
    BY <1>3, <2>1, <2>2, <2>3
<1> QED
  BY <1>4, <1>5, <1>6 DEF Iterable

\* One step along the pairs of t.
Grow(t, X) == X \union {e[2] : e \in {d \in t : d[1] \in X}}

\* Downwards is the iteration of such steps.
Descends(t, S) ==
  \E it \in [Nat -> SUBSET (S \union {e[2] : e \in t})] :
    /\ \A n \in Nat : Downwards(t, S, n) = it[n]
    /\ it[0] = S
    /\ \A n \in Nat : it[n + 1] = Grow(t, it[n])
LEMMA DownIterates == ASSUME NEW t, NEW S PROVE Descends(t, S)
<1>1. PICK U : U = S \union {e[2] : e \in t}
  OBVIOUS
<1>2. \A X \in SUBSET U : Grow(t, X) \in SUBSET U
  BY <1>1 DEF Grow
<1>3. \E F : F = [X \in SUBSET U |-> Grow(t, X)]
  OBVIOUS
<1>4. PICK F : F = [X \in SUBSET U |-> Grow(t, X)]
  BY <1>3
<1>5. F \in [SUBSET U -> SUBSET U] /\ \A X \in SUBSET U : F[X] = Grow(t, X)
  BY <1>2, <1>4
<1>6. PICK it \in [Nat -> SUBSET U] : it[0] = S /\ \A n \in Nat : it[n + 1] = F[it[n]]
  <2>1. S \in SUBSET U
    BY <1>1
  <2>2. Iterable(F, S, SUBSET U)
    BY <1>5, <2>1, Iteration
  <2> QED
    BY <2>2 DEF Iterable
<1>7. \A n \in Nat : it[n + 1] = Grow(t, it[n])
  BY <1>5, <1>6
<1>8. ASSUME NEW n \in Nat PROVE Downwards(t, S, n) = it[n]
  <2> DEFINE Body(f) == [k \in 0..n |-> IF k = 0 THEN S ELSE Grow(t, f[k - 1])]
             D == CHOOSE f : f = Body(f)
  <2>1. \E f : f = Body(f)
    <3>1. \E f : f = [k \in 0..n |-> it[k]]
      OBVIOUS
    <3>2. PICK f : f = [k \in 0..n |-> it[k]]
      BY <3>1
    <3>3. ASSUME NEW k \in 0..n, k # 0 PROVE f[k] = Grow(t, f[k - 1])
      <4>1. k \in Nat /\ k - 1 \in Nat /\ k - 1 \in 0..n /\ (k - 1) + 1 = k
        BY <3>3
      <4> QED
        BY <1>7, <3>2, <4>1
    <3>4. f[0] = S
      BY <1>6, <3>2
    <3>5. f = Body(f)
      BY <3>2, <3>3, <3>4
    <3> QED
      BY <3>5
  <2>2. D = Body(D)
    BY <2>1
  <2>3. Downwards(t, S, n) = D[n]
    BY DEF Downwards, Grow
  <2> HIDE DEF D
  <2>4. D[0] = S /\ \A k \in 0..n : k # 0 => D[k] = Grow(t, D[k - 1])
    BY <2>2
  <2> DEFINE odd == {k \in Nat : k <= n /\ D[k] # it[k]}
  <2>5. ASSUME odd # {} PROVE FALSE
    <3>1. PICK k \in odd : \A j \in odd : k <= j
      <4>1. odd \subseteq Nat
        OBVIOUS
      <4> HIDE DEF odd
      <4> QED
        BY <2>5, <4>1, LeastIn
    <3>2. k # 0
      BY <1>6, <2>4, <3>1
    <3>3. k - 1 \in Nat /\ k - 1 \notin odd /\ k \in 0..n /\ (k - 1) + 1 = k
      BY <3>1, <3>2
    <3>4. D[k - 1] = it[k - 1]
      BY <3>1, <3>3
    <3>5. D[k] = Grow(t, D[k - 1])
      BY <2>4, <3>2, <3>3
    <3>6. it[k] = Grow(t, it[k - 1])
      BY <1>7, <3>3
    <3> QED
      BY <3>1, <3>4, <3>5, <3>6
  <2> QED
    BY <2>3, <2>5
<1> QED
  BY <1>1, <1>6, <1>7, <1>8 DEF Descends

\* What it is after no step, and after one more.
LEMMA DownStep ==
  ASSUME NEW t, NEW S
  PROVE  /\ Downwards(t, S, 0) = S
         /\ \A n \in Nat : Downwards(t, S, n + 1) = Grow(t, Downwards(t, S, n))
<1>1. PICK it \in [Nat -> SUBSET (S \union {e[2] : e \in t})] :
        /\ \A n \in Nat : Downwards(t, S, n) = it[n]
        /\ it[0] = S
        /\ \A n \in Nat : it[n + 1] = Grow(t, it[n])
  <2>1. Descends(t, S)
    BY DownIterates
  <2> QED
    BY <2>1 DEF Descends
<1> QED
  BY <1>1
\* It grows with every step.
LEMMA DownGrows ==
  ASSUME NEW t, NEW S, NEW n \in Nat
  PROVE  Downwards(t, S, n) \subseteq Downwards(t, S, n + 1) /\ S \subseteq Downwards(t, S, n)
<1> DEFINE odd == {k \in Nat : ~(S \subseteq Downwards(t, S, k))}
<1>1. ASSUME NEW k \in Nat PROVE Downwards(t, S, k) \subseteq Downwards(t, S, k + 1)
  <2>1. Downwards(t, S, k + 1) = Grow(t, Downwards(t, S, k))
    BY DownStep
  <2> QED
    BY <2>1 DEF Grow
<1>2. ASSUME odd # {} PROVE FALSE
  <2>1. PICK k \in odd : \A j \in odd : k <= j
    <3>1. odd \subseteq Nat
      OBVIOUS
    <3> HIDE DEF odd
    <3> QED
      BY <1>2, <3>1, LeastIn
  <2>2. k # 0
    BY <2>1, DownStep
  <2>3. k - 1 \in Nat /\ k - 1 \notin odd /\ (k - 1) + 1 = k
    BY <2>1, <2>2
  <2>4. S \subseteq Downwards(t, S, k - 1)
    BY <2>3
  <2>5. Downwards(t, S, k - 1) \subseteq Downwards(t, S, k)
    BY <1>1, <2>3
  <2> QED
    BY <2>1, <2>4, <2>5
<1> QED
  BY <1>1, <1>2

\* There are no more functions with a body than their list has places.
LEMMA DefinedFinite == IsFiniteSet(DefinedFns) /\ Cardinality(DefinedFns) <= Len(Defined)
<1>1. Len(Defined) \in Nat
  BY CallGraphAssumption
<1>2. IsFiniteSet(1..Len(Defined)) /\ Cardinality(1..Len(Defined)) <= Len(Defined)
  BY <1>1, FS_Interval
<1>3. \E f : f = [j \in 1..Len(Defined) |-> Defined[j]]
  OBVIOUS
<1>4. PICK f : f = [j \in 1..Len(Defined) |-> Defined[j]]
  BY <1>3
<1>5. f \in Surjection(1..Len(Defined), DefinedFns)
  BY <1>4 DEF Surjection, DefinedFns
<1> QED
  BY <1>1, <1>2, <1>5, FS_Surjection, FS_CardinalityType

\* As many steps as there are functions with a body reach whatever can be
\* reached: a step that takes up no caller is the last but one that takes up
\* anything.
LEMMA Saturated ==
  ASSUME NEW t, \A e \in t : e[1] \in DefinedFns, NEW S
  PROVE  Grow(t, Downwards(t, S, Len(Defined))) = Downwards(t, S, Len(Defined))
<1> DEFINE Full(X) == Grow(t, X) = X
           Callers(X) == X \intersect DefinedFns
           D(k) == Downwards(t, S, k)
           Good(k) == Full(D(k)) \/ Cardinality(Callers(D(k))) > k
           bad == {k \in Nat : ~Good(k)}
<1>1. D(0) = S /\ \A n \in Nat : D(n + 1) = Grow(t, D(n))
  BY DownStep
<1>2. \A X : IsFiniteSet(Callers(X)) /\ Cardinality(Callers(X)) \in Nat
              /\ Cardinality(Callers(X)) <= Cardinality(DefinedFns)
  <2> SUFFICES ASSUME NEW X
               PROVE  IsFiniteSet(Callers(X)) /\ Cardinality(Callers(X)) \in Nat
                      /\ Cardinality(Callers(X)) <= Cardinality(DefinedFns)
    OBVIOUS
  <2>1. Callers(X) \in SUBSET DefinedFns
    OBVIOUS
  <2> HIDE DEF Callers
  <2> QED
    BY <2>1, DefinedFinite, FS_Subset, FS_CardinalityType
<1>3. \A X : Callers(X) = {} => Full(X)
  BY DEF Grow
<1>4. \A X : Callers(Grow(t, X)) = Callers(X) => Full(Grow(t, X))
  BY DEF Grow
<1>5. \A X : Callers(X) \subseteq Callers(Grow(t, X))
  BY DEF Grow
<1>6. \A X : Full(X) => Full(Grow(t, X))
  BY Zenon
<1>7. \A X : Callers(X) # {} => Cardinality(Callers(X)) > 0
  <2> SUFFICES ASSUME NEW X, Callers(X) # {} PROVE Cardinality(Callers(X)) > 0
    OBVIOUS
  <2> HIDE DEF Callers
  <2> QED
    BY <1>2, FS_EmptySet
<1>8. \A X : Callers(Grow(t, X)) # Callers(X)
             => Cardinality(Callers(Grow(t, X))) > Cardinality(Callers(X))
  <2> SUFFICES ASSUME NEW X, Callers(Grow(t, X)) # Callers(X)
               PROVE  Cardinality(Callers(Grow(t, X))) > Cardinality(Callers(X))
    OBVIOUS
  <2>1. Callers(X) \in SUBSET Callers(Grow(t, X))
    BY <1>5
  <2> HIDE DEF Callers
  <2>2. /\ Cardinality(Callers(X)) <= Cardinality(Callers(Grow(t, X)))
        /\ Cardinality(Callers(X)) # Cardinality(Callers(Grow(t, X)))
    BY <1>2, <2>1, FS_Subset
  <2> QED
    BY <1>2, <2>2
<1> HIDE DEF Full, Callers, D
<1>9. ASSUME bad # {} PROVE FALSE
  <2>1. PICK k \in bad : \A j \in bad : k <= j
    <3>1. bad \subseteq Nat
      OBVIOUS
    <3> HIDE DEF bad
    <3> QED
      BY <1>9, <3>1, LeastIn
  <2>2. k # 0
    BY <1>1, <1>3, <1>7, <2>1
  <2>3. PICK a : a = k - 1
    OBVIOUS
  <2>4. a \in Nat /\ a + 1 = k /\ a \notin bad
    BY <2>1, <2>2, <2>3
  <2>5. Good(a) /\ D(k) = Grow(t, D(a))
    <3>1. D(a + 1) = Grow(t, D(a))
      BY <1>1, <2>4
    <3> QED
      BY <2>4, <3>1
  <2>6. Good(k)
    <3>1. CASE Full(D(a)) \/ Callers(Grow(t, D(a))) = Callers(D(a))
      BY <1>4, <1>6, <2>5, <3>1
    <3>2. CASE /\ Cardinality(Callers(D(a))) > a
               /\ Callers(Grow(t, D(a))) # Callers(D(a))
      <4>1. Cardinality(Callers(D(k))) > Cardinality(Callers(D(a)))
        BY <1>8, <2>5, <3>2
      <4>2. Cardinality(Callers(D(k))) \in Nat /\ Cardinality(Callers(D(a))) \in Nat
        BY <1>2
      <4> QED
        BY <2>4, <3>2, <4>1, <4>2
    <3> QED
      BY <2>5, <3>1, <3>2
  <2> QED
    BY <2>1, <2>6
<1>10. Good(Len(Defined))
  <2>1. Len(Defined) \in Nat
    BY CallGraphAssumption
  <2> QED
    BY <1>9, <2>1
<1>11. ~(Cardinality(Callers(D(Len(Defined)))) > Len(Defined))
  <2>1. Len(Defined) \in Nat
    BY CallGraphAssumption
  <2> QED
    BY <1>2, <2>1, DefinedFinite, FS_CardinalityType
<1> QED
  BY <1>10, <1>11 DEF Full, D
\* It leads to members of S and ends of pairs only.
LEMMA DownRange ==
  ASSUME NEW t, NEW S, NEW n \in Nat
  PROVE  Downwards(t, S, n) \subseteq S \union {e[2] : e \in t}
<1>1. PICK it \in [Nat -> SUBSET (S \union {e[2] : e \in t})] :
        \A k \in Nat : Downwards(t, S, k) = it[k]
  <2>1. Descends(t, S)
    BY DownIterates
  <2> QED
    BY <2>1 DEF Descends
<1> QED
  BY <1>1

\* All that costs nothing from X, and Cheap, one shown call after the other.
FreeFrom(X) == Downwards(Hides, X, Len(Defined))
LEMMA CheapStep ==
  ASSUME NEW S
  PROVE  /\ Cheap(S, 0) = FreeFrom(S)
         /\ \A n \in Nat : Cheap(S, n + 1) = FreeFrom(Grow(Shows, Cheap(S, n)))
<1>0. PICK U : U = S \union {e[2] : e \in CallPairs}
  OBVIOUS
<1>1. \A X \in SUBSET U : FreeFrom(X) \in SUBSET U
  <2> SUFFICES ASSUME NEW X \in SUBSET U PROVE FreeFrom(X) \in SUBSET U
    OBVIOUS
  <2>1. Len(Defined) \in Nat
    BY CallGraphAssumption
  <2>2. FreeFrom(X) \subseteq X \union {e[2] : e \in Hides}
    BY <2>1, DownRange DEF FreeFrom
  <2>3. {e[2] : e \in Hides} \subseteq U
    BY <1>0 DEF Hides
  <2> QED
    BY <2>2, <2>3
<1>2. \A X \in SUBSET U : Grow(Shows, X) \in SUBSET U
  BY <1>0 DEF Grow, Shows
<1> DEFINE Step(X) == FreeFrom(Grow(Shows, X))
<1>3. \A X \in SUBSET U : Step(X) \in SUBSET U
  BY <1>1, <1>2
<1> HIDE DEF Step
<1>4. \E F : F = [X \in SUBSET U |-> Step(X)]
  OBVIOUS
<1>5. PICK F : F = [X \in SUBSET U |-> Step(X)]
  BY <1>4
<1>6. F \in [SUBSET U -> SUBSET U] /\ \A X \in SUBSET U : F[X] = Step(X)
  BY <1>3, <1>5
<1>7. PICK it \in [Nat -> SUBSET U] : it[0] = FreeFrom(S) /\ \A n \in Nat : it[n + 1] = F[it[n]]
  <2>1. FreeFrom(S) \in SUBSET U
    BY <1>0, <1>1
  <2>2. Iterable(F, FreeFrom(S), SUBSET U)
    BY <1>6, <2>1, Iteration
  <2> QED
    BY <2>2 DEF Iterable
<1>8. \A n \in Nat : it[n + 1] = Step(it[n])
  BY <1>6, <1>7
<1>9. ASSUME NEW n \in Nat PROVE Cheap(S, n) = it[n]
  <2> DEFINE Body(f) == [k \in 0..n |-> IF k = 0 THEN FreeFrom(S) ELSE Step(f[k - 1])]
             C == CHOOSE f : f = Body(f)
  <2>1. \E f : f = Body(f)
    <3>1. \E f : f = [k \in 0..n |-> it[k]]
      OBVIOUS
    <3>2. PICK f : f = [k \in 0..n |-> it[k]]
      BY <3>1
    <3>3. ASSUME NEW k \in 0..n, k # 0 PROVE f[k] = Step(f[k - 1])
      <4>1. k \in Nat /\ k - 1 \in Nat /\ k - 1 \in 0..n /\ (k - 1) + 1 = k
        BY <3>3
      <4> QED
        BY <1>8, <3>2, <4>1
    <3>4. f[0] = FreeFrom(S)
      BY <1>7, <3>2
    <3>5. f = Body(f)
      BY <3>2, <3>3, <3>4
    <3> QED
      BY <3>5
  <2>2. C = Body(C)
    BY <2>1
  <2>3. Cheap(S, n) = C[n]
    <3>1. \A X : Downwards(Shows, X, 1) = Grow(Shows, X)
      <4> SUFFICES ASSUME NEW X PROVE Downwards(Shows, X, 0 + 1) = Grow(Shows, X)
        OBVIOUS
      <4>1. Downwards(Shows, X, 0) = X
        BY DownStep
      <4>2. \A k \in Nat : Downwards(Shows, X, k + 1) = Grow(Shows, Downwards(Shows, X, k))
        BY DownStep
      <4> QED
        BY <4>1, <4>2
    <3>2. \A f : Body(f) = [k \in 0..n |-> IF k = 0 THEN Downwards(Hides, S, Len(Defined))
                  ELSE Downwards(Hides, Downwards(Shows, f[k - 1], 1), Len(Defined))]
      BY <3>1 DEF Step, FreeFrom
    <3>3. C = CHOOSE f : f = [k \in 0..n |-> IF k = 0 THEN Downwards(Hides, S, Len(Defined))
                  ELSE Downwards(Hides, Downwards(Shows, f[k - 1], 1), Len(Defined))]
      <4> HIDE DEF Body
      <4> QED
        BY <3>2
    <3> HIDE DEF C
    <3> QED
      BY <3>3 DEF Cheap
  <2> HIDE DEF C
  <2>4. C[0] = FreeFrom(S) /\ \A k \in 0..n : k # 0 => C[k] = Step(C[k - 1])
    BY <2>2
  <2> DEFINE odd == {k \in Nat : k <= n /\ C[k] # it[k]}
  <2>5. ASSUME odd # {} PROVE FALSE
    <3>1. PICK k \in odd : \A j \in odd : k <= j
      <4>1. odd \subseteq Nat
        OBVIOUS
      <4> HIDE DEF odd
      <4> QED
        BY <2>5, <4>1, LeastIn
    <3>2. k # 0
      BY <1>7, <2>4, <3>1
    <3>3. k - 1 \in Nat /\ k - 1 \notin odd /\ k \in 0..n /\ (k - 1) + 1 = k
      BY <3>1, <3>2
    <3>4. C[k - 1] = it[k - 1]
      BY <3>1, <3>3
    <3>5. C[k] = Step(C[k - 1])
      BY <2>4, <3>2, <3>3
    <3>6. it[k] = Step(it[k - 1])
      BY <1>8, <3>3
    <3> QED
      BY <3>1, <3>4, <3>5, <3>6
  <2> QED
    BY <2>3, <2>5
<1> QED
  BY <1>7, <1>8, <1>9 DEF Step

\* What is near: hidden calls keep it within n, a shown one leads to within n + 1.
LEMMA CheapFacts ==
  ASSUME NEW S, NEW n \in Nat
  PROVE  /\ S \subseteq Cheap(S, 0)
         /\ Cheap(S, n) \subseteq Cheap(S, n + 1)
         /\ \A c \in Shows : c[1] \in Cheap(S, n) => c[2] \in Cheap(S, n + 1)
         /\ \A c \in Hides : c[1] \in Cheap(S, n) => c[2] \in Cheap(S, n)
<1>0. Len(Defined) \in Nat
  BY CallGraphAssumption
<1>1. \A X : X \subseteq FreeFrom(X)
  BY <1>0, DownGrows DEF FreeFrom
<1>2. S \subseteq Cheap(S, 0)
  BY <1>1, CheapStep
<1>3. Cheap(S, n + 1) = FreeFrom(Grow(Shows, Cheap(S, n)))
  BY CheapStep
<1>4. Grow(Shows, Cheap(S, n)) \subseteq Cheap(S, n + 1)
  BY <1>1, <1>3
<1>5. /\ Cheap(S, n) \subseteq Cheap(S, n + 1)
      /\ \A c \in Shows : c[1] \in Cheap(S, n) => c[2] \in Cheap(S, n + 1)
  BY <1>4 DEF Grow
<1>6. \E X : Cheap(S, n) = FreeFrom(X)
  <2>1. CASE n = 0
    BY <2>1, CheapStep
  <2>2. CASE n # 0
    <3>1. PICK a : a = n - 1
      OBVIOUS
    <3>2. a \in Nat /\ a + 1 = n
      BY <2>2, <3>1
    <3>3. Cheap(S, a + 1) = FreeFrom(Grow(Shows, Cheap(S, a)))
      BY <3>2, CheapStep
    <3> QED
      BY <3>2, <3>3
  <2> QED
    BY <2>1, <2>2
<1>7. PICK X : Cheap(S, n) = FreeFrom(X)
  BY <1>6
<1>8. \A e \in Hides : e[1] \in DefinedFns
  BY DEF Hides, CallPairs
<1>9. Grow(Hides, Cheap(S, n)) = Cheap(S, n)
  <2>1. Grow(Hides, Downwards(Hides, X, Len(Defined))) = Downwards(Hides, X, Len(Defined))
    BY <1>8, Saturated
  <2> QED
    BY <1>7, <2>1 DEF FreeFrom
<1>10. \A c \in Hides : c[1] \in Cheap(S, n) => c[2] \in Cheap(S, n)
  <2>1. \A c \in Hides : c[1] \in Cheap(S, n) => c[2] \in Grow(Hides, Cheap(S, n))
    BY DEF Grow
  <2> QED
    BY <1>9, <2>1
<1> QED
  BY <1>2, <1>5, <1>10

\* The queue of "cg" is breadth first: hop[g] is how many calls away g was found, and
\* dep[g] how many of these count.
Ordered(lo, hop, dep, vis, queue) ==
  /\ \A i \in 1..Len(queue) : /\ queue[i].fn \in vis /\ lo[queue[i].fn] <= queue[i].at
                              /\ queue[i].depth = dep[queue[i].fn]
  /\ \A i, j \in 1..Len(queue) : i <= j => hop[queue[i].fn] <= hop[queue[j].fn]
  /\ queue # <<>> => \A u \in vis : hop[u] <= hop[queue[1].fn] + 1

\* Whatever was found is as near as its count says.
Near(near, hop, dep, vis) == \A u \in vis : dep[u] <= hop[u] /\ u \in near[dep[u]]

\* The edge k of u was looked at.
Followed(es, quiet, hop, vis, tr, u, k) ==
  /\ es[k].callee \in quiet \/ <<u, es[k].callee>> \in tr
  /\ \/ es[k].type = "CALLANYTHING"
     \/ es[k].callee \in vis /\ hop[es[k].callee] <= hop[u] + 1

\* All edges were looked at that are neither too deep nor still to come.
Covered(es, lo, hi, quiet, depth, hop, dep, vis, tr, queue) ==
  \A u \in vis : dep[u] < depth =>
    \A k \in lo[u] + 1 .. hi[u] :
      Followed(es, quiet, hop, vis, tr, u, k) \/ Pending(queue, u, k)

\* The queue begins with the function that was asked for.
LEMMA QueueBegins ==
  ASSUME NEW es, NEW lo \in [Functions -> Nat], NEW hi \in [Functions -> Nat],
         NEW quiet, NEW depth, NEW near, NEW frame \in FrameType,
         NEW zero, zero = [f \in Functions |-> 0],
         frame.at = lo[frame.fn], frame.depth = 0, frame.fn \in near[0]
  PROVE  /\ Ordered(lo, zero, zero, {frame.fn}, <<frame>>)
         /\ Near(near, zero, zero, {frame.fn})
         /\ Covered(es, lo, hi, quiet, depth, zero, zero, {frame.fn}, {}, <<frame>>)
<1>0. frame.fn \in Functions /\ zero[frame.fn] = 0 /\ lo[frame.fn] \in Nat
  BY DEF FrameType
<1>1. Ordered(lo, zero, zero, {frame.fn}, <<frame>>)
  BY <1>0 DEF Ordered
<1>2. Near(near, zero, zero, {frame.fn})
  BY <1>0 DEF Near
<1>3. ASSUME NEW k \in lo[frame.fn] + 1 .. hi[frame.fn] PROVE Pending(<<frame>>, frame.fn, k)
  <2>1. 1 \in 1..Len(<<frame>>) /\ <<frame>>[1] = frame /\ k > frame.at
    BY <1>0
  <2> QED
    BY <2>1 DEF Pending
<1>4. Covered(es, lo, hi, quiet, depth, zero, zero, {frame.fn}, {}, <<frame>>)
  BY <1>3 DEF Covered
<1> QED
  BY <1>1, <1>2, <1>4

\* A function that is found joins its end.
LEMMA QueueGrows ==
  ASSUME NEW es, NEW lo \in [Functions -> Nat], NEW hi \in [Functions -> Nat],
         NEW quiet, NEW depth, NEW near,
         NEW hop \in [Functions -> Nat], NEW dep \in [Functions -> Nat],
         NEW vis \in SUBSET Functions, NEW tr,
         NEW queue \in Seq(FrameType), queue # <<>>,
         Ordered(lo, hop, dep, vis, queue), Near(near, hop, dep, vis),
         Covered(es, lo, hi, quiet, depth, hop, dep, vis, tr, queue),
         NEW frame \in FrameType, frame.fn \notin vis, frame.at = lo[frame.fn],
         frame.depth <= hop[queue[1].fn] + 1, frame.fn \in near[frame.depth],
         NEW hop2, hop2 = [hop EXCEPT ![frame.fn] = hop[queue[1].fn] + 1],
         NEW dep2, dep2 = [dep EXCEPT ![frame.fn] = frame.depth]
  PROVE  /\ Ordered(lo, hop2, dep2, vis \union {frame.fn}, queue \o <<frame>>)
         /\ Near(near, hop2, dep2, vis \union {frame.fn})
         /\ Covered(es, lo, hi, quiet, depth, hop2, dep2, vis \union {frame.fn}, tr,
                    queue \o <<frame>>)
<1> DEFINE all == vis \union {frame.fn}
           long == queue \o <<frame>>
<1>0. /\ Len(queue) \in Nat /\ Len(queue) >= 1 /\ Len(long) = Len(queue) + 1
      /\ long[Len(queue) + 1] = frame /\ long # <<>>
      /\ \A i \in 1..Len(queue) : long[i] = queue[i]
  OBVIOUS
<1>1. /\ frame.fn \in Functions /\ frame.depth \in Nat
      /\ hop2[frame.fn] = hop[queue[1].fn] + 1 /\ dep2[frame.fn] = frame.depth
      /\ \A u \in vis : hop2[u] = hop[u] /\ dep2[u] = dep[u]
  BY DEF FrameType
<1>2. /\ \A i \in 1..Len(queue) : /\ queue[i].fn \in vis /\ lo[queue[i].fn] <= queue[i].at
                                  /\ queue[i].depth = dep[queue[i].fn]
      /\ \A i, j \in 1..Len(queue) : i <= j => hop[queue[i].fn] <= hop[queue[j].fn]
      /\ \A u \in vis : hop[u] <= hop[queue[1].fn] + 1
  BY DEF Ordered
<1>3. hop[queue[1].fn] \in Nat /\ \A u \in vis : hop[u] \in Nat
  BY <1>0, <1>2
<1> HIDE DEF long
<1>31. ASSUME NEW i \in 1..Len(queue)
       PROVE  /\ long[i] = queue[i] /\ queue[i].fn \in vis
              /\ hop2[long[i].fn] = hop[queue[i].fn] /\ dep2[long[i].fn] = dep[queue[i].fn]
  <2>1. long[i] = queue[i] /\ queue[i].fn \in vis
    BY <1>0, <1>2
  <2> QED
    BY <1>1, <2>1
<1>4. Ordered(lo, hop2, dep2, all, long)
  <2>1. ASSUME NEW i \in 1..Len(long)
        PROVE  /\ long[i].fn \in all /\ lo[long[i].fn] <= long[i].at
               /\ long[i].depth = dep2[long[i].fn]
    <3>1. CASE i \in 1..Len(queue)
      <4>1. long[i] = queue[i] /\ dep2[long[i].fn] = dep[queue[i].fn]
        BY <1>31, <3>1
      <4>2. /\ queue[i].fn \in vis /\ lo[queue[i].fn] <= queue[i].at
            /\ queue[i].depth = dep[queue[i].fn]
        BY <1>2, <3>1
      <4> QED
        BY <4>1, <4>2
    <3>2. CASE i = Len(queue) + 1
      <4>1. lo[frame.fn] \in Nat /\ long[i] = frame
        BY <1>0, <1>1, <3>2
      <4> QED
        BY <1>1, <4>1
    <3> QED
      BY <1>0, <3>1, <3>2
  <2>2. ASSUME NEW i \in 1..Len(long), NEW j \in 1..Len(long), i <= j
        PROVE  hop2[long[i].fn] <= hop2[long[j].fn]
    <3>1. CASE j \in 1..Len(queue)
      <4>1. i \in 1..Len(queue)
        BY <1>0, <2>2, <3>1
      <4>2. hop[queue[i].fn] <= hop[queue[j].fn]
        BY <1>2, <2>2, <3>1, <4>1
      <4> QED
        BY <1>31, <3>1, <4>1, <4>2
    <3>2. CASE j = Len(queue) + 1 /\ i \in 1..Len(queue)
      <4>1. hop2[long[i].fn] = hop[queue[i].fn] /\ queue[i].fn \in vis
        BY <1>31, <3>2
      <4>2. hop2[long[j].fn] = hop[queue[1].fn] + 1
        BY <1>0, <1>1, <3>2
      <4>3. hop[queue[i].fn] <= hop[queue[1].fn] + 1
        BY <1>2, <4>1
      <4> QED
        BY <4>1, <4>2, <4>3
    <3>3. CASE j = Len(queue) + 1 /\ i = Len(queue) + 1
      BY <1>0, <1>1, <1>3, <3>3
    <3> QED
      BY <1>0, <3>1, <3>2, <3>3
  <2>3. ASSUME NEW u \in all PROVE hop2[u] <= hop2[long[1].fn] + 1
    <3>1. long[1] = queue[1] /\ queue[1].fn \in vis
      BY <1>0, <1>2
    <3>2. hop2[long[1].fn] = hop[queue[1].fn]
      BY <1>1, <3>1
    <3>3. CASE u \in vis
      BY <1>1, <1>2, <3>2, <3>3
    <3>4. CASE u = frame.fn
      BY <1>1, <1>3, <3>2, <3>4
    <3> QED
      BY <3>3, <3>4
  <2> QED
    BY <2>1, <2>2, <2>3 DEF Ordered
<1>5. Near(near, hop2, dep2, all)
  BY <1>1 DEF Near
<1>6. Covered(es, lo, hi, quiet, depth, hop2, dep2, all, tr, long)
  <2> SUFFICES ASSUME NEW u \in all, dep2[u] < depth, NEW k \in lo[u] + 1 .. hi[u]
               PROVE  Followed(es, quiet, hop2, all, tr, u, k) \/ Pending(long, u, k)
    BY DEF Covered
  <2>1. CASE u = frame.fn
    <3>1. Len(queue) + 1 \in 1..Len(long) /\ k > frame.at
      <4>1. lo[frame.fn] \in Nat
        BY <1>1
      <4> QED
        BY <1>0, <2>1, <4>1
    <3> QED
      BY <1>0, <2>1, <3>1 DEF Pending
  <2>2. CASE u \in vis
    <3>1. Followed(es, quiet, hop, vis, tr, u, k) \/ Pending(queue, u, k)
      BY <1>1, <2>2 DEF Covered
    <3>2. CASE Followed(es, quiet, hop, vis, tr, u, k)
      BY <1>1, <2>2, <3>2 DEF Followed
    <3>3. CASE Pending(queue, u, k)
      <4>1. PICK i \in 1..Len(queue) : queue[i].fn = u /\ k > queue[i].at
        BY <3>3 DEF Pending
      <4>2. i \in 1..Len(long) /\ long[i] = queue[i]
        BY <1>0
      <4> QED
        BY <4>1, <4>2 DEF Pending
    <3> QED
      BY <3>1, <3>2, <3>3
  <2> QED
    BY <2>1, <2>2
<1> QED
  BY <1>4, <1>5, <1>6 DEF long

\* An edge of its head has been looked at.
LEMMA QueueAdvances ==
  ASSUME NEW es, NEW lo \in [Functions -> Nat], NEW hi \in [Functions -> Nat],
         NEW quiet, NEW depth,
         NEW hop \in [Functions -> Nat], NEW dep \in [Functions -> Nat],
         NEW vis \in SUBSET Functions, NEW tr, NEW tr2, tr \subseteq tr2,
         NEW queue \in Seq(FrameType), queue # <<>>,
         Ordered(lo, hop, dep, vis, queue),
         Covered(es, lo, hi, quiet, depth, hop, dep, vis, tr, queue),
         Followed(es, quiet, hop, vis, tr2, queue[1].fn, queue[1].at + 1)
  PROVE  /\ Ordered(lo, hop, dep, vis, <<Next1(queue[1])>> \o Tail(queue))
         /\ Covered(es, lo, hi, quiet, depth, hop, dep, vis, tr2,
                    <<Next1(queue[1])>> \o Tail(queue))
<1> DEFINE next == <<Next1(queue[1])>> \o Tail(queue)
<1>0. /\ Len(queue) \in Nat /\ 1 \in 1..Len(queue) /\ Len(next) = Len(queue)
      /\ next[1] = Next1(queue[1])
      /\ \A i \in 2..Len(queue) : next[i] = queue[i]
      /\ \A i \in 1..Len(queue) : queue[i] \in FrameType
  <2>1. Len(queue) \in Nat /\ Len(queue) >= 1
    OBVIOUS
  <2>2. Len(Tail(queue)) = Len(queue) - 1 /\ \A i \in 1..Len(queue) - 1 : Tail(queue)[i] = queue[i + 1]
    BY <2>1
  <2>3. Len(next) = Len(queue) /\ next[1] = Next1(queue[1])
    BY <2>1, <2>2
  <2>4. ASSUME NEW i \in 2..Len(queue) PROVE next[i] = queue[i]
    <3>1. i - 1 \in 1..Len(queue) - 1 /\ (i - 1) + 1 = i
      BY <2>1
    <3>2. next[i] = Tail(queue)[i - 1]
      BY <2>1, <2>2, <3>1
    <3> QED
      BY <2>2, <3>1, <3>2
  <2> QED
    BY <2>1, <2>3, <2>4
<1>1. /\ Next1(queue[1]).fn = queue[1].fn /\ Next1(queue[1]).depth = queue[1].depth
      /\ Next1(queue[1]).at = queue[1].at + 1 /\ queue[1].at \in Nat
  BY <1>0 DEF Next1, FrameType
<1> HIDE DEF next
<1>2. \A i \in 1..Len(queue) :
        /\ next[i].fn = queue[i].fn /\ next[i].depth = queue[i].depth
        /\ i # 1 => next[i] = queue[i]
  BY <1>0, <1>1
<1>3. Ordered(lo, hop, dep, vis, next)
  <2>1. /\ \A i \in 1..Len(queue) : /\ queue[i].fn \in vis /\ lo[queue[i].fn] <= queue[i].at
                                    /\ queue[i].depth = dep[queue[i].fn]
        /\ \A i, j \in 1..Len(queue) : i <= j => hop[queue[i].fn] <= hop[queue[j].fn]
        /\ \A u \in vis : hop[u] <= hop[queue[1].fn] + 1
    BY DEF Ordered
  <2>2. \A i \in 1..Len(queue) : lo[next[i].fn] <= next[i].at
    <3> SUFFICES ASSUME NEW i \in 1..Len(queue) PROVE lo[next[i].fn] <= next[i].at
      OBVIOUS
    <3>1. CASE i = 1
      <4>1. lo[queue[1].fn] \in Nat /\ lo[queue[1].fn] <= queue[1].at
        BY <1>0, <2>1
      <4> QED
        BY <1>0, <1>1, <3>1, <4>1
    <3>2. CASE i # 1
      BY <1>2, <2>1, <3>2
    <3> QED
      BY <3>1, <3>2
  <2> QED
    BY <1>0, <1>2, <2>1, <2>2 DEF Ordered
<1>4. Covered(es, lo, hi, quiet, depth, hop, dep, vis, tr2, next)
  <2> SUFFICES ASSUME NEW u \in vis, dep[u] < depth, NEW k \in lo[u] + 1 .. hi[u]
               PROVE  Followed(es, quiet, hop, vis, tr2, u, k) \/ Pending(next, u, k)
    BY DEF Covered
  <2>1. Followed(es, quiet, hop, vis, tr, u, k) \/ Pending(queue, u, k)
    BY DEF Covered
  <2>2. CASE Followed(es, quiet, hop, vis, tr, u, k)
    BY <2>2 DEF Followed
  <2>3. CASE Pending(queue, u, k)
    <3>1. PICK i \in 1..Len(queue) : queue[i].fn = u /\ k > queue[i].at
      BY <2>3 DEF Pending
    <3>2. CASE i = 1 /\ k = queue[1].at + 1
      BY <3>1, <3>2
    <3>3. CASE i # 1 \/ k # queue[1].at + 1
      <4>2. k \in Int
        <5>1. lo[u] \in Nat /\ hi[u] \in Nat
          OBVIOUS
        <5> QED
          BY <5>1
      <4>3. PICK a : a = queue[1].at
        OBVIOUS
      <4>1. i = 1 => k > queue[1].at + 1
        <5> SUFFICES ASSUME i = 1 PROVE k > a + 1
          BY <4>3
        <5>1. a \in Nat /\ k > a /\ k # a + 1
          BY <1>1, <3>1, <3>3, <4>3
        <5> QED
          BY <4>2, <5>1
      <4>4. i \in 1..Len(next) /\ next[i].fn = u /\ k > next[i].at
        BY <1>0, <1>1, <1>2, <3>1, <4>1, <4>2
      <4> QED
        BY <4>4 DEF Pending
    <3> QED
      BY <3>2, <3>3
  <2> QED
    BY <2>1, <2>2, <2>3
<1> QED
  BY <1>3, <1>4 DEF next

\* Its head is done, or too deep.
LEMMA QueuePops ==
  ASSUME NEW es, NEW lo \in [Functions -> Nat], NEW hi \in [Functions -> Nat],
         NEW quiet, NEW depth,
         NEW hop \in [Functions -> Nat], NEW dep \in [Functions -> Nat],
         NEW vis \in SUBSET Functions, NEW tr,
         NEW queue \in Seq(FrameType), queue # <<>>,
         Ordered(lo, hop, dep, vis, queue),
         Covered(es, lo, hi, quiet, depth, hop, dep, vis, tr, queue),
         ~(queue[1].depth < depth /\ queue[1].at < hi[queue[1].fn])
  PROVE  /\ Ordered(lo, hop, dep, vis, Tail(queue))
         /\ Covered(es, lo, hi, quiet, depth, hop, dep, vis, tr, Tail(queue))
<1> DEFINE rest == Tail(queue)
<1>0. /\ Len(queue) \in Nat /\ 1 \in 1..Len(queue) /\ Len(rest) = Len(queue) - 1
      /\ \A i \in 1..Len(rest) : i + 1 \in 1..Len(queue) /\ rest[i] = queue[i + 1]
      /\ rest # <<>> => 1 \in 1..Len(rest)
      /\ \A i \in 1..Len(queue) : queue[i] \in FrameType
  <2>1. Len(queue) \in Nat /\ Len(queue) >= 1 /\ rest \in Seq(FrameType)
    OBVIOUS
  <2>2. Len(rest) = Len(queue) - 1 /\ \A i \in 1..Len(rest) : rest[i] = queue[i + 1]
    BY <2>1
  <2>3. rest # <<>> => 1 \in 1..Len(rest)
    BY <2>1
  <2> HIDE DEF rest
  <2> QED
    BY <2>1, <2>2, <2>3
<1> HIDE DEF rest
<1>1. /\ \A i \in 1..Len(queue) : /\ queue[i].fn \in vis /\ lo[queue[i].fn] <= queue[i].at
                                  /\ queue[i].depth = dep[queue[i].fn]
      /\ \A i, j \in 1..Len(queue) : i <= j => hop[queue[i].fn] <= hop[queue[j].fn]
      /\ \A u \in vis : hop[u] <= hop[queue[1].fn] + 1
  BY DEF Ordered
<1>2. Ordered(lo, hop, dep, vis, rest)
  <2>1. \A i, j \in 1..Len(rest) : i <= j => hop[rest[i].fn] <= hop[rest[j].fn]
    <3> SUFFICES ASSUME NEW i \in 1..Len(rest), NEW j \in 1..Len(rest), i <= j
                 PROVE  hop[rest[i].fn] <= hop[rest[j].fn]
      OBVIOUS
    <3>1. i + 1 \in 1..Len(queue) /\ j + 1 \in 1..Len(queue) /\ i + 1 <= j + 1
      BY <1>0
    <3> QED
      BY <1>0, <1>1, <3>1
  <2>2. ASSUME rest # <<>>, NEW u \in vis PROVE hop[u] <= hop[rest[1].fn] + 1
    <3>1. 1 \in 1..Len(rest) /\ 2 \in 1..Len(queue) /\ rest[1] = queue[2]
      BY <1>0, <2>2
    <3>2. hop[queue[1].fn] <= hop[queue[2].fn]
      BY <1>0, <1>1, <3>1
    <3>3. PICK a, b, c : a = hop[u] /\ b = hop[queue[1].fn] /\ c = hop[queue[2].fn]
      OBVIOUS
    <3>4. a \in Nat /\ b \in Nat /\ c \in Nat
      BY <1>0, <1>1, <3>1, <3>3
    <3>5. a <= b + 1 /\ b <= c
      BY <1>1, <3>2, <3>3
    <3>6. a <= c + 1
      BY <3>4, <3>5
    <3> QED
      BY <3>1, <3>3, <3>6
  <2>3. ASSUME NEW i \in 1..Len(rest)
        PROVE  /\ rest[i].fn \in vis /\ lo[rest[i].fn] <= rest[i].at
               /\ rest[i].depth = dep[rest[i].fn]
    <3>1. i + 1 \in 1..Len(queue) /\ rest[i] = queue[i + 1]
      BY <1>0
    <3> QED
      BY <1>1, <3>1
  <2> QED
    BY <2>1, <2>2, <2>3 DEF Ordered
<1>3. Covered(es, lo, hi, quiet, depth, hop, dep, vis, tr, rest)
  <2> SUFFICES ASSUME NEW u \in vis, dep[u] < depth, NEW k \in lo[u] + 1 .. hi[u]
               PROVE  Followed(es, quiet, hop, vis, tr, u, k) \/ Pending(rest, u, k)
    BY DEF Covered
  <2>1. Followed(es, quiet, hop, vis, tr, u, k) \/ Pending(queue, u, k)
    BY DEF Covered
  <2>2. ASSUME Pending(queue, u, k) PROVE Pending(rest, u, k)
    <3>1. PICK i \in 1..Len(queue) : queue[i].fn = u /\ k > queue[i].at
      BY <2>2 DEF Pending
    <3>2. i # 1
      <4> SUFFICES ASSUME i = 1 PROVE FALSE
        OBVIOUS
      <4>1. queue[1].depth = dep[u] /\ u = queue[1].fn /\ queue[1].at \in Nat /\ hi[u] \in Nat
        BY <1>0, <1>1, <3>1 DEF FrameType
      <4>2. k <= hi[u] /\ k > queue[1].at /\ k \in Int
        BY <3>1, <4>1
      <4>3. queue[1].at < hi[queue[1].fn]
        BY <4>1, <4>2
      <4> QED
        BY <4>1, <4>3
    <3>3. PICK a : a = i - 1
      OBVIOUS
    <3>4. a \in 1..Len(rest) /\ a + 1 = i
      BY <1>0, <3>2, <3>3
    <3>5. rest[a] = queue[i]
      BY <1>0, <3>4
    <3> QED
      BY <3>1, <3>4, <3>5 DEF Pending
  <2> QED
    BY <2>1, <2>2
<1> QED
  BY <1>2, <1>3 DEF rest

\* The near is nearer than the far.
LEMMA CheapMonotone ==
  ASSUME NEW S, NEW n \in Nat, NEW m \in Nat, n <= m
  PROVE  Cheap(S, n) \subseteq Cheap(S, m)
<1> DEFINE odd == {k \in Nat : n <= k /\ ~(Cheap(S, n) \subseteq Cheap(S, k))}
<1>1. ASSUME odd # {} PROVE FALSE
  <2>1. PICK k \in odd : \A j \in odd : k <= j
    <3>1. odd \subseteq Nat
      OBVIOUS
    <3> HIDE DEF odd
    <3> QED
      BY <1>1, <3>1, LeastIn
  <2>2. k # n
    BY <2>1
  <2>3. PICK a : a = k - 1
    OBVIOUS
  <2>4. a \in Nat /\ a + 1 = k /\ n <= a /\ a \notin odd
    BY <2>1, <2>2, <2>3
  <2>5. Cheap(S, n) \subseteq Cheap(S, a)
    BY <2>4
  <2>6. Cheap(S, a) \subseteq Cheap(S, a + 1)
    BY <2>4, CheapFacts
  <2> QED
    BY <2>1, <2>4, <2>5, <2>6
<1> QED
  BY <1>1

\* The silenced functions, and what is near to the function that was asked for.
Quiet   == {g \in Functions : IsSilent(g)}
NearNow == [n \in Nat |-> Cheap({query.from}, n)]

\* The queue with the counts hop and dep.
Growing(hop, dep) ==
  /\ query.from \in visited /\ hop[query.from] = 0
  /\ Ordered(Lo, hop, dep, visited, work)
  /\ Near(NearNow, hop, dep, visited)
  /\ Covered(edges, Lo, Hi, Quiet, query.depth, hop, dep, visited, tree, work)
Grows == \E hop, dep \in [Functions -> Nat] : Growing(hop, dep)

\* The calls of t are shown ones of functions that are near enough.
RightlyShown(t) ==
  \A e \in t : query.depth > 0 /\ e \in Shows /\ e[1] \in Cheap({query.from}, query.depth - 1)

TreeInv ==
  /\ query.depth \in Nat
  /\ pc = "tree" => Grows /\ RightlyShown(tree)
  /\ TreeExact

\* What these are made of stays while a query is served.
LEMMA CallPairsStay ==
  UNCHANGED <<analysis, cgPatchOut, silence>>
  => /\ Shows' = Shows /\ Hides' = Hides /\ Quiet' = Quiet
     /\ \A S, n : Cheap(S, n)' = Cheap(S, n)
<1> SUFFICES ASSUME UNCHANGED <<analysis, cgPatchOut, silence>>
             PROVE  /\ Shows' = Shows /\ Hides' = Hides /\ Quiet' = Quiet
                    /\ \A S, n : Cheap(S, n)' = Cheap(S, n)
  OBVIOUS
<1>1. \A f : Calls(f)' = Calls(f)
  BY CallsStay
<1>2. CallPairs' = CallPairs
  <2>1. \A c : c \in CallPairs <=> \E f \in DefinedFns : \E e \in Calls(f) : c = <<f, e.callee>>
    BY DEF CallPairs
  <2>2. \A c : c \in CallPairs' <=> \E f \in DefinedFns : \E e \in Calls(f)' : c = <<f, e.callee>>
    BY DEF CallPairs
  <2>3. \A c : c \in CallPairs' <=> c \in CallPairs
    BY <1>1, <2>1, <2>2
  <2> QED
    BY <2>3
<1>3. \A g : IsSilent(g)' = IsSilent(g)
  BY DEF IsSilent
<1>4. Shows' = Shows
  BY <1>2, <1>3 DEF Shows
<1>5. Hides' = Hides
  BY <1>2, <1>4 DEF Hides
<1>6. \A S, n : Cheap(S, n)' = Cheap(S, n)
  BY <1>4, <1>5, Zenon DEF Cheap
<1>7. Quiet' = Quiet
  BY <1>3 DEF Quiet
<1> QED
  BY <1>4, <1>5, <1>6, <1>7

LEMMA TreeFrame ==
  UNCHANGED <<kept, built>>
  => /\ Lo' = Lo /\ Hi' = Hi /\ edges' = edges /\ query' = query
     /\ Quiet' = Quiet /\ NearNow' = NearNow /\ Shows' = Shows
     /\ \A S, n : Cheap(S, n)' = Cheap(S, n)
<1> SUFFICES ASSUME UNCHANGED <<kept, built>>
             PROVE  /\ Lo' = Lo /\ Hi' = Hi /\ edges' = edges /\ query' = query
                    /\ Quiet' = Quiet /\ NearNow' = NearNow /\ Shows' = Shows
                    /\ \A S, n : Cheap(S, n)' = Cheap(S, n)
  OBVIOUS
<1>1. UNCHANGED <<edges, CG, query, analysis, cgPatchOut, silence>>
  BY DEF kept, built, graphVars, patchVars, fixedVars
<1>2. Lo' = Lo /\ Hi' = Hi
  BY <1>1 DEF Lo, Hi, StartOf, EndOf
<1>3. /\ Shows' = Shows /\ Quiet' = Quiet
      /\ \A S, n : Cheap(S, n)' = Cheap(S, n)
  BY <1>1, CallPairsStay
<1>4. NearNow' = NearNow
  BY <1>1, <1>3, Zenon DEF NearNow
<1> QED
  BY <1>1, <1>2, <1>3, <1>4

\* The pairs are the edges of the ranges.
LEMMA PairFacts ==
  ASSUME GraphInv, cgBuilt
  PROVE  /\ Nobody \notin Quiet /\ \A g : IsSilent(g) <=> g \in Quiet
         /\ \A u \in Functions : \A k \in Lo[u] + 1 .. Hi[u] :
              /\ edges[k].callee \in Quiet => <<u, edges[k].callee>> \in Hides
              /\ edges[k].callee \notin Quiet => <<u, edges[k].callee>> \in Shows
              /\ edges[k].type = "CALLANYTHING" \/ edges[k].callee \in Functions
              /\ edges[k].type = "CALLANYTHING" => edges[k].callee = Nobody
         /\ \A c \in Shows : /\ c[1] \in DefinedFns /\ c = <<c[1], c[2]>> /\ c[2] \notin Quiet
                             /\ \E k \in Lo[c[1]] + 1 .. Hi[c[1]] : edges[k].callee = c[2]
<1>0. Nobody \notin Functions /\ Silenced \subseteq Functions
  BY CallGraphAssumption
<1>1. Nobody \notin Quiet /\ \A g : IsSilent(g) <=> g \in Quiet
  BY <1>0 DEF Quiet, IsSilent
<1>2. \A f \in Functions : Calls(f) = {edges[k] : k \in Lo[f] + 1 .. Hi[f]}
  BY Ranges
<1>3. ASSUME NEW u \in Functions, NEW k \in Lo[u] + 1 .. Hi[u]
      PROVE  /\ edges[k].callee \in Quiet => <<u, edges[k].callee>> \in Hides
             /\ edges[k].callee \notin Quiet => <<u, edges[k].callee>> \in Shows
             /\ edges[k].type = "CALLANYTHING" \/ edges[k].callee \in Functions
             /\ edges[k].type = "CALLANYTHING" => edges[k].callee = Nobody
  <2>1. edges[k] \in EdgeType /\ (edges[k].type = "CALLANYTHING" \/ edges[k].callee \in Functions)
    BY Ranges
  <2>2. edges[k] \in Calls(u)
    BY <1>2
  <2>3. u \in DefinedFns
    BY <2>2, CallerIs DEF GraphInv
  <2>4. <<u, edges[k].callee>> \in CallPairs
    BY <2>2, <2>3 DEF CallPairs
  <2>5. edges[k].type = "CALLANYTHING" => edges[k].callee = Nobody
    BY <2>1 DEF EdgeType
  <2> QED
    BY <1>1, <2>1, <2>4, <2>5 DEF Hides, Shows
<1>4. ASSUME NEW c \in Shows
      PROVE  /\ c[1] \in DefinedFns /\ c = <<c[1], c[2]>> /\ c[2] \notin Quiet
             /\ \E k \in Lo[c[1]] + 1 .. Hi[c[1]] : edges[k].callee = c[2]
  <2>1. c \in CallPairs /\ ~IsSilent(c[2])
    BY DEF Shows
  <2>2. PICK f \in DefinedFns : \E e \in Calls(f) : c = <<f, e.callee>>
    BY <2>1 DEF CallPairs
  <2>3. PICK e \in Calls(f) : c = <<f, e.callee>>
    BY <2>2
  <2>4. f \in Functions
    BY DEF Functions
  <2>5. PICK k \in Lo[f] + 1 .. Hi[f] : e = edges[k]
    BY <1>2, <2>4
  <2> QED
    BY <1>1, <2>1, <2>3, <2>5
<1> QED
  BY <1>1, <1>3, <1>4
\* When the queue is empty, the tree holds every way of shown calls that is short
\* enough.
LEMMA TreeReaches ==
  ASSUME GraphInv, cgBuilt, query.from \in Functions, query.depth \in Nat,
         work = <<>>, Grows, RightlyShown(tree)
  PROVE  Downwards(Shows, {query.from}, query.depth)
           \subseteq {query.from} \union {e[2] : e \in Shown(query.from)}
<1>1. PICK hop, dep \in [Functions -> Nat] : Growing(hop, dep)
  BY DEF Grows
<1> DEFINE W == Downwards(tree, {query.from}, Len(Defined))
           D(k) == Downwards(Shows, {query.from}, k)
           Reached(g, k) == /\ g \in W /\ (g \in Functions => g \in visited /\ hop[g] <= k)
                            /\ g = query.from \/ \E e \in tree : e[1] \in W /\ e[2] = g
           bad == {k \in Nat : k <= query.depth /\ ~(\A g \in D(k) : Reached(g, k))}
<1>2. Len(Defined) \in Nat
  BY CallGraphAssumption
<1>3. query.from \in W
  BY <1>2, DownGrows
<1>4. \A e \in tree : e[1] \in W => e[2] \in W
  <2>1. \A e \in tree : e[1] \in DefinedFns
    BY PairFacts DEF RightlyShown
  <2>2. Grow(tree, W) = W
    BY <2>1, Saturated
  <2>3. \A e \in tree : e[1] \in W => e[2] \in Grow(tree, W)
    BY DEF Grow
  <2> QED
    BY <2>2, <2>3
<1>5. D(0) = {query.from} /\ \A k \in Nat : D(k + 1) = Grow(Shows, D(k))
  BY DownStep
<1> HIDE DEF W, D
<1>6. /\ query.from \in visited /\ hop[query.from] = 0
      /\ \A u \in visited : dep[u] <= hop[u]
      /\ \A u \in visited : dep[u] < query.depth =>
           \A k \in Lo[u] + 1 .. Hi[u] : Followed(edges, Quiet, hop, visited, tree, u, k)
  <2>1. \A u, k : ~Pending(work, u, k)
    BY DEF Pending
  <2> QED
    BY <1>1, <2>1 DEF Growing, Near, Covered
<1>7. ASSUME bad # {} PROVE FALSE
  <2>1. PICK k \in bad : \A j \in bad : k <= j
    <3>1. bad \subseteq Nat
      OBVIOUS
    <3> HIDE DEF bad
    <3> QED
      BY <1>7, <3>1, LeastIn
  <2>2. k # 0
    BY <1>3, <1>5, <1>6, <2>1
  <2>3. PICK a : a = k - 1
    OBVIOUS
  <2>4. a \in Nat /\ a + 1 = k /\ a < query.depth /\ a \notin bad
    BY <2>1, <2>2, <2>3
  <2>5. \A g \in D(a) : Reached(g, a)
    BY <2>4
  <2>6. PICK g \in D(k) : ~Reached(g, k)
    BY <2>1
  <2>7. g \in Grow(Shows, D(a))
    <3>1. D(a + 1) = Grow(Shows, D(a))
      BY <1>5, <2>4
    <3> QED
      BY <2>4, <2>6, <3>1
  <2>8. visited \subseteq Functions
    BY WalkFacts DEF GraphInv
  <2>9. CASE g \in D(a)
    <3>1. Reached(g, a)
      BY <2>5, <2>9
    <3>2. g \in Functions => hop[g] \in Nat /\ hop[g] <= k
      BY <2>4, <3>1
    <3> QED
      BY <2>6, <3>1, <3>2
  <2>10. CASE g \notin D(a)
    <3>1. PICK c \in Shows : c[1] \in D(a) /\ c[2] = g
      BY <2>7, <2>10 DEF Grow
    <3>2. /\ c[1] \in DefinedFns /\ c = <<c[1], c[2]>> /\ c[2] \notin Quiet
          /\ \E j \in Lo[c[1]] + 1 .. Hi[c[1]] : edges[j].callee = c[2]
      BY PairFacts
    <3>3. PICK j \in Lo[c[1]] + 1 .. Hi[c[1]] : edges[j].callee = c[2]
      BY <3>2
    <3>4. PICK u : u = c[1]
      OBVIOUS
    <3>5. u \in Functions /\ u \in W /\ u \in visited /\ hop[u] <= a
      BY <2>5, <3>1, <3>2, <3>4 DEF Functions
    <3>6. dep[u] < query.depth
      <4>1. dep[u] \in Nat /\ hop[u] \in Nat /\ dep[u] <= hop[u]
        BY <1>6, <3>5
      <4> QED
        BY <2>4, <3>5, <4>1
    <3>7. Followed(edges, Quiet, hop, visited, tree, u, j)
      BY <1>6, <3>3, <3>4, <3>5, <3>6
    <3>8. <<u, g>> \in tree
      BY <3>1, <3>2, <3>3, <3>7 DEF Followed
    <3>9. g \in W /\ \E e \in tree : e[1] \in W /\ e[2] = g
      <4>1. <<u, g>>[1] = u /\ <<u, g>>[2] = g
        OBVIOUS
      <4> QED
        BY <1>4, <3>5, <3>8, <4>1
    <3>10. g \in Functions => g \in visited /\ hop[g] <= k
      <4> SUFFICES ASSUME g \in Functions PROVE g \in visited /\ hop[g] <= k
        OBVIOUS
      <4>1. edges[j].type # "CALLANYTHING"
        <5>1. Nobody \notin Functions
          BY CallGraphAssumption
        <5>2. edges[j].type = "CALLANYTHING" => edges[j].callee = Nobody
          BY <3>3, <3>4, <3>5, PairFacts
        <5> QED
          BY <3>1, <3>3, <5>1, <5>2
      <4>2. g \in visited /\ hop[g] <= hop[u] + 1
        BY <3>1, <3>3, <3>7, <4>1 DEF Followed
      <4>3. hop[g] \in Nat /\ hop[u] \in Nat
        BY <3>5
      <4> QED
        BY <2>4, <3>5, <4>2, <4>3
    <3> QED
      BY <2>6, <3>9, <3>10
  <2> QED
    BY <2>9, <2>10
<1>8. \A g \in D(query.depth) : Reached(g, query.depth)
  BY <1>7
<1>9. Shown(query.from) = {e \in tree : e[1] \in W}
  BY DEF Shown, W
<1>10. \A g \in D(query.depth) : g = query.from \/ \E e \in Shown(query.from) : e[2] = g
  BY <1>8, <1>9
<1> QED
  BY <1>10 DEF D

\* The walk that begins.
LEMMA TreeBegins ==
  GraphInv /\ ReachInv /\ TreeInv /\ TreeBegin => TreeInv'
<1> SUFFICES ASSUME GraphInv, ReachInv, TreeInv, TreeBegin PROVE TreeInv'
  OBVIOUS
<1> DEFINE frame == Frame(query.from, 0)
<1>1. /\ UNCHANGED <<kept, built, answer>> /\ pc = "answer" /\ pc' = "tree"
      /\ work' = <<frame>> /\ visited' = {query.from} /\ tree' = {}
  BY DEF TreeBegin
<1>2. query.from \in Functions /\ query.depth \in Nat
  BY <1>1 DEF GraphInv, TInv, WalkInv, TreeInv
<1>3. /\ frame \in FrameType /\ frame.fn = query.from /\ frame.depth = 0
      /\ frame.at = Lo[frame.fn] /\ Lo \in [Functions -> Nat] /\ Hi \in [Functions -> Nat]
  <2>1. frame \in FrameType
    BY <1>2, FrameFacts DEF GraphInv
  <2>2. Lo[query.from] = StartOf(query.from) /\ Lo \in [Functions -> Nat] /\ Hi \in [Functions -> Nat]
    BY <1>2, Ranges
  <2> QED
    BY <2>1, <2>2 DEF Frame
<1>4. query.from \in NearNow[0]
  <2>1. {query.from} \subseteq Cheap({query.from}, 0)
    BY CheapFacts
  <2> QED
    BY <2>1 DEF NearNow
<1> HIDE DEF frame
<1>5. PICK zero : zero = [f \in Functions |-> 0]
  <2>1. \E zero : zero = [f \in Functions |-> 0]
    OBVIOUS
  <2> QED
    BY <2>1
<1>6. zero \in [Functions -> Nat] /\ zero[query.from] = 0
  BY <1>2, <1>5
<1>7. /\ Ordered(Lo, zero, zero, {frame.fn}, <<frame>>)
      /\ Near(NearNow, zero, zero, {frame.fn})
      /\ Covered(edges, Lo, Hi, Quiet, query.depth, zero, zero, {frame.fn}, {}, <<frame>>)
  <2>1. frame.fn \in NearNow[0]
    BY <1>3, <1>4
  <2> QED
    BY <1>3, <1>5, <2>1, QueueBegins
<1>8. Growing(zero, zero)'
  BY <1>1, <1>3, <1>6, <1>7, TreeFrame DEF Growing
<1>9. Grows'
  BY <1>6, <1>8 DEF Grows
<1>10. query' = query
  BY <1>1 DEF kept
<1> QED
  BY <1>1, <1>2, <1>9, <1>10 DEF TreeInv, TreeExact, Answered, Idle, RightlyShown

\* The head of the queue is dropped.
LEMMA TreePops ==
  GraphInv /\ TreeInv /\ TreePop => TreeInv'
<1> SUFFICES ASSUME GraphInv, TreeInv, TreePop PROVE TreeInv'
  OBVIOUS
<1>1. /\ UNCHANGED <<kept, built, visited, tree, pc, answer>> /\ pc = "tree"
      /\ work # <<>> /\ work' = Tail(work) /\ ~MayExpand(work[1])
  BY DEF TreePop
<1>2. PICK hop, dep \in [Functions -> Nat] : Growing(hop, dep)
  BY <1>1 DEF TreeInv, Grows
<1>3. /\ work \in Seq(FrameType) /\ visited \in SUBSET Functions
      /\ Lo \in [Functions -> Nat] /\ Hi \in [Functions -> Nat]
  BY WalkFacts, Ranges DEF GraphInv
<1>4. ~(work[1].depth < query.depth /\ work[1].at < Hi[work[1].fn])
  <2>1. work[1].fn \in Functions
    <3>1. work[1] \in FrameType
      BY <1>1, <1>3
    <3> QED
      BY <3>1 DEF FrameType
  <2>2. Hi[work[1].fn] = EndOf(work[1].fn)
    BY <2>1, Ranges
  <2> QED
    BY <1>1, <2>2 DEF MayExpand
<1>5. /\ Ordered(Lo, hop, dep, visited, Tail(work))
      /\ Covered(edges, Lo, Hi, Quiet, query.depth, hop, dep, visited, tree, Tail(work))
  BY <1>1, <1>2, <1>3, <1>4, QueuePops DEF Growing
<1>6. Growing(hop, dep)'
  BY <1>1, <1>2, <1>5, TreeFrame DEF Growing
<1>7. Grows'
  BY <1>6 DEF Grows
<1>8. RightlyShown(tree)'
  BY <1>1, TreeFrame DEF TreeInv, RightlyShown
<1>9. query' = query
  BY <1>1 DEF kept
<1> QED
  BY <1>1, <1>7, <1>8, <1>9 DEF TreeInv, TreeExact, Answered, Idle

\* The tree is shown.
LEMMA TreeEnds ==
  GraphInv /\ TreeInv /\ TreeEnd => TreeInv'
<1> SUFFICES ASSUME GraphInv, TreeInv, TreeEnd PROVE TreeInv'
  OBVIOUS
<1>1. /\ UNCHANGED <<kept, built>> /\ pc = "tree" /\ pc' = "idle" /\ work = <<>>
      /\ answer'.tree = Shown(query.from)
  BY DEF TreeEnd, Reply, Answer
<1>2. /\ query.from \in Functions /\ query.depth \in Nat /\ cgBuilt
      /\ Grows /\ RightlyShown(tree)
  BY <1>1 DEF GraphInv, TInv, WalkInv, ForwardInv, TreeInv
<1>3. Downwards(Shows, {query.from}, query.depth)
        \subseteq {query.from} \union {e[2] : e \in Shown(query.from)}
  BY <1>1, <1>2, TreeReaches
<1>4. Shown(query.from) \subseteq tree
  BY DEF Shown
<1>5. RightlyShown(Shown(query.from))
  BY <1>2, <1>4 DEF RightlyShown
<1>6. /\ query' = query /\ Shows' = Shows
      /\ \A S, n : Cheap(S, n)' = Cheap(S, n)
  BY <1>1, TreeFrame
<1>7. RightlyShown(answer.tree)'
  BY <1>1, <1>5, <1>6 DEF RightlyShown
<1>8. (Downwards(Shows, {query.from}, query.depth)
         \subseteq {query.from} \union {e[2] : e \in answer.tree})'
  BY <1>1, <1>3, <1>6
<1>9. TreeExact'
  BY <1>7, <1>8 DEF TreeExact, RightlyShown
<1> QED
  BY <1>1, <1>2, <1>6, <1>9 DEF TreeInv

\* An edge of the head is looked at.
LEMMA TreeSteps ==
  GraphInv /\ TreeInv /\ TreeStep => TreeInv'
<1> SUFFICES ASSUME GraphInv, TreeInv, TreeStep PROVE TreeInv'
  OBVIOUS
<1>0. PICK h, e, g, cost :
        /\ h = work[1] /\ e = edges[h.at + 1] /\ g = e.callee
        /\ cost = IF IsSilent(g) THEN 0 ELSE 1
  OBVIOUS
<1> DEFINE new == e.type # "CALLANYTHING" /\ g \notin visited
           frame == Frame(g, h.depth + cost)
<1>1. /\ UNCHANGED <<kept, built, pc, answer>> /\ pc = "tree" /\ work # <<>>
      /\ h.depth < query.depth /\ h.at < EndOf(h.fn)
      /\ tree' = IF IsSilent(g) THEN tree ELSE tree \union {<<h.fn, g>>}
      /\ visited' = IF new THEN visited \union {g} ELSE visited
      /\ work' = <<Next1(h)>> \o Tail(work) \o (IF new THEN <<frame>> ELSE <<>>)
  BY <1>0 DEF TreeStep, MayExpand
<1>2. /\ work \in Seq(FrameType) /\ visited \in SUBSET Functions
      /\ Lo \in [Functions -> Nat] /\ Hi \in [Functions -> Nat]
      /\ query.depth \in Nat /\ cgBuilt /\ RightlyShown(tree)
  BY <1>1, WalkFacts, Ranges DEF GraphInv, ForwardInv, TreeInv
<1>3. PICK hop, dep \in [Functions -> Nat] : Growing(hop, dep)
  BY <1>1 DEF TreeInv, Grows
<1>4. /\ query.from \in visited /\ hop[query.from] = 0
      /\ Ordered(Lo, hop, dep, visited, work)
      /\ Near(NearNow, hop, dep, visited)
      /\ Covered(edges, Lo, Hi, Quiet, query.depth, hop, dep, visited, tree, work)
  BY <1>3 DEF Growing
<1>5. /\ h \in FrameType /\ h.fn \in Functions /\ h.at \in Nat /\ h.depth \in Nat
      /\ h.fn \in visited /\ Lo[h.fn] <= h.at /\ h.depth = dep[h.fn]
      /\ \A u \in visited : hop[u] <= hop[h.fn] + 1
  <2>1. 1 \in 1..Len(work) /\ work[1] \in FrameType
    BY <1>1, <1>2
  <2> QED
    BY <1>0, <1>1, <1>4, <2>1 DEF Ordered, FrameType
<1>6. h.at + 1 \in Lo[h.fn] + 1 .. Hi[h.fn]
  <2>1. Hi[h.fn] = EndOf(h.fn) /\ Lo[h.fn] \in Nat /\ Hi[h.fn] \in Nat
    BY <1>2, <1>5, Ranges
  <2> QED
    BY <1>1, <1>5, <2>1
<1>7. /\ IsSilent(g) <=> g \in Quiet
      /\ g \in Quiet => <<h.fn, g>> \in Hides
      /\ g \notin Quiet => <<h.fn, g>> \in Shows
      /\ e.type = "CALLANYTHING" \/ g \in Functions
  BY <1>0, <1>2, <1>5, <1>6, PairFacts
<1>8. dep[h.fn] <= hop[h.fn] /\ h.fn \in Cheap({query.from}, h.depth)
  BY <1>4, <1>5 DEF Near, NearNow
<1>9. /\ tree \subseteq tree' /\ tree' \subseteq tree \union {<<h.fn, g>>}
      /\ g \in Quiet \/ <<h.fn, g>> \in tree'
      /\ g \in Quiet => tree' = tree
  BY <1>1, <1>7
<1>10. RightlyShown(tree')
  <2>1. query.depth - 1 \in Nat /\ h.depth <= query.depth - 1 /\ query.depth > 0
    BY <1>1, <1>2, <1>5
  <2>2. h.fn \in Cheap({query.from}, query.depth - 1)
    BY <1>5, <1>8, <2>1, CheapMonotone
  <2>3. <<h.fn, g>>[1] = h.fn
    OBVIOUS
  <2> QED
    BY <1>2, <1>7, <1>9, <2>1, <2>2, <2>3 DEF RightlyShown
<1>11. RightlyShown(tree)'
  BY <1>1, <1>10, TreeFrame DEF RightlyShown
<1>12. Grows'
  <2>1. CASE ~new
    <3>1. visited' = visited /\ work' = <<Next1(work[1])>> \o Tail(work)
      <4>1. <<Next1(h)>> \o Tail(work) \in Seq(FrameType)
        <5>1. Next1(h) \in FrameType
          BY <1>5, FrameFacts DEF GraphInv
        <5>2. Tail(work) \in Seq(FrameType)
          BY <1>1, <1>2
        <5> QED
          BY <5>1, <5>2
      <4>2. work' = (<<Next1(h)>> \o Tail(work)) \o <<>>
        BY <1>1, <2>1
      <4>3. work' = <<Next1(h)>> \o Tail(work)
        BY <4>1, <4>2
      <4> QED
        BY <1>0, <1>1, <2>1, <4>3
    <3>2. Followed(edges, Quiet, hop, visited, tree', work[1].fn, work[1].at + 1)
      BY <1>0, <1>5, <1>9, <2>1 DEF Followed
    <3>3. /\ Ordered(Lo, hop, dep, visited, <<Next1(work[1])>> \o Tail(work))
          /\ Covered(edges, Lo, Hi, Quiet, query.depth, hop, dep, visited, tree',
                     <<Next1(work[1])>> \o Tail(work))
      BY <1>1, <1>2, <1>3, <1>4, <1>9, <3>2, QueueAdvances
    <3>4. Growing(hop, dep)'
      BY <1>1, <1>4, <3>1, <3>3, TreeFrame DEF Growing
    <3> QED
      BY <3>4 DEF Grows
  <2>2. CASE new
    <3>1. g \in Functions /\ g \notin visited /\ visited' = visited \union {g}
      BY <1>1, <1>7, <2>2
    <3>2. cost \in {0, 1} /\ h.depth + cost \in Nat
      BY <1>0, <1>5
    <3>3. /\ frame \in FrameType /\ frame.fn = g /\ frame.at = Lo[g]
          /\ frame.depth = h.depth + cost
      <4>1. frame \in FrameType
        BY <3>1, <3>2, FrameFacts DEF GraphInv
      <4>2. Lo[g] = StartOf(g)
        BY <3>1, Ranges
      <4> QED
        BY <4>1, <4>2 DEF Frame
    <3>4. frame.depth <= hop[h.fn] + 1
      BY <1>5, <1>8, <3>2, <3>3
    <3>5. frame.fn \in NearNow[frame.depth]
      <4>1. CASE g \in Quiet
        <5>1. frame.depth = h.depth /\ <<h.fn, g>> \in Hides
          BY <1>0, <1>5, <1>7, <3>3, <4>1
        <5>2. g \in Cheap({query.from}, h.depth)
          BY <1>5, <1>8, <5>1, CheapFacts
        <5> QED
          BY <1>5, <3>3, <5>1, <5>2 DEF NearNow
      <4>2. CASE g \notin Quiet
        <5>1. frame.depth = h.depth + 1 /\ <<h.fn, g>> \in Shows
          BY <1>0, <1>5, <1>7, <3>3, <4>2
        <5>2. g \in Cheap({query.from}, h.depth + 1)
          BY <1>5, <1>8, <5>1, CheapFacts
        <5> QED
          BY <1>5, <3>3, <5>1, <5>2 DEF NearNow
      <4> QED
        BY <4>1, <4>2
    <3> HIDE DEF frame, new
    <3>6. PICK hop2 : hop2 = [hop EXCEPT ![frame.fn] = hop[work[1].fn] + 1]
      <4>1. \E hop2 : hop2 = [hop EXCEPT ![frame.fn] = hop[work[1].fn] + 1]
        OBVIOUS
      <4> QED
        BY <4>1
    <3>7. PICK dep2 : dep2 = [dep EXCEPT ![frame.fn] = frame.depth]
      <4>1. \E dep2 : dep2 = [dep EXCEPT ![frame.fn] = frame.depth]
        OBVIOUS
      <4> QED
        BY <4>1
    <3>8. /\ hop2 \in [Functions -> Nat] /\ dep2 \in [Functions -> Nat]
          /\ hop2[query.from] = 0 /\ hop2[g] = hop[h.fn] + 1 /\ hop2[h.fn] = hop[h.fn]
      <4>1. hop[h.fn] \in Nat /\ frame.depth \in Nat /\ query.from # g /\ h.fn # g
        BY <1>4, <1>5, <3>1, <3>2, <3>3
      <4>2. hop[work[1].fn] + 1 \in Nat /\ hop[work[1].fn] = hop[h.fn]
        BY <1>0, <4>1
      <4>3. hop2 \in [Functions -> Nat] /\ dep2 \in [Functions -> Nat]
        BY <3>6, <3>7, <4>1, <4>2
      <4>4. \A u \in Functions : hop2[u] = IF u = g THEN hop[work[1].fn] + 1 ELSE hop[u]
        BY <3>3, <3>6
      <4>5. query.from \in Functions
        BY <1>2, <1>4
      <4> QED
        BY <1>4, <1>5, <3>1, <4>1, <4>2, <4>3, <4>4, <4>5
    <3>9. /\ Ordered(Lo, hop2, dep2, visited \union {frame.fn}, work \o <<frame>>)
          /\ Near(NearNow, hop2, dep2, visited \union {frame.fn})
          /\ Covered(edges, Lo, Hi, Quiet, query.depth, hop2, dep2, visited \union {frame.fn}, tree,
                     work \o <<frame>>)
      <4>1. /\ frame.fn \notin visited /\ frame.at = Lo[frame.fn]
            /\ frame.depth <= hop[work[1].fn] + 1
        BY <1>0, <3>1, <3>3, <3>4
      <4> QED
        BY <1>1, <1>2, <1>3, <1>4, <3>3, <3>5, <3>6, <3>7, <4>1, QueueGrows
    <3>10. PICK long : long = work \o <<frame>>
      OBVIOUS
    <3>11. /\ long \in Seq(FrameType) /\ long # <<>> /\ long[1] = work[1]
           /\ work' = <<Next1(long[1])>> \o Tail(long)
      <4>1. long \in Seq(FrameType) /\ long # <<>> /\ long[1] = work[1]
        BY <1>1, <1>2, <3>3, <3>10
      <4>2. Tail(long) = Tail(work) \o <<frame>>
        BY <1>1, <1>2, <3>3, <3>10
      <4>3. work' = <<Next1(h)>> \o Tail(work) \o <<frame>>
        BY <1>1, <2>2 DEF new
      <4>4. <<Next1(h)>> \o (Tail(work) \o <<frame>>) = (<<Next1(h)>> \o Tail(work)) \o <<frame>>
        <5>1. /\ <<Next1(h)>> \in Seq(FrameType) /\ Tail(work) \in Seq(FrameType)
              /\ <<frame>> \in Seq(FrameType)
          BY <1>1, <1>2, <1>5, <3>3, FrameFacts DEF GraphInv
        <5> QED
          BY <5>1
      <4> QED
        BY <1>0, <4>1, <4>2, <4>3, <4>4
    <3>12. Followed(edges, Quiet, hop2, visited', tree', long[1].fn, long[1].at + 1)
      <4>1. hop[h.fn] \in Nat
        BY <1>5
      <4> QED
        BY <1>0, <1>9, <3>1, <3>8, <3>11, <4>1 DEF Followed
    <3>13. /\ Ordered(Lo, hop2, dep2, visited', <<Next1(long[1])>> \o Tail(long))
           /\ Covered(edges, Lo, Hi, Quiet, query.depth, hop2, dep2, visited', tree',
                      <<Next1(long[1])>> \o Tail(long))
      <4>1. visited' \in SUBSET Functions /\ visited' = visited \union {frame.fn}
        BY <1>2, <3>1, <3>3
      <4>2. /\ Ordered(Lo, hop2, dep2, visited', long)
            /\ Covered(edges, Lo, Hi, Quiet, query.depth, hop2, dep2, visited', tree, long)
        BY <3>9, <3>10, <4>1
      <4> QED
        BY <1>2, <1>9, <3>8, <3>11, <3>12, <4>1, <4>2, QueueAdvances
    <3>14. Growing(hop2, dep2)'
      BY <1>1, <1>4, <3>1, <3>3, <3>8, <3>9, <3>11, <3>13, TreeFrame DEF Growing
    <3> QED
      BY <3>8, <3>14 DEF Grows
  <2> QED
    BY <2>1, <2>2
<1>13. query' = query
  BY <1>1 DEF kept
<1> QED
  BY <1>1, <1>2, <1>11, <1>12, <1>13 DEF TreeInv, TreeExact, Answered, Idle

\* A step that ends no walk for "cg" and is not in one.
LEMMA OtherTree ==
  ASSUME query'.depth \in Nat, pc' # "tree",
         pc' # "idle" \/ query'.kind # "cg" \/ answer'.how # "ok"
  PROVE  TreeInv'
BY DEF TreeInv, TreeExact, Answered, Idle

\* A step that the walk and its answer do not see.
LEMMA TreeUnseen ==
  ASSUME TreeInv,
         UNCHANGED <<pc, query, visited, work, tree, edges, CG, answer,
                     analysis, cgPatchOut, silence>>
  PROVE  TreeInv'
<1>1. Lo' = Lo /\ Hi' = Hi
  BY DEF Lo, Hi, StartOf, EndOf
<1>2. /\ Shows' = Shows /\ Quiet' = Quiet
      /\ \A S, n : Cheap(S, n)' = Cheap(S, n)
  BY CallPairsStay
<1>3. NearNow' = NearNow
  BY <1>2, Zenon DEF NearNow
<1>4. Grows' = Grows
  <2>1. \A hop, dep : Growing(hop, dep)' = Growing(hop, dep)
    BY <1>1, <1>2, <1>3 DEF Growing
  <2> QED
    BY <2>1, Zenon DEF Grows
<1>5. RightlyShown(tree)' = RightlyShown(tree)
  BY <1>2 DEF RightlyShown
<1>6. TreeExact' = TreeExact
  BY <1>2 DEF TreeExact, Answered, Idle
<1> QED
  BY <1>4, <1>5, <1>6 DEF TreeInv

\* Every step.
LEMMA TreeKept == GraphInv /\ ReachInv /\ TreeInv /\ [Next]_vars => TreeInv'
<1> SUFFICES ASSUME GraphInv, ReachInv, TreeInv, [Next]_vars PROVE TreeInv'
  OBVIOUS
<1>0. query.depth \in Nat
  BY DEF TreeInv
<1>1. CASE EditFile \/ UNCHANGED vars
  <2>1. UNCHANGED <<pc, query, visited, work, tree, edges, CG, answer,
                    analysis, cgPatchOut, silence>>
    BY <1>1 DEF EditFile, vars, built, graphVars, patchVars, fixedVars, walkVars
  <2> QED
    BY <2>1, TreeUnseen
<1>2. CASE Ask
  <2>1. ASSUME NEW q \in Questions, AskGraph(q) PROVE TreeInv'
    <3>1. pc' \in {"build", "answer"} /\ query' = q
      BY <2>1 DEF AskGraph, Take
    <3>2. q.depth \in Nat
      BY CallGraphAssumption DEF Questions, Query
    <3> QED
      BY <3>1, <3>2, OtherTree
  <2>2. ASSUME NEW f \in AskedFrom, NEW g \in AskedTo, CGPatch(f, g) PROVE TreeInv'
    <3>1. pc' = "idle" /\ query'.kind = "cgpatch" /\ query'.depth = 0
      BY <2>2 DEF CGPatch, Take, Query, Reply
    <3> QED
      BY <3>1, OtherTree
  <2>3. CASE CGReload
    <3>1. pc' = "idle" /\ query'.kind = "cgreload" /\ query'.depth = 0
      BY <2>3 DEF CGReload, Take, Query, Reply
    <3> QED
      BY <3>1, OtherTree
  <2>4. CASE ToggleSilence
    <3>1. pc' = "idle" /\ query'.kind = "silence" /\ query'.depth = 0
      BY <2>4 DEF ToggleSilence, Take, Query, Reply
    <3> QED
      BY <3>1, OtherTree
  <2> QED
    BY <1>2, <2>1, <2>2, <2>3, <2>4 DEF Ask
<1>3. CASE Build
  <2>1. /\ query' = query
        /\ pc' \in {"build", "load", "answer"} \/ (pc' = "idle" /\ answer'.how = "error")
    <3>1. Throw => pc' = "idle" /\ answer'.how = "error"
      BY DEF Throw, Reply, Answer
    <3>2. ASSUME NEW f \in DefinedFns, BuildSite(f) \/ OpenPatch(f) \/ BuildFunction(f)
          PROVE  query' = query /\ (Throw \/ pc' \in {"build", "load"})
      BY <3>2 DEF BuildSite, OpenPatch, BuildFunction, Building, kept
    <3>3. SkipBlank \/ LoadPair \/ LoadEnd \/ BuildEnd
          => query' = query /\ (Throw \/ pc' \in {"build", "load", "answer"})
      BY DEF SkipBlank, LoadPair, LoadEnd, BuildEnd, kept
    <3> QED
      BY <1>3, <3>1, <3>2, <3>3 DEF Build
  <2> QED
    BY <1>0, <2>1, OtherTree
<1>4. CASE Reverse
  <2>1. /\ query' = query
        /\ \/ pc' \in {"reverse", "answer"}
           \/ pc' = "idle" /\ query'.kind \in {"callout", "callin"}
    BY <1>4 DEF Reverse, AnswerOut, ReverseBegin, ReverseStep, ReverseEnd, AnswerIn, Reply, kept
  <2> QED
    BY <1>0, <2>1, OtherTree
<1>5. CASE Reach
  <2>1. query' = query /\ pc' \in {"reach", "idle"} /\ query'.kind = "reach"
    BY <1>5 DEF Reach, ReachBegin, ReachFound, ReachDescend, ReachNext, ReachBack, AtEdge,
                Reply, kept, ReachInv
  <2> QED
    BY <1>0, <2>1, OtherTree
<1>6. CASE Tree
  BY <1>6, TreeBegins, TreeSteps, TreePops, TreeEnds DEF Tree
<1> QED
  BY <1>1, <1>2, <1>3, <1>4, <1>5, <1>6 DEF Next, Serve

(***************************************************************************)
(* What walks of the graph answer is right in every session: reach as      *)
(* above; and cg with depth n shows all functions to which at most n calls *)
(* lead whose callees are not silenced, and only calls of functions less   *)
(* than n calls away, when calls of silenced functions do not count.       *)
(***************************************************************************)
THEOREM AnswersAreExact == Spec => []AnswersExact
<1>1. Init => ReachInv
  BY DEF Init, ReachInv, ReachExact, Answered, NoQuery, Query
<1>2. Init => TreeInv
  BY DEF Init, TreeInv, TreeExact, Answered, NoQuery, Query
<1>3. GraphInv /\ ReachInv /\ [Next]_vars => ReachInv'
  BY ReachKept
<1>4. GraphInv /\ ReachInv /\ TreeInv /\ [Next]_vars => TreeInv'
  BY TreeKept
<1>5. ReachInv /\ TreeInv => AnswersExact
  BY DEF ReachInv, TreeInv, AnswersExact
<1>6. Spec => []GraphInv
  BY GraphInvHolds
<1> QED
  BY <1>1, <1>2, <1>3, <1>4, <1>5, <1>6, PTL DEF Spec
=============================================================================
