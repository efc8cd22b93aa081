----------------------------- MODULE CallGraph -----------------------------
(***************************************************************************)
(* The call graph of the backend (src/common/CallGraph.cpp), the resolver  *)
(* of indirect calls and the patch file it reads (PAWrapper.cpp), and the  *)
(* queries answered from it: reach, callout, callin, cg, cgpatch, cgreload.*)
(*                                                                         *)
(* The program is sequential; each turn of one of its loops is a step,     *)
(* because an exception may leave the loop there and because others may    *)
(* change the patch file at any moment.                                    *)
(***************************************************************************)
EXTENDS Integers, Sequences, FiniteSets

CONSTANTS
  Defined,     \* the functions with a body, in the order of the module
  Declared,    \* the functions without one
  Sites,       \* the call sites of each defined function, in order
  Pointers,    \* the called operands that are not functions
  Analyses,    \* what the pointer analysis may say of them
  Silenced,    \* the functions "stds", "llvms" and "rts" silence
  Depths,      \* the maximal depths asked of "cg"
  PatchPaths,  \* whether -cgpatch-path is given: a subset of BOOLEAN
  FileContents,\* what others put into the patch file
  AskedFrom, AskedTo, \* the functions clients name in their queries
  MaxQueries,  \* bound: queries of one session
  MaxEdits     \* bound: changes of the patch file by others

Nobody    == "nullptr"
Blank     == "blank line"
Unknown   == "unknown name"
DefinedFns == {Defined[j] : j \in 1..Len(Defined)}
Functions == DefinedFns \union Declared
FileLines == Functions \union {Blank, Unknown}

\* A call site names a function or a pointer.
SiteType == [direct : {TRUE}, to : Functions] \union [direct : {FALSE}, to : Pointers]
\* What the analysis says of a pointer: an exception, "unknown", or functions.
SaysType == [how : {"throws", "unknown", "known"}, fns : Seq(Functions)]

ASSUME CallGraphAssumption ==
  /\ Defined \in Seq(DefinedFns)
  /\ \A j, k \in 1..Len(Defined) : Defined[j] = Defined[k] => j = k
  /\ Nobody \notin Functions /\ {Blank, Unknown} \intersect Functions = {}
  /\ Sites \in [DefinedFns -> Seq(SiteType)]
  /\ Analyses \subseteq [Pointers -> SaysType]
  /\ Silenced \union AskedFrom \union AskedTo \subseteq Functions
  /\ Depths \subseteq Nat
  /\ PatchPaths \subseteq BOOLEAN
  /\ FileContents \subseteq Seq(FileLines)
  /\ MaxQueries \in Nat /\ MaxEdits \in Nat

VARIABLES
  analysis,      \* the verdicts of the pointer analysis
  patchPath,     \* the option is given
  patchFile,     \* the file: whether it exists, and its lines
  edits,         \* changes by others so far
  cgBuilt, CG, edges,             \* as in CallGraph; a range is [start, end)
  revBuilt, revCG, callAnything,
  cgPatchLoaded, cgPatchOut,      \* as in PAWrapper
  silence,       \* whether silencing is on
  pc,            \* the loop that runs
  query,         \* the query being answered
  fn, site, startIdx,  \* the loops of buildCG: function, call site, first edge
  unread,        \* lines loadCGPatch has still to read
  at,            \* the loop of buildReverseCG
  work,          \* the recursion of reachIter, or the queue of "cg"
  visited, tree, \* as in reachIter and in the "cg" query
  answer,        \* the last answer
  queries,       \* queries so far
  contents       \* history: contents of the file since the last cgreload

fileVars   == <<patchFile, edits, contents>>
graphVars  == <<cgBuilt, CG, edges>>
revVars    == <<revBuilt, revCG, callAnything>>
patchVars  == <<cgPatchLoaded, cgPatchOut>>
buildVars  == <<fn, site, startIdx, unread>>
walkVars   == <<work, visited, tree>>
fixedVars  == <<analysis, patchPath>>
vars == <<fixedVars, fileVars, graphVars, revVars, patchVars, silence, pc, query,
          buildVars, at, walkVars, answer, queries>>
\* What the serving of a query never changes, and what only building changes.
kept  == <<fixedVars, fileVars, silence, query, queries>>
built == <<graphVars, revVars, patchVars, buildVars, at>>

Edge(type, caller, callsite, callee) ==
  [type |-> type, caller |-> caller, callsite |-> callsite, callee |-> callee]
EdgeType ==
  [type : {"DIRECT", "INDIRECT"}, caller : DefinedFns, callsite : Nat, callee : Functions]
  \union [type : {"CALLANYTHING"}, caller : DefinedFns, callsite : Nat, callee : {Nobody}]

Query(kind, from, to, ignore, depth) ==
  [kind |-> kind, from |-> from, to |-> to, ignore |-> ignore, depth |-> depth]
NoQuery == Query("none", Nobody, Nobody, FALSE, 0)

\* How a query ended, and the edges or the tree it printed.
Answer(how, es, tr) == [how |-> how, edges |-> es, tree |-> tr]
NoAnswer == Answer("none", <<>>, {})

NoPatch == [f \in Functions |-> <<>>]
NoFile  == [exists |-> FALSE, lines |-> <<>>]

Init ==
  /\ analysis \in Analyses
  /\ patchPath \in PatchPaths
  /\ patchFile = NoFile
  /\ edits = 0
  /\ contents = {NoFile}
  /\ cgBuilt = FALSE /\ CG = <<>> /\ edges = <<>>
  /\ revBuilt = FALSE /\ revCG = NoPatch /\ callAnything = <<>>
  /\ cgPatchLoaded = FALSE /\ cgPatchOut = NoPatch
  /\ silence = FALSE
  /\ pc = "idle"
  /\ query = NoQuery
  /\ fn = 1 /\ site = 1 /\ startIdx = 0 /\ unread = <<>>
  /\ at = 1
  /\ work = <<>> /\ visited = {} /\ tree = {}
  /\ answer = NoAnswer
  /\ queries = 0

-----------------------------------------------------------------------------
(* The patch file. *)

\* The file changes, by this program's cgpatch or by somebody else.
FileBecomes(file) ==
  /\ patchFile' = file
  /\ contents' = contents \union {file}

\* Somebody edits, creates or removes the patch file.
EditFile ==
  /\ patchPath
  /\ edits < MaxEdits
  /\ edits' = edits + 1
  /\ \E file \in {NoFile} \union {[exists |-> TRUE, lines |-> c] : c \in FileContents} :
       file # patchFile /\ FileBecomes(file)
  /\ UNCHANGED <<built, fixedVars, silence, query, queries, walkVars, pc, answer>>

-----------------------------------------------------------------------------
(* Queries that need no graph. *)

\* The session takes the next query; what the loops kept of the last one is gone.
\* The first function's edges will begin at position "first" of the pool.
Take(q, first) ==
  /\ pc = "idle"
  /\ queries < MaxQueries
  /\ queries' = queries + 1
  /\ query' = q
  /\ fn' = 1 /\ site' = 1 /\ startIdx' = first /\ unread' = <<>>
  /\ at' = 1
  /\ work' = <<>> /\ visited' = {} /\ tree' = {}

\* The query is answered.
Reply(how, es, tr) ==
  /\ pc' = "idle"
  /\ answer' = Answer(how, es, tr)

\* cgpatch <from> <to>: two names and a blank line are appended.
CGPatch(f, g) ==
  /\ Take(Query("cgpatch", f, g, FALSE, 0), 0)
  /\ IF patchPath
     THEN /\ FileBecomes([exists |-> TRUE, lines |-> patchFile.lines \o <<f, g, Blank>>])
          /\ Reply("ok", <<>>, {})
     ELSE /\ Reply("error", <<>>, {})
          /\ UNCHANGED <<patchFile, contents>>
  /\ UNCHANGED <<fixedVars, silence, graphVars, revVars, patchVars, edits>>

\* Mutant: the patch stays loaded.
CGReloadKeepsPatch ==
  /\ Take(Query("cgreload", Nobody, Nobody, FALSE, 0), 0)
  /\ cgBuilt' = FALSE /\ CG' = <<>> /\ edges' = <<>>
  /\ revBuilt' = FALSE /\ revCG' = NoPatch /\ callAnything' = <<>>
  /\ contents' = {patchFile}
  /\ Reply("ok", <<>>, {})
  /\ UNCHANGED <<fixedVars, patchFile, edits, patchVars, silence>>

\* cgreload: rebuild() forgets the graph, and the patch is to be read again.
CGReload ==
  /\ Take(Query("cgreload", Nobody, Nobody, FALSE, 0), 0)
  /\ cgBuilt' = FALSE /\ CG' = <<>> /\ edges' = <<>>
  /\ revBuilt' = FALSE /\ revCG' = NoPatch /\ callAnything' = <<>>
  /\ cgPatchLoaded' = FALSE
  /\ contents' = {patchFile}
  /\ Reply("ok", <<>>, {})
  /\ UNCHANGED <<fixedVars, patchFile, edits, cgPatchOut, silence>>

\* stds, llvms, rts
ToggleSilence ==
  /\ Take(Query("silence", Nobody, Nobody, FALSE, 0), 0)
  /\ silence' = ~silence
  /\ Reply("ok", <<>>, {})
  /\ UNCHANGED <<fixedVars, fileVars, graphVars, revVars, patchVars>>

-----------------------------------------------------------------------------
(* buildCG *)

\* Mutant: what a failed build left stays.
AskGraphNoReset(q) ==
  /\ Take(q, Len(edges))
  /\ answer' = NoAnswer
  /\ pc' = IF cgBuilt THEN "answer" ELSE "build"
  /\ CG' = IF cgBuilt THEN CG ELSE <<>>
  /\ UNCHANGED <<fixedVars, fileVars, silence, cgBuilt, edges, revVars, patchVars>>

\* A query that needs the graph: buildCG returns at once or starts afresh.
AskGraph(q) ==
  /\ Take(q, 0)
  /\ answer' = NoAnswer
  /\ IF cgBuilt THEN pc' = "answer" /\ UNCHANGED <<CG, edges>>
                ELSE pc' = "build" /\ CG' = <<>> /\ edges' = <<>>
  /\ UNCHANGED <<fixedVars, fileVars, silence, cgBuilt, revVars, patchVars>>

\* An exception leaves handleQueryWrapper: queryLoop prints a <queryerror>.
Throw == Reply("error", <<>>, {})

\* indirectCallResolver for a call site, and the edge of a direct call.
SiteEdges(f, k) ==
  LET s    == Sites[f][k]
      says == analysis[s.to]
  IN  IF s.direct THEN <<Edge("DIRECT", f, k, s.to)>>
      ELSE IF says.how = "unknown" THEN <<Edge("CALLANYTHING", f, k, Nobody)>>
      ELSE [i \in 1..Len(says.fns) |-> Edge("INDIRECT", f, k, says.fns[i])]

\* indirectCallResolver(nullptr, f): the patch's edges, without a call site.
PatchEdges(f) ==
  [i \in 1..Len(cgPatchOut[f]) |-> Edge("INDIRECT", f, 0, cgPatchOut[f][i])]

Building(f) == pc = "build" /\ fn <= Len(Defined) /\ f = Defined[fn]

\* getPointsToSet throws for this call site's pointer.
Throws(f, k) == ~Sites[f][k].direct /\ analysis[Sites[f][k].to].how = "throws"

BuildSite(f) ==
  /\ Building(f)
  /\ site <= Len(Sites[f])
  /\ IF Throws(f, site)
     THEN Throw /\ UNCHANGED <<edges, site>>
     ELSE /\ edges' = edges \o SiteEdges(f, site)
          /\ site' = site + 1
          /\ UNCHANGED <<pc, answer>>
  /\ UNCHANGED <<kept, cgBuilt, CG, revVars, patchVars, fn, startIdx, unread, at,
                 walkVars>>

\* loadCGPatch begins, at the end of the first function.
OpenPatch(f) ==
  /\ Building(f)
  /\ site > Len(Sites[f])
  /\ ~cgPatchLoaded
  /\ \/ /\ ~patchPath
        /\ cgPatchLoaded' = TRUE
        /\ UNCHANGED <<cgPatchOut, pc, unread, answer>>
     \/ /\ patchPath /\ ~patchFile.exists
        /\ Throw
        /\ UNCHANGED <<cgPatchLoaded, cgPatchOut, unread>>
     \/ /\ patchPath /\ patchFile.exists
        /\ cgPatchOut' = NoPatch
        /\ unread' = patchFile.lines
        /\ pc' = "load"
        /\ UNCHANGED <<cgPatchLoaded, answer>>
  /\ UNCHANGED <<kept, graphVars, revVars, fn, site, startIdx, at, walkVars>>

\* loadCGPatch: a blank line between two pairs.
SkipBlank ==
  /\ pc = "load" /\ unread # <<>>
  /\ Head(unread) = Blank
  /\ unread' = Tail(unread)
  /\ UNCHANGED <<kept, graphVars, revVars, patchVars, fn, site, startIdx, at, walkVars,
                 pc, answer>>

\* Mutant: names are not looked up.
ReadableUnchecked == Len(unread) >= 2

\* Two lines with names of functions (requireFunction).
Readable == Len(unread) >= 2 /\ {unread[1], unread[2]} \subseteq Functions

\* loadCGPatch: a caller and its callee, or an exception.
LoadPair ==
  /\ pc = "load" /\ unread # <<>>
  /\ Head(unread) # Blank
  /\ IF Readable
     THEN /\ cgPatchOut' = [cgPatchOut EXCEPT ![unread[1]] = Append(@, unread[2])]
          /\ unread' = Tail(Tail(unread))
          /\ UNCHANGED <<pc, answer>>
     ELSE Throw /\ UNCHANGED <<cgPatchOut, unread>>
  /\ UNCHANGED <<kept, graphVars, revVars, cgPatchLoaded, fn, site, startIdx, at,
                 walkVars>>

\* The file is read to its end.
LoadEnd ==
  /\ pc = "load" /\ unread = <<>>
  /\ cgPatchLoaded' = TRUE
  /\ pc' = "build"
  /\ UNCHANGED <<kept, graphVars, revVars, cgPatchOut, buildVars, at, walkVars, answer>>

\* The function's last edges, and its range in the pool unless it is empty.
BuildFunction(f) ==
  /\ Building(f)
  /\ site > Len(Sites[f])
  /\ cgPatchLoaded
  /\ edges' = edges \o PatchEdges(f)
  /\ CG' = IF startIdx = Len(edges') THEN CG
           ELSE [g \in DOMAIN CG \union {f} |->
                   IF g = f THEN [start |-> startIdx, end |-> Len(edges')] ELSE CG[g]]
  /\ fn' = fn + 1 /\ site' = 1 /\ startIdx' = Len(edges')
  /\ UNCHANGED <<kept, cgBuilt, revVars, patchVars, unread, at, walkVars, pc, answer>>

BuildEnd ==
  /\ pc = "build" /\ fn > Len(Defined)
  /\ cgBuilt' = TRUE
  /\ pc' = "answer"
  /\ UNCHANGED <<kept, CG, edges, revVars, patchVars, buildVars, at, walkVars, answer>>

-----------------------------------------------------------------------------
(* callout and callin *)

StartOf(f) == IF f \in DOMAIN CG THEN CG[f].start ELSE 0
EndOf(f)   == IF f \in DOMAIN CG THEN CG[f].end ELSE 0

\* getOutEdges
AnswerOut ==
  /\ pc = "answer" /\ query.kind = "callout"
  /\ Reply("ok", SubSeq(edges, StartOf(query.from) + 1, EndOf(query.from)), {})
  /\ UNCHANGED <<kept, built, walkVars>>

\* buildReverseCG returns at once, or its loop begins.
ReverseBegin ==
  /\ pc = "answer" /\ query.kind = "callin"
  /\ ~revBuilt
  /\ pc' = "reverse" /\ at' = 1
  /\ UNCHANGED <<kept, graphVars, revVars, patchVars, buildVars, walkVars, answer>>

\* One edge goes to its callee, or to callAnything.
ReverseStep ==
  /\ pc = "reverse" /\ at <= Len(edges)
  /\ at' = at + 1
  /\ LET e == edges[at] IN
     IF e.type = "CALLANYTHING"
     THEN callAnything' = Append(callAnything, e) /\ UNCHANGED revCG
     ELSE revCG' = [revCG EXCEPT ![e.callee] = Append(@, e)] /\ UNCHANGED callAnything
  /\ UNCHANGED <<kept, graphVars, revBuilt, patchVars, buildVars, walkVars, pc, answer>>

ReverseEnd ==
  /\ pc = "reverse" /\ at > Len(edges)
  /\ revBuilt' = TRUE
  /\ pc' = "answer"
  /\ UNCHANGED <<kept, graphVars, revCG, callAnything, patchVars, buildVars, at, walkVars,
                 answer>>

\* getInEdges and getCallAnythingEdges
AnswerIn ==
  /\ pc = "answer" /\ query.kind = "callin"
  /\ revBuilt
  /\ Reply("ok", revCG[query.from] \o callAnything, {})
  /\ UNCHANGED <<kept, built, walkVars>>

-----------------------------------------------------------------------------
(* reach: the frames of the recursion, and where each one is in its range *)

Frame(f, depth) == [fn |-> f, at |-> StartOf(f), depth |-> depth]
Top    == work[Len(work)]
Next1(frame) == [frame EXCEPT !.at = @ + 1]
Below(s)     == SubSeq(s, 1, Len(s) - 1)

ReachBegin ==
  /\ pc = "answer" /\ query.kind = "reach"
  /\ pc' = "reach"
  /\ work' = <<Frame(query.from, 0)>>
  /\ visited' = {}
  /\ UNCHANGED <<kept, built, tree, answer>>

AtEdge  == pc = "reach" /\ Top.at < EndOf(Top.fn)
TopEdge == edges[Top.at + 1]
Ignored == query.ignore /\ TopEdge.type = "CALLANYTHING"

\* Mutant: an unknown call is passed over without the flag, too.
FoundKnown == TopEdge.callee = query.to

\* The edge ends the search: an unknown call may reach anything.
Found == TopEdge.type = "CALLANYTHING" \/ TopEdge.callee = query.to

\* The path is on the recursion's stack.
ReachFound ==
  /\ AtEdge /\ ~Ignored /\ Found
  /\ Reply("ok", [i \in 1..Len(work) |-> edges[work[i].at + 1]], {})
  /\ UNCHANGED <<kept, built, walkVars>>

ReachDescend ==
  /\ AtEdge /\ ~Ignored /\ ~Found
  /\ TopEdge.callee \notin visited
  /\ visited' = visited \union {TopEdge.callee}
  /\ work' = Append(work, Frame(TopEdge.callee, 0))
  /\ UNCHANGED <<kept, built, tree, pc, answer>>

\* Mutant: "continue" before the index is counted up.
ReachNextStuck ==
  /\ AtEdge
  /\ Ignored \/ (~Found /\ TopEdge.callee \in visited)
  /\ work' = IF Ignored THEN work ELSE [work EXCEPT ![Len(work)] = Next1(@)]
  /\ UNCHANGED <<kept, built, visited, tree, pc, answer>>

\* The edge leads nowhere new.
ReachNext ==
  /\ AtEdge
  /\ Ignored \/ (~Found /\ TopEdge.callee \in visited)
  /\ work' = [work EXCEPT ![Len(work)] = Next1(@)]
  /\ UNCHANGED <<kept, built, visited, tree, pc, answer>>

\* reachIter returns false: its caller goes on with its next edge.
ReachBack ==
  /\ pc = "reach" /\ Top.at >= EndOf(Top.fn)
  /\ IF Len(work) = 1
     THEN Reply("ok", <<>>, {}) /\ UNCHANGED work
     ELSE /\ work' = [Below(work) EXCEPT ![Len(work) - 1] = Next1(@)]
          /\ UNCHANGED <<pc, answer>>
  /\ UNCHANGED <<kept, built, visited, tree>>

-----------------------------------------------------------------------------
(* cg: the queue of functions and the depth at which each was found *)

TreeBegin ==
  /\ pc = "answer" /\ query.kind = "cg"
  /\ pc' = "tree"
  /\ work' = <<Frame(query.from, 0)>>
  /\ visited' = {query.from}
  /\ tree' = {}
  /\ UNCHANGED <<kept, built, answer>>

\* shouldSilence: an unknown callee has no name.
IsSilent(g) == silence /\ g \in Silenced

\* The function at the head of the queue has an edge left to look at.
MayExpand(frame) == frame.depth < query.depth /\ frame.at < EndOf(frame.fn)

\* One edge of the head.  A silent callee is followed at no cost, not shown.
TreeStep ==
  /\ pc = "tree" /\ work # <<>> /\ MayExpand(work[1])
  /\ LET h == work[1]
         e == edges[h.at + 1]
         new == e.type # "CALLANYTHING" /\ e.callee \notin visited
     IN  /\ tree' = IF IsSilent(e.callee) THEN tree ELSE tree \union {<<h.fn, e.callee>>}
         /\ visited' = IF new THEN visited \union {e.callee} ELSE visited
         /\ work' = <<Next1(h)>> \o Tail(work)
                    \o (IF new THEN <<Frame(e.callee, h.depth + (IF IsSilent(e.callee) THEN 0 ELSE 1))>>
                               ELSE <<>>)
  /\ UNCHANGED <<kept, built, pc, answer>>

\* The head of the queue is done, or too deep.
TreePop ==
  /\ pc = "tree" /\ work # <<>> /\ ~MayExpand(work[1])
  /\ work' = Tail(work)
  /\ UNCHANGED <<kept, built, visited, tree, pc, answer>>

\* The functions that edges of t lead to from S in at most n steps.
Downwards(t, S, n) ==
  LET D[k \in 0..n] == IF k = 0 THEN S
                       ELSE D[k - 1] \union {e[2] : e \in {d \in t : d[1] \in D[k - 1]}}
  IN  D[n]

\* responseToString walks the tree down from the function that was asked for.
Shown(f) == {e \in tree : e[1] \in Downwards(tree, {f}, Len(Defined))}

TreeEnd ==
  /\ pc = "tree" /\ work = <<>>
  /\ Reply("ok", <<>>, Shown(query.from))
  /\ UNCHANGED <<kept, built, walkVars>>

-----------------------------------------------------------------------------

Questions ==
  {Query("callout", f, Nobody, FALSE, 0) : f \in AskedFrom}
  \union {Query("callin", f, Nobody, FALSE, 0) : f \in AskedTo}
  \union {Query("cg", f, Nobody, FALSE, d) : f \in AskedFrom, d \in Depths}
  \union {Query("reach", f, g, i, 0) : f \in AskedFrom, g \in AskedTo, i \in BOOLEAN}

Ask == \/ \E q \in Questions : AskGraph(q)
       \/ \E f \in AskedFrom, g \in AskedTo : CGPatch(f, g)
       \/ CGReload \/ ToggleSilence
Build == \/ \E f \in DefinedFns : BuildSite(f) \/ OpenPatch(f) \/ BuildFunction(f)
         \/ SkipBlank \/ LoadPair \/ LoadEnd \/ BuildEnd
Reverse == AnswerOut \/ ReverseBegin \/ ReverseStep \/ ReverseEnd \/ AnswerIn
Reach == ReachBegin \/ ReachFound \/ ReachDescend \/ ReachNext \/ ReachBack
Tree  == TreeBegin \/ TreeStep \/ TreePop \/ TreeEnd
Serve == Build \/ Reverse \/ Reach \/ Tree

Next == Ask \/ Serve \/ EditFile

Spec == Init /\ [][Next]_vars

\* The program computes until it has answered; nobody has to ask or to edit.
FairSpec == Spec /\ WF_vars(Serve)
-----------------------------------------------------------------------------
(* Properties. *)

Idle == pc = "idle"

EnvironmentType ==
  /\ analysis \in Analyses /\ patchPath \in PatchPaths
  /\ patchFile \in [exists : BOOLEAN, lines : Seq(FileLines)]
  /\ unread \in Seq(FileLines)
  /\ edits \in 0..MaxEdits /\ queries \in 0..MaxQueries

GraphType ==
  /\ cgBuilt \in BOOLEAN /\ revBuilt \in BOOLEAN /\ cgPatchLoaded \in BOOLEAN
  /\ edges \in Seq(EdgeType)
  /\ DOMAIN CG \subseteq DefinedFns
  /\ \A f \in DOMAIN CG : CG[f] \in [start : Nat, end : Nat]
  /\ revCG \in [Functions -> Seq(EdgeType)] /\ callAnything \in Seq(EdgeType)
  /\ cgPatchOut \in [Functions -> Seq(Functions)]
  /\ fn \in 1..Len(Defined) + 1 /\ site \in Nat \ {0} /\ startIdx \in Nat /\ at \in Nat \ {0}

QueryType ==
  /\ pc \in {"idle", "build", "load", "answer", "reverse", "reach", "tree"}
  /\ query.from \in Functions \union {Nobody} /\ query.to \in Functions \union {Nobody}
  /\ work \in Seq([fn : Functions, at : Nat, depth : Nat])
  /\ visited \subseteq Functions
  /\ tree \subseteq Functions \X (Functions \union {Nobody})
  /\ silence \in BOOLEAN

(***************************************************************************)
(* The values the variables take; in particular only an unknown call has   *)
(* no callee, whatever is visited is a function, and no range belongs to a *)
(* function without a body.                                                *)
(***************************************************************************)
TypeOK == EnvironmentType /\ GraphType /\ QueryType

In(s) == {s[i] : i \in 1..Len(s)}

\* The calls of f's first n call sites.
SiteCalls(f, n) == UNION {In(SiteEdges(f, k)) : k \in 1..n}

\* The calls of f, as the module, the analysis and the loaded patch have them.
Calls(f) ==
  IF f \in DefinedFns THEN SiteCalls(f, Len(Sites[f])) \union In(PatchEdges(f)) ELSE {}

\* The edges of a range of the pool.
Slice(start, end) == {edges[i] : i \in start + 1 .. end}

(***************************************************************************)
(* A built graph holds for every function exactly its calls, whatever came *)
(* before: builds that an exception ended after some functions, patches    *)
(* that could not be read, reloads.  A function without calls has no       *)
(* range, the others' ranges share the whole pool.                         *)
(***************************************************************************)
ForwardExact ==
  cgBuilt =>
    /\ \A f \in Functions : Slice(StartOf(f), EndOf(f)) = Calls(f)
    /\ \A f \in DOMAIN CG : CG[f].start < CG[f].end /\ CG[f].end <= Len(edges)
    /\ \A i \in 1..Len(edges) : i \in CG[edges[i].caller].start + 1 .. CG[edges[i].caller].end

(***************************************************************************)
(* The reverse graph is the forward graph turned round: "getInEdges +      *)
(* getCallAnythingEdges = all in edges" (CallGraph.h), so a call that      *)
(* callout shows is shown, once, by callin of its callee and the other way *)
(* round.                                                                  *)
(***************************************************************************)
CallsTo(g) == {i \in 1..Len(edges) : edges[i].callee = g}
ReverseExact ==
  revBuilt =>
    /\ cgBuilt
    /\ \A g \in Functions :
         /\ In(revCG[g]) = {edges[i] : i \in CallsTo(g)}
         /\ Len(revCG[g]) = Cardinality(CallsTo(g))
    /\ In(callAnything) = {edges[i] : i \in CallsTo(Nobody)}
    /\ Len(callAnything) = Cardinality(CallsTo(Nobody))

GraphExact == ForwardExact /\ ReverseExact

\* P are the places of the callers in the first n lines: the callee is in the line
\* below, and every other line is blank.
Pairs(lines, n, P) ==
  /\ \A i \in P : i + 1 \in (1..n) \ P /\ {lines[i], lines[i + 1]} \subseteq Functions
  /\ \A i \in 1..n : lines[i] = Blank \/ i \in P \/ i - 1 \in P

\* What a file with these pairs says of f.
PatchOf(lines, P, f) == {lines[i + 1] : i \in {j \in P : lines[j] = f}}

\* The first n lines are well-formed, and out is what they say.
ReadAs(lines, n, out) ==
  \E P \in SUBSET (1..n) : /\ Pairs(lines, n, P)
                           /\ \A f \in Functions : In(out[f]) = PatchOf(lines, P, f)

(***************************************************************************)
(* The patch in use is a whole one: the complete, well-formed content the  *)
(* file had at some moment since the last cgreload (or the start) -- never *)
(* a mixture of a failed and a later reading, and never one from before    *)
(* the reload.                                                             *)
(***************************************************************************)
PatchFresh ==
  (cgPatchLoaded /\ patchPath) =>
    \E c \in contents : c.exists /\ ReadAs(c.lines, Len(c.lines), cgPatchOut)

\* The answer to the query that was asked last.
Answered(kind) == Idle /\ query.kind = kind /\ answer.how = "ok"

(***************************************************************************)
(* reach: a path that is found is a chain of calls from the one function   *)
(* to the other, or to an unknown call; and "no path" comes with a proof,  *)
(* the functions that were visited: no call leads out of them, none goes   *)
(* to the target, and an unknown call is among them only if the flag says  *)
(* so.                                                                     *)
(***************************************************************************)
IsPath(p) ==
  /\ p[1].caller = query.from
  /\ \A i \in 1..Len(p) : p[i] \in Calls(p[i].caller)
  /\ \A i \in 1..Len(p) - 1 : p[i].callee = p[i + 1].caller
  /\ LET last == p[Len(p)] IN
     last.callee = query.to \/ (last.type = "CALLANYTHING" /\ ~query.ignore)
IsClosed(S) ==
  \A f \in S : \A e \in Calls(f) :
    IF e.type = "CALLANYTHING" THEN query.ignore ELSE e.callee # query.to /\ e.callee \in S
ReachExact ==
  Answered("reach") => IF answer.edges # <<>> THEN IsPath(answer.edges)
                                              ELSE IsClosed(visited \union {query.from})

\* The calls whose callee is shown, and the others.
CallPairs == UNION {{<<f, e.callee>> : e \in Calls(f)} : f \in DefinedFns}
Shows     == {c \in CallPairs : ~IsSilent(c[2])}
Hides     == CallPairs \ Shows

\* What is n shown calls away, when hidden calls cost nothing.
Cheap(S, n) ==
  LET Free(T) == Downwards(Hides, T, Len(Defined))
      C[k \in 0..n] == IF k = 0 THEN Free(S) ELSE Free(Downwards(Shows, C[k - 1], 1))
  IN  C[n]

(***************************************************************************)
(* "cg <vid> n" (n: max depth) cuts nothing off too early or too late: all *)
(* functions within n calls that are not silenced are shown, although a    *)
(* function is marked when it is found first, on whatever way; and a shown *)
(* call is a call of a function less than n calls away, counting as the    *)
(* loop does.                                                              *)
(***************************************************************************)
TreeExact ==
  Answered("cg") =>
    LET f == query.from  n == query.depth IN
    /\ Downwards(Shows, {f}, n) \subseteq {f} \union {e[2] : e \in answer.tree}
    /\ \A e \in answer.tree : n > 0 /\ e \in Shows /\ e[1] \in Cheap({f}, n - 1)

\* What is answered by a walk of the graph.
AnswersExact == ReachExact /\ TreeExact

(***************************************************************************)
(* Every query is answered, if only with an error: recursion, cycles and   *)
(* the queue of "cg" come to an end.                                       *)
(***************************************************************************)
EveryQueryAnswered == ~Idle ~> Idle
=============================================================================
