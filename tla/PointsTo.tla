------------------------------ MODULE PointsTo ------------------------------
(***************************************************************************)
(* The points-to and alias caches of the backend, its allocation sites, and*)
(* the queries pts, pt, alias, pts-test and test (src/common/PAWrapper.cpp,*)
(* the parsing of dumps in QueryInterface.cpp).                            *)
(*                                                                         *)
(* An inclusion-based analysis (IncluPAWrapper) is asked for points-to     *)
(* sets and aliases are intersections; a unification-based one (Unifi...)  *)
(* is asked for aliases and sets are the allocation sites that alias.      *)
(* A query is a list of things to do; what is not cached puts what it      *)
(* needs in front.  The analysis may throw at each thing, which ends the   *)
(* query and leaves the caches as they are then.                           *)
(***************************************************************************)
EXTENDS Naturals, Sequences, FiniteSets

CONSTANTS
  Wrappers,   \* the wrapped analyses: what they are and what they say
  Globals,    \* the globals of the module, in order: [name, skipped]
  Bodies,     \* its functions: [name, defined, skipped, code], with instructions
              \*   [name, op: alloca | call | other, heap, callable]
  Marked,     \* the markers of the module's calls, in order: [name, arg, other, idx]
  Reaching,   \* pairs of functions of which the first reaches the other
  PtQueries,  \* the queries that clients ask
  Inline,     \* sets of so many elements are kept inside the table of the map
  GrowAt,     \* numbers of entries at which the table is replaced by a larger one
  MaxAsked    \* bound: queries of one session

ASSUME PointsToAssumption ==
  /\ Len(Globals) \in Nat /\ Len(Bodies) \in Nat /\ Len(Marked) \in Nat
  /\ \A n \in 1..Len(Bodies) : Len(Bodies[n].code) \in Nat
  /\ \A q \in PtQueries :
       /\ q.kind \in {"pts", "pt", "alias", "pts-test", "test", "sites"}
       /\ q.kind = "pts-test" =>
            /\ q.consistent \in BOOLEAN /\ Len(q.lines) \in Nat
            /\ \A n \in 1..Len(q.lines) : Len(q.lines[n].targets) \in Nat

VARIABLES wrapper, ptsCache, aliasCache, sites, todo, asking, held, tally, result, asked,
          misread  \* history: pairs whose alias was read from a freed table
ptVars == <<wrapper, ptsCache, aliasCache, sites, todo, asking, held, tally, result, asked, misread>>

None    == "nullptr"
Anything == {"anything"}   \* the analysis knows nothing of a pointer
Raises  == {"throws"}     \* the analysis throws
Bad     == "no number"    \* an id that cannot be parsed
Put(f, x, y) == [z \in DOMAIN f \union {x} |-> IF z = x THEN y ELSE f[z]]
IsInclu == wrapper.kind = "inclu"

\* A function is known by its name.
ASSUME FunctionsAssumption ==
  \A m \in 1..Len(Bodies) :
    Bodies[m].name # None /\ \A n \in 1..Len(Bodies) : Bodies[m].name = Bodies[n].name => m = n

-----------------------------------------------------------------------------
(* Allocation sites *)

Site(type, value, fn) == [type |-> type, value |-> value, fn |-> fn]

Allocates(i) == i.op = "alloca" \/ (i.op = "call" /\ i.callable /\ i.heap)
Visited(f)   == f.defined /\ ~f.skipped

\* computeAllocationSites goes through the globals, then through each function: the
\* places of what it finds, a function itself being in front of its code.
Places ==
  ({0} \X {i \in 1..Len(Globals) : ~Globals[i].skipped})
  \union UNION {{n} \X ({0} \union {i \in 1..Len(Bodies[n].code) : Allocates(Bodies[n].code[i])}) :
                  n \in {m \in 1..Len(Bodies) : Visited(Bodies[m])}}
Precedes(x, y) == x[1] < y[1] \/ (x[1] = y[1] /\ x[2] < y[2])

SiteAt(x) ==
  IF x[1] = 0 THEN Site("GLOBAL", Globals[x[2]].name, None)
  ELSE LET f == Bodies[x[1]] IN
       IF x[2] = 0 THEN Site("FUNCTION", f.name, None)
       ELSE Site(IF f.code[x[2]].op = "alloca" THEN "STACK" ELSE "HEAP", f.code[x[2]].name, f.name)

ComputedSites ==
  [k \in 1..Cardinality(Places) |->
     SiteAt(CHOOSE x \in Places : Cardinality({y \in Places : Precedes(y, x)}) = k - 1)]

\* getAllocationSites(F): from the first site of the function up to the next other one.
SitesIn(list, f) ==
  LET mine  == {i \in 1..Len(list) : list[i].fn = f}
      start == CHOOSE i \in mine : \A j \in mine : i <= j
      past  == {i \in start + 1..Len(list) + 1 : i \notin mine}
  IN  IF mine = {} THEN <<>> ELSE SubSeq(list, start, (CHOOSE i \in past : \A j \in past : i <= j) - 1)

-----------------------------------------------------------------------------
(* Plans: what a query has to do. *)

Do(what, a, b) == [do |-> what, a |-> a, b |-> b]

\* One edge of a dump: looked up, and with -c in the other way too.
EdgePlan(p, t, consistent) ==
  LET fast == IF IsInclu THEN <<Do("pts", p, None)>> ELSE <<Do("alias", p, t)>>
      slow == IF IsInclu THEN <<Do("pts", p, None), Do("hold", p, None), Do("pts", t, None)>>
                         ELSE <<Do("pts", p, None)>>
  IN  IF consistent THEN fast \o slow \o <<Do("compare", p, t)>> ELSE fast \o <<Do("verdict", p, t)>>

\* All (ptr, target) of a dump, by line and place.
Edges(lines) == UNION {{n} \X (1..Len(lines[n].targets)) : n \in 1..Len(lines)}

\* Targets without a value, and all targets of a key without one.
Unresolved(lines) ==
  Cardinality({e \in Edges(lines) : None \in {lines[e[1]].key, lines[e[1]].targets[e[2]]}})
IsMalformed(lines) ==
  \E n \in 1..Len(lines) : lines[n].key = Bad \/ \E t \in 1..Len(lines[n].targets) : lines[n].targets[t] = Bad

\* Mutant: the first mark counts.
MarkOfFirst(mark, idx) ==
  LET found == {i \in 1..Len(Marked) : Marked[i].name = mark /\ Marked[i].idx = idx} IN
  IF found = {} THEN None ELSE Marked[CHOOSE i \in found : \A j \in found : i <= j].arg

\* test: a check's other operand is given, or is the last of the marks with its index.
MarkOf(mark, idx) ==
  LET found == {i \in 1..Len(Marked) : Marked[i].name = mark /\ Marked[i].idx = idx} IN
  IF found = {} THEN None ELSE Marked[CHOOSE i \in found : \A j \in found : i >= j].arg

IsCheck(c) == c.name \notin {"MARK_AS", "MARK_FUNCTION"}
IsPointsTo(c) == c.name \in {"CHECK_POINTS_TO", "CHECK_NO_POINTS_TO"}
Rhs(c) == IF IsPointsTo(c) \/ c.name = "CHECK_ALIAS" THEN MarkOf("MARK_AS", c.idx)
          ELSE IF c.name = "CHECK_REACH" THEN MarkOf("MARK_FUNCTION", c.idx) ELSE c.other

\* Nothing is looked up when the mark is missing, and for CHECK_REACH nothing here.
CheckPlan(n) ==
  LET c == Marked[n] IN
  IF ~IsCheck(c) THEN <<>>
  ELSE IF Rhs(c) = None \/ c.name = "CHECK_REACH" THEN <<Do("check", n, None)>>
  ELSE IF IsPointsTo(c) THEN <<Do("pts", c.arg, None), Do("check", n, None)>>
  ELSE <<Do("alias", c.arg, Rhs(c)), Do("check", n, None)>>

\* A dump is a sequence of lines with a key and targets; ids are resolved or None.
Plan(q) ==
  CASE q.kind \in {"pts", "pt"} -> <<Do("pts", q.a, None)>>
    [] q.kind = "alias"         -> <<Do("alias", q.a, q.b)>>
    [] q.kind = "pts-test"      -> [n \in 1..Len(q.lines) |-> Do("line", n, None)]
    [] q.kind = "test"          -> [n \in 1..Len(Marked) |-> Do("marked", n, None)]
    [] q.kind = "sites"         -> <<Do("sites", None, None)>>

-----------------------------------------------------------------------------

NoTally == [Pass |-> 0, Fail |-> 0, Error |-> 0, PassButExpectedFail |-> 0, FailAndExpectedFail |-> 0]
NoPtQuery == [kind |-> "none"]

\* The server object is zero-initialised; no site is computed yet.
PtInit ==
  /\ wrapper \in Wrappers
  /\ ptsCache = [p \in {} |-> Anything] /\ aliasCache = [s \in {} |-> None]
  /\ sites = <<>>
  /\ todo = <<>> /\ asking = NoPtQuery /\ held = None /\ misread = {}
  /\ tally = NoTally /\ result = "none" /\ asked = 0

\* An exception: the rest of the query is given up.
FailsWith(error) == result' = error /\ todo' = <<>>

\* The session takes the next query.
AskPt(q) ==
  /\ result # "asked" /\ asked < MaxAsked
  /\ asked' = asked + 1
  /\ asking' = q
  /\ IF q.kind = "pts-test" /\ IsMalformed(q.lines) THEN FailsWith("error")
     ELSE todo' = Plan(q) /\ result' = "asked"
  /\ tally' = [NoTally EXCEPT !.Error = IF q.kind = "pts-test" THEN Unresolved(q.lines) ELSE 0]
  /\ held' = None
  /\ UNCHANGED <<wrapper, ptsCache, aliasCache, sites, misread>>

\* All is done; the answer is in the caches and the tally.
ReplyPt ==
  /\ result = "asked" /\ todo = <<>>
  /\ result' = "ok"
  /\ UNCHANGED <<wrapper, ptsCache, aliasCache, sites, todo, asking, held, tally, asked, misread>>

Doing(what)  == result = "asked" /\ todo # <<>> /\ Head(todo).do = what
Now          == Head(todo)
Done         == todo' = Tail(todo) /\ UNCHANGED result
Before(steps) == todo' = steps \o Tail(todo) /\ UNCHANGED result
caches == <<ptsCache, aliasCache, sites, misread>>
fixed  == <<wrapper, asking, asked>>

\* The loops of pts-test and test: the next line, the next target, the next check.
TakeLine ==
  /\ Doing("line")
  /\ Before([k \in 1..Len(asking.lines[Now.a].targets) |-> Do("target", Now.a, k)])
  /\ UNCHANGED <<fixed, caches, held, tally>>
TakeTarget ==
  /\ Doing("target")
  /\ LET p == asking.lines[Now.a].key  t == asking.lines[Now.a].targets[Now.b] IN
     Before(IF None \in {p, t} THEN <<>> ELSE EdgePlan(p, t, asking.consistent))
  /\ UNCHANGED <<fixed, caches, held, tally>>
TakeCheck ==
  /\ Doing("marked") /\ Before(CheckPlan(Now.a))
  /\ UNCHANGED <<fixed, caches, held, tally>>

\* Mutant: a failure is cached as an empty set.
StorePtsAlways(p, says) == Done /\ ptsCache' = Put(ptsCache, p, IF says = Raises THEN {} ELSE says)

\* The analysis answers with a set or "unknown", or throws.
StorePts(p, says) ==
  IF says = Raises THEN FailsWith("error") /\ UNCHANGED ptsCache
  ELSE Done /\ ptsCache' = Put(ptsCache, p, says)

\* getPointsToSetCached; a table that grows frees what a held view looks at.
LookUpPts ==
  /\ Doing("pts")
  /\ LET p == Now.a IN
     IF p \in DOMAIN ptsCache THEN Done /\ UNCHANGED <<ptsCache, held>>
     ELSE IF IsInclu
     THEN /\ StorePts(p, wrapper.pts[p])
          /\ held' = IF Cardinality(DOMAIN ptsCache) + 1 \in GrowAt /\ held # None
                        /\ ptsCache[held] # Anything /\ Cardinality(ptsCache[held]) <= Inline
                     THEN "freed" ELSE held
     ELSE /\ Before([n \in 1..Len(ComputedSites) |-> Do("alias", p, ComputedSites[n].value)]
                   \o <<Do("collect", p, None)>>)
          /\ UNCHANGED <<ptsCache, held>>
  /\ sites' = IF IsInclu THEN sites ELSE ComputedSites
  /\ UNCHANGED <<fixed, aliasCache, misread, tally>>

\* UnifiPAWrapper::getPointsToSet
Collect ==
  /\ Doing("collect")
  /\ ptsCache' = Put(ptsCache, Now.a,
                     {sites[n].value : n \in {m \in 1..Len(sites) : aliasCache[{Now.a, sites[m].value}] # "No"}})
  /\ Done
  /\ UNCHANGED <<fixed, aliasCache, sites, misread, held, tally>>

\* The key of the alias cache is the pair in the order of the addresses.
Key(a, b) == {a, b}

\* getAliasResultCached
LookUpAlias ==
  /\ Doing("alias")
  /\ LET a == Now.a  b == Now.b  says == wrapper.alias[{a, b}] IN
     IF Key(a, b) \in DOMAIN aliasCache THEN Done /\ UNCHANGED aliasCache
     ELSE IF IsInclu
     THEN \* the order of the two arguments is the compiler's
          /\ \E o \in {<<a, b>>, <<b, a>>} :
               Before(<<Do("pts", o[1], None), Do("hold", o[1], None), Do("pts", o[2], None), Do("meet", a, b)>>)
          /\ UNCHANGED aliasCache
     ELSE IF says = "throws" THEN FailsWith("error") /\ UNCHANGED aliasCache
     ELSE Done /\ aliasCache' = Put(aliasCache, Key(a, b), says)
  /\ UNCHANGED <<fixed, ptsCache, sites, misread, held, tally>>

\* The view of the first set is kept for the time of the second look-up, unless the
\* compiler evaluates the other argument first.
Hold ==
  /\ Doing("hold") /\ Done /\ held' \in {Now.a, None}
  /\ UNCHANGED <<fixed, caches, tally>>

\* aliasByIntersection
Intersection(S, T) ==
  IF Anything \in {S, T} THEN "May" ELSE IF S \intersect T = {} THEN "No" ELSE "May"

\* What is read: from a freed table anything, unless a set is empty or unknown.
Meets(a, b) ==
  IF held = "freed" /\ {ptsCache[a], ptsCache[b]} \intersect {Anything, {}} = {}
  THEN {"May", "No"} ELSE {Intersection(ptsCache[a], ptsCache[b])}

\* The history of such reads.
Misreads ==
  /\ misread' = IF held = "freed" THEN misread \union {Key(Now.a, Now.b)} ELSE misread
  /\ held' = None

Meet ==
  /\ Doing("meet") /\ Done
  /\ \E m \in Meets(Now.a, Now.b) : aliasCache' = Put(aliasCache, Key(Now.a, Now.b), m)
  /\ Misreads
  /\ UNCHANGED <<fixed, ptsCache, sites, tally>>

\* mayPointTo: anything may be in an unknown set.
MayPointTo(S, t) == IF S = Anything THEN "May" ELSE IF t \in S THEN "May" ELSE "No"

\* pts-test: the fast answer counts; with -c the slow one must not contradict it.
Fast(p, t)  == IF IsInclu THEN MayPointTo(ptsCache[p], t) ELSE aliasCache[Key(p, t)]
Slows(p, t) == IF IsInclu THEN Meets(p, t) ELSE {MayPointTo(ptsCache[p], t)}
Count(verdict) == tally' = [tally EXCEPT ![IF verdict = "No" THEN "Fail" ELSE "Pass"] = @ + 1]

Verdict ==
  /\ Doing("verdict") /\ Done /\ Count(Fast(Now.a, Now.b))
  /\ UNCHANGED <<fixed, caches, held>>

Compare ==
  /\ Doing("compare")
  /\ \E slow \in Slows(Now.a, Now.b) :
       IF (slow = "No") = (Fast(Now.a, Now.b) = "No") THEN Done /\ Count(slow)
       ELSE FailsWith("inconsistent") /\ UNCHANGED tally
  /\ Misreads
  /\ UNCHANGED <<fixed, ptsCache, aliasCache, sites>>

\* matchesExpectation, and the other two kinds of checks.
AliasPasses(name, actual) ==
  CASE name \in {"MAYALIAS", "MUSTALIAS", "CHECK_ALIAS", "EXPECTEDFAIL_MAYALIAS"} -> actual # "No"
    [] name \in {"NOALIAS", "EXPECTEDFAIL_NOALIAS"} -> actual = "No"
    [] name = "PARTIALALIAS" -> actual = "May"
Passes(c) ==
  /\ Rhs(c) # None
  /\ CASE IsPointsTo(c) -> (c.name = "CHECK_POINTS_TO") = (ptsCache[c.arg] # Anything /\ Rhs(c) \in ptsCache[c.arg])
       [] c.name = "CHECK_REACH" -> <<c.arg, Rhs(c)>> \in Reaching
       [] OTHER -> AliasPasses(c.name, aliasCache[Key(c.arg, Rhs(c))])
ExpectedFail(c) == c.name \in {"EXPECTEDFAIL_MAYALIAS", "EXPECTEDFAIL_NOALIAS"}
Status(c, passed) ==
  IF ExpectedFail(c) THEN IF passed THEN "PassButExpectedFail" ELSE "FailAndExpectedFail"
  ELSE IF passed THEN "Pass" ELSE "Fail"

Check ==
  /\ Doing("check") /\ Done
  /\ LET c == Marked[Now.a] IN tally' = [tally EXCEPT ![Status(c, Passes(c))] = @ + 1]
  /\ UNCHANGED <<fixed, caches, held>>

\* AllAllocSitesIn and AllocSitesIn
ListSites ==
  /\ Doing("sites") /\ Done /\ sites' = ComputedSites
  /\ UNCHANGED <<fixed, ptsCache, aliasCache, misread, held, tally>>

PtNext ==
  \/ \E q \in PtQueries : AskPt(q)
  \/ ReplyPt \/ TakeLine \/ TakeTarget \/ TakeCheck \/ LookUpPts \/ Collect \/ LookUpAlias \/ Hold \/ Meet \/ Verdict \/ Compare \/ Check \/ ListSites

PtSpec == PtInit /\ [][PtNext]_ptVars

-----------------------------------------------------------------------------
(* Properties. *)

\* What the analysis says of a pointer's set and of two pointers.
SetOf(p) ==
  IF IsInclu THEN wrapper.pts[p]
  ELSE {ComputedSites[n].value : n \in {m \in 1..Len(ComputedSites) : wrapper.alias[{p, ComputedSites[m].value}] # "No"}}
AliasOf(pair) ==
  IF IsInclu
  THEN LET a == CHOOSE x \in pair : TRUE
           b == CHOOSE x \in pair : pair = {a} \/ x # a
       IN  Intersection(SetOf(a), SetOf(b))
  ELSE wrapper.alias[pair]

(***************************************************************************)
(* The caches never make an answer wrong: whatever was asked before, in    *)
(* whatever order, and whatever failed in the middle, an entry is what the *)
(* analysis says -- but for pairs that were intersected while the table    *)
(* grew, where the first set is read after it was freed.                   *)
(***************************************************************************)
CachesTrue ==
  /\ \A p \in DOMAIN ptsCache : ptsCache[p] = SetOf(p)
  /\ \A pair \in DOMAIN aliasCache \ misread : aliasCache[pair] = AliasOf(pair)

\* What the analysis says of an edge, asked in the one way and in the other.
Contained(p, t) == MayPointTo(SetOf(p), t) # "No"
Aliased(p, t)   == AliasOf(Key(p, t)) # "No"
May(p, t)       == IF IsInclu THEN Contained(p, t) ELSE Aliased(p, t)
MaySlow(p, t)   == IF IsInclu THEN Aliased(p, t) ELSE Contained(p, t)

\* The edges of a dump of which both ends have a value.
From(lines, e)   == lines[e[1]].key
Target(lines, e) == lines[e[1]].targets[e[2]]
Resolved(lines)  == {e \in Edges(lines) : None \notin {From(lines, e), Target(lines, e)}}
Good(lines, e)   == May(From(lines, e), Target(lines, e))
Agree(lines, e)  == Good(lines, e) <=> MaySlow(From(lines, e), Target(lines, e))

\* The operand a check means: its own, or that of a mark that no later one replaces.
Marks(c, i)  == Marked[i].name = (IF c.name = "CHECK_REACH" THEN "MARK_FUNCTION" ELSE "MARK_AS")
                /\ Marked[i].idx = c.idx
Means(c, x)  ==
  IF IsPointsTo(c) \/ c.name \in {"CHECK_ALIAS", "CHECK_REACH"}
  THEN \E i \in 1..Len(Marked) : Marks(c, i) /\ Marked[i].arg = x /\ \A j \in i + 1..Len(Marked) : ~Marks(c, j)
  ELSE c.other = x

\* What a check claims, in terms of the analysis; one without an operand claims nothing.
Holds(c) ==
  \E x \in ({Marked[i].arg : i \in 1..Len(Marked)} \union {c.other}) \ {None} :
    /\ Means(c, x)
    /\ CASE c.name = "CHECK_POINTS_TO"    -> SetOf(c.arg) # Anything /\ x \in SetOf(c.arg)
         [] c.name = "CHECK_NO_POINTS_TO" -> SetOf(c.arg) = Anything \/ x \notin SetOf(c.arg)
         [] c.name = "CHECK_REACH"        -> <<c.arg, x>> \in Reaching
         [] OTHER                         -> AliasPasses(c.name, AliasOf(Key(c.arg, x)))

(***************************************************************************)
(* "Each dumped edge (ptr -> target) is one check: FAIL when the analyzer  *)
(* does not report ptr may point to target, ERROR when a vid does not      *)
(* resolve" (PAWrapper.cpp:149): no edge is counted twice or left out,     *)
(* none is judged by a stale answer, and -c refuses a dump exactly if the  *)
(* two ways of asking differ on one of its edges.                          *)
(***************************************************************************)
EdgesCounted ==
  (asking.kind = "pts-test" /\ misread = {}) =>
    LET lines == asking.lines
        edges == Resolved(lines)
        good  == {e \in edges : Good(lines, e)}
    IN  /\ result = "ok" =>
             /\ tally.Pass = Cardinality(good)
             /\ tally.Fail = Cardinality(edges \ good)
             /\ tally.Error = Cardinality(Edges(lines) \ edges)
             /\ asking.consistent => \A e \in edges : Agree(lines, e)
        /\ result = "inconsistent" => asking.consistent /\ \E e \in edges : ~Agree(lines, e)

(***************************************************************************)
(* "test" judges every check once, by the last mark with its index that is *)
(* anywhere in the module, as the analysis says; an expected failure never *)
(* counts as a plain one.                                                  *)
(***************************************************************************)
ChecksCounted ==
  (asking.kind = "test" /\ result = "ok" /\ misread = {}) =>
    LET With(expected, holds) ==
          Cardinality({n \in 1..Len(Marked) : /\ IsCheck(Marked[n])
                                             /\ ExpectedFail(Marked[n]) = expected /\ Holds(Marked[n]) = holds})
    IN  tally = [Pass |-> With(FALSE, TRUE), Fail |-> With(FALSE, FALSE), Error |-> 0,
                 PassButExpectedFail |-> With(TRUE, TRUE), FailAndExpectedFail |-> With(TRUE, FALSE)]

\* Each function has all of its allocation sites and no other's, in the order of its code.
SitesExact ==
  sites # <<>> => \A n \in 1..Len(Bodies) :
    LET f      == Bodies[n]
        mine   == {i \in 1..Len(f.code) : Visited(f) /\ Allocates(f.code[i])}
        listed == SitesIn(sites, f.name)
    IN  /\ Len(listed) = Cardinality(mine)
        /\ \A i \in mine : listed[Cardinality({j \in mine : j <= i})] =
                             Site(IF f.code[i].op = "alloca" THEN "STACK" ELSE "HEAP", f.code[i].name, f.name)

(***************************************************************************)
(* What the tests and "site" answer is what the analysis and the module    *)
(* say, whatever the caches held before.                                   *)
(***************************************************************************)
TestsExact == EdgesCounted /\ ChecksCounted /\ SitesExact
=============================================================================
